--------------------------- MODULE CloudSqlProofs ---------------------------
(***************************************************************************)
(* Proofs about CloudSql, for any number of replicas, values, creations,   *)
(* edits and deletions by others.                                          *)
(***************************************************************************)
EXTENDS CloudSql, TLAPS

-----------------------------------------------------------------------------
(* The inductive invariant.                                                *)

\* Nobody sees a deletion that has not begun.
Ended == {"deleting", "gone"}
CacheFollows == \A r \in Replicas : cache[r].state \in Ended => cr.state \in Ended

\* What a worker knows when it is at a step: only who sees the deletion deletes,
\* and every copy of the object is tagged once the tagger ran.
Knows(w, object) ==
  w.pc # "idle" =>
    /\ w.mem.state = w.seen.state
    /\ w.seen.state \in Ended => object.state \in Ended
    /\ w.pc # "init" => w.seen.tagged = TRUE /\ w.mem.tagged = TRUE
    /\ w.pc = "delete" => w.seen.state = "deleting"
    /\ w.pc = "finalizer" => w.seen.state = "new" /\ w.next \in {"create", "update", "idle"}
    /\ w.pc = "lateInit" => w.next \in IF w.seen.state = "deleting" THEN {"delete"}
                                       ELSE {"create", "update", "idle"}
WorkersKnow == \A r \in Replicas : Knows(worker[r], cr)

InstanceTagged == inst.state # "NONE" => inst.tagged = TRUE

\* Until the object is deleted, and as long as nobody else deletes the instance,
\* there is one instance and one password.
OnePassword ==
  cr.state \notin Ended /\ foreign = 0 =>
    /\ IF inst.state = "NONE" THEN passwords = NoPassword ELSE inst.password = passwords
    /\ secret \in {NoPassword, passwords}
    /\ \A r \in Replicas :
         worker[r].pc = "publish" => worker[r].password = passwords /\ passwords # NoPassword

IInv == TypeOK /\ CacheFollows /\ WorkersKnow /\ InstanceTagged /\ OnePassword

-----------------------------------------------------------------------------
(* The invariant holds at first, and every step keeps it.                  *)

LEMMA InitialInvariant ==
  ASSUME Init PROVE IInv
<1>1. cr \in CR /\ cr.state = "new"
  BY DEF Init, CR, Opt
<1>2. TypeOK
  <2>1. inst \in Instance
    BY CloudSqlAssumption DEF Init, Instance, NoInstance, State, Opt, NoPassword
  <2>2. cache \in [Replicas -> CR] /\ worker \in [Replicas -> Busy \cup {Idle}]
    BY <1>1 DEF Init
  <2>3. secret \in 0..MaxCreates /\ passwords \in 0..MaxCreates
        /\ edits \in 0..MaxChanges /\ foreign \in 0..MaxChanges
    <3>1. secret = 0 /\ passwords = 0 /\ edits = 0 /\ foreign = 0
      BY DEF Init, NoPassword
    <3>2. QED
      BY <3>1, CloudSqlAssumption
  <2>4. QED
    BY <1>1, <2>1, <2>2, <2>3 DEF TypeOK
<1>3. \A r \in Replicas : worker[r].pc = "idle" /\ cache[r] = cr
  BY DEF Init, Idle
<1>4. CacheFollows /\ WorkersKnow /\ InstanceTagged
  BY <1>1, <1>3 DEF Init, CacheFollows, WorkersKnow, Knows, InstanceTagged, NoInstance, Ended
<1>5. OnePassword
  BY <1>3 DEF Init, OnePassword, NoInstance, NoPassword
<1>6. QED
  BY <1>2, <1>4, <1>5 DEF IInv

LEMMA BusyWorker ==
  ASSUME TypeOK, NEW r \in Replicas, worker[r].pc # "idle"
  PROVE  /\ worker[r] \in Busy /\ worker[r].seen \in CR /\ worker[r].mem \in CR
         /\ worker[r].mem.param \in Opt
  BY DEF TypeOK, Idle, Busy, CR

LEMMA Numbers ==
  ASSUME TypeOK
  PROVE  passwords \in Nat /\ MaxCreates \in Nat /\ foreign \in Nat /\ edits \in Nat
  BY CloudSqlAssumption DEF TypeOK

\* A deletion is never taken back: what workers know of it stays true.
LEMMA WorkerMoves ==
  ASSUME IInv, NEW r \in Replicas, NEW w \in Busy \cup {Idle},
         worker' = [worker EXCEPT ![r] = w], cache' = cache,
         cr.state \in Ended => cr'.state \in Ended, Knows(w, cr')
  PROVE  /\ worker' \in [Replicas -> Busy \cup {Idle}]
         /\ CacheFollows' /\ WorkersKnow'
         /\ \A q \in Replicas : worker'[q] = IF q = r THEN w ELSE worker[q]
<1>1. /\ worker' \in [Replicas -> Busy \cup {Idle}]
      /\ \A q \in Replicas : worker'[q] = IF q = r THEN w ELSE worker[q]
  BY DEF IInv, TypeOK
<1>2. CacheFollows'
  BY DEF IInv, CacheFollows
<1>3. ASSUME NEW q \in Replicas PROVE Knows(worker'[q], cr')
  <2>1. CASE q = r
    BY <1>1, <2>1 DEF Knows
  <2>2. CASE q # r
    BY <1>1, <2>2 DEF IInv, WorkersKnow, Knows
  <2>3. QED
    BY <2>1, <2>2
<1>4. QED
  BY <1>1, <1>2, <1>3 DEF WorkersKnow

\* A step that leaves the instance and the secret alone.
LEMMA QuietStep ==
  ASSUME IInv, NEW r \in Replicas, NEW w \in Busy \cup {Idle},
         worker' = [worker EXCEPT ![r] = w], cr' \in CR,
         cr.state \in Ended => cr'.state \in Ended, Knows(w, cr'), w.pc # "publish",
         UNCHANGED <<cache, inst, secret, passwords, edits, foreign>>
  PROVE  IInv'
<1>1. /\ worker' \in [Replicas -> Busy \cup {Idle}]
      /\ CacheFollows' /\ WorkersKnow'
      /\ \A q \in Replicas : worker'[q] = IF q = r THEN w ELSE worker[q]
  BY WorkerMoves
<1>2. TypeOK' /\ InstanceTagged'
  BY <1>1 DEF IInv, TypeOK, InstanceTagged
<1>3. OnePassword'
  BY <1>1 DEF IInv, OnePassword
<1>4. QED
  BY <1>1, <1>2, <1>3 DEF IInv

\* A step after which the worker is idle.
LEMMA IdleKnows == Knows(Idle, cr')
  BY DEF Knows, Idle

\* A step of the user, the watch or the service.
LEMMA EditSpecInvariant ==
  ASSUME IInv, EditSpec PROVE IInv'
<1>1. /\ cr' \in CR /\ cr'.state = cr.state /\ edits' \in 0..MaxChanges
      /\ UNCHANGED <<cache, worker, inst, secret, passwords, foreign>>
  <2>1. PICK v \in Values : cr' = [cr EXCEPT !.param = v, !.tagged = FALSE]
    BY DEF EditSpec
  <2>2. cr' \in CR /\ cr'.state = cr.state
    BY <2>1 DEF IInv, TypeOK, CR, Opt
  <2>3. QED
    BY <2>2, Numbers, CloudSqlAssumption DEF IInv, TypeOK, EditSpec
<1>2. QED
  BY <1>1 DEF IInv, TypeOK, CacheFollows, WorkersKnow, Knows, InstanceTagged, OnePassword

LEMMA DeleteCRInvariant ==
  ASSUME IInv, DeleteCR PROVE IInv'
<1>1. /\ cr' \in CR /\ cr'.state \in Ended
      /\ UNCHANGED <<cache, worker, inst, secret, passwords, edits, foreign>>
  BY DEF IInv, TypeOK, DeleteCR, CR, Ended
<1>2. QED
  BY <1>1 DEF IInv, TypeOK, CacheFollows, WorkersKnow, Knows, InstanceTagged, OnePassword

LEMMA SyncInvariant ==
  ASSUME IInv, NEW r \in Replicas, Sync(r) PROVE IInv'
<1>1. /\ cache' \in [Replicas -> CR] /\ \A q \in Replicas : cache'[q] \in {cr, cache[q]}
      /\ UNCHANGED <<cr, worker, inst, secret, passwords, edits, foreign>>
  BY DEF IInv, TypeOK, Sync
<1>2. QED
  BY <1>1 DEF IInv, TypeOK, CacheFollows, WorkersKnow, Knows, InstanceTagged, OnePassword

LEMMA FinishCreationInvariant ==
  ASSUME IInv, FinishCreation PROVE IInv'
<1>1. /\ inst' \in Instance /\ inst'.state # "NONE" /\ inst.state # "NONE"
      /\ inst'.tagged = inst.tagged /\ inst'.password = inst.password
      /\ UNCHANGED <<cr, cache, worker, secret, passwords, edits, foreign>>
  BY DEF IInv, TypeOK, FinishCreation, Instance, State
<1>2. QED
  BY <1>1 DEF IInv, TypeOK, CacheFollows, WorkersKnow, Knows, InstanceTagged, OnePassword

LEMMA ForeignDeleteInvariant ==
  ASSUME IInv, ForeignDelete PROVE IInv'
<1>1. /\ inst' \in Instance /\ inst'.state = "NONE"
      /\ foreign' \in 0..MaxChanges /\ foreign' # 0
      /\ UNCHANGED <<cr, cache, worker, secret, passwords, edits>>
  BY Numbers, CloudSqlAssumption
     DEF IInv, TypeOK, ForeignDelete, Instance, NoInstance, State, Opt, NoPassword
<1>2. QED
  BY <1>1 DEF IInv, TypeOK, CacheFollows, WorkersKnow, Knows, InstanceTagged, OnePassword

\* The steps of the worker.
LEMMA BeginInvariant ==
  ASSUME IInv, NEW r \in Replicas, Begin(r) PROVE IInv'
<1> DEFINE w == [pc |-> "init", next |-> "idle", seen |-> cache[r], mem |-> cache[r],
                 observed |-> "NONE", password |-> NoPassword]
<1>1. /\ worker' = [worker EXCEPT ![r] = w]
      /\ UNCHANGED <<cr, cache, inst, secret, passwords, edits, foreign>>
  BY DEF Begin
<1>2. w \in Busy /\ cr' \in CR
  BY <1>1, CloudSqlAssumption DEF IInv, TypeOK, Busy, State, NoPassword
<1>3. Knows(w, cr')
  BY <1>1 DEF Knows, IInv, CacheFollows
<1>4. w.pc # "publish"
  OBVIOUS
<1> HIDE DEF w
<1>5. QED
  BY <1>1, <1>2, <1>3, <1>4, QuietStep

LEMMA FailInvariant ==
  ASSUME IInv, NEW r \in Replicas, Fail(r) PROVE IInv'
<1>1. worker' = [worker EXCEPT ![r] = Idle] /\ Idle.pc # "publish" /\ cr' \in CR
      /\ UNCHANGED <<cr, cache, inst, secret, passwords, edits, foreign>>
  BY DEF Fail, Done, Idle, IInv, TypeOK
<1>2. QED
  BY <1>1, IdleKnows, QuietStep

LEMMA InitializeInvariant ==
  ASSUME IInv, NEW r \in Replicas, Initialize(r) PROVE IInv'
<1> DEFINE new == [cr EXCEPT !.tagged = TRUE]
           w == [worker[r] EXCEPT !.pc = "observe", !.seen = new, !.mem = new]
<1>1. /\ worker[r].pc = "init" /\ cr = worker[r].seen /\ cr' = new
      /\ worker' = [worker EXCEPT ![r] = w]
      /\ UNCHANGED <<cache, inst, secret, passwords, edits, foreign>>
  BY DEF Initialize, UpdateObject, At
<1>2. worker[r] \in Busy
  BY <1>1, BusyWorker DEF IInv
<1>3. new \in CR /\ new.state = cr.state /\ new.tagged = TRUE
  BY DEF IInv, TypeOK, CR
<1> HIDE DEF new
<1>4. w \in Busy /\ w.pc = "observe" /\ w.seen = new /\ w.mem = new
  BY <1>2, <1>3 DEF Busy
<1> HIDE DEF w
<1>5. Knows(w, cr')
  BY <1>1, <1>3, <1>4 DEF Knows
<1>6. QED
  BY <1>1, <1>3, <1>4, <1>5, QuietStep

\* Where a worker goes on to, or ends.
LEMMA ProceedStep ==
  ASSUME IInv, NEW r \in Replicas, NEW w \in Busy, NEW pc, Proceed(r, w, pc),
         pc = "idle" \/ ([w EXCEPT !.pc = pc] \in Busy /\ Knows([w EXCEPT !.pc = pc], cr')),
         pc # "publish", cr' \in CR, cr.state \in Ended => cr'.state \in Ended,
         UNCHANGED <<cache, inst, secret, passwords, edits, foreign>>
  PROVE  IInv'
<1>1. CASE pc = "idle"
  <2>1. worker' = [worker EXCEPT ![r] = Idle] /\ Idle.pc # "publish"
    BY <1>1 DEF Proceed, Idle
  <2>2. QED
    BY <2>1, IdleKnows, QuietStep
<1>2. CASE pc # "idle"
  <2> DEFINE v == [w EXCEPT !.pc = pc]
  <2>1. worker' = [worker EXCEPT ![r] = v] /\ v \in Busy /\ Knows(v, cr') /\ v.pc # "publish"
    BY <1>2 DEF Proceed, Busy
  <2> HIDE DEF v
  <2>2. QED
    BY <2>1, QuietStep
<1>3. QED
  BY <1>1, <1>2

LEMMA ObserveInvariant ==
  ASSUME IInv, NEW r \in Replicas, Observe(r) PROVE IInv'
<1> DEFINE w     == worker[r]
           state == w.seen.state
           mem   == [w.mem EXCEPT !.param = LateInitializeSpec(@, inst.param)]
           next  == IF state = "deleting" THEN "delete"
                    ELSE IF IsUpToDate(mem, inst) THEN "idle" ELSE "update"
           seen  == [w EXCEPT !.mem = mem, !.observed = GenerateObservation(inst), !.next = next]
<1>1. /\ w.pc = "observe" /\ w \in Busy /\ w.mem \in CR
      /\ UNCHANGED <<cr, cache, inst, secret, passwords, edits, foreign>>
  BY BusyWorker DEF Observe, At, IInv
<1>2. w.mem.state = state /\ (state \in Ended => cr.state \in Ended)
  BY <1>1 DEF IInv, WorkersKnow, Knows
<1>3. w.seen.tagged = TRUE /\ w.mem.tagged = TRUE
  BY <1>1 DEF IInv, WorkersKnow, Knows
<1>4. cr' \in CR
  BY <1>1 DEF IInv, TypeOK
<1>5. CASE Exists(inst)
  <2> DEFINE pc == IF mem # w.mem THEN "lateInit" ELSE AfterObserve(state, next)
  <2>1. Proceed(r, seen, pc)
    BY <1>5 DEF Observe
  <2>2. mem \in CR /\ mem.state = state /\ mem.tagged = TRUE
    BY <1>1, <1>2, <1>3 DEF IInv, TypeOK, Instance, CR, LateInitializeSpec
  <2> HIDE DEF mem
  <2>3. next \in IF state = "deleting" THEN {"delete"} ELSE {"create", "update", "idle"}
    OBVIOUS
  <2> HIDE DEF next
  <2>4. /\ seen \in Busy /\ seen.mem = mem /\ seen.seen = w.seen /\ seen.next = next
    BY <1>1, <2>2, <2>3 DEF Busy, IInv, TypeOK, Instance, GenerateObservation
  <2> HIDE DEF seen
  <2>5. /\ pc \in {"lateInit", "finalizer", "update", "delete", "create", "idle"}
        /\ pc = "finalizer" => state = "new" /\ next \in {"create", "update", "idle"}
        /\ pc = "delete" => state = "deleting"
    BY <2>3 DEF AfterObserve
  <2> HIDE DEF pc
  <2>6. ASSUME pc # "idle" PROVE [seen EXCEPT !.pc = pc] \in Busy /\ Knows([seen EXCEPT !.pc = pc], cr')
    <3> DEFINE v == [seen EXCEPT !.pc = pc]
    <3>1. v \in Busy /\ v.pc = pc /\ v.mem = mem /\ v.seen = w.seen /\ v.next = next
      BY <2>4, <2>5, <2>6 DEF Busy
    <3> HIDE DEF v
    <3>2. Knows(v, cr')
      BY <1>1, <1>2, <1>3, <2>2, <2>3, <2>5, <3>1 DEF Knows
    <3>3. QED
      BY <3>1, <3>2 DEF v
  <2>7. QED
    BY <1>1, <1>4, <2>1, <2>4, <2>5, <2>6, ProceedStep
<1>6. CASE ~Exists(inst) /\ state = "deleting"
  <2> DEFINE v == [w EXCEPT !.pc = "unfinalize"]
  <2>1. worker' = [worker EXCEPT ![r] = v]
    BY <1>6 DEF Observe, Goto
  <2>2. v \in Busy /\ v.pc = "unfinalize" /\ v.mem = w.mem /\ v.seen = w.seen
    BY <1>1 DEF Busy
  <2> HIDE DEF v
  <2>3. Knows(v, cr')
    BY <1>1, <1>2, <1>3, <2>2 DEF Knows
  <2>4. QED
    BY <1>1, <1>4, <2>1, <2>2, <2>3, QuietStep
<1>7. CASE ~Exists(inst) /\ state # "deleting"
  <2> DEFINE u  == [w EXCEPT !.next = "create"]
             pc == AfterObserve(state, "create")
  <2>1. Proceed(r, u, pc)
    BY <1>7 DEF Observe
  <2>2. u \in Busy /\ u.mem = w.mem /\ u.seen = w.seen /\ u.next = "create"
    BY <1>1 DEF Busy
  <2> HIDE DEF u
  <2>3. pc \in {"finalizer", "create"} /\ (pc = "finalizer" => state = "new")
    BY DEF AfterObserve
  <2> HIDE DEF pc
  <2>4. [u EXCEPT !.pc = pc] \in Busy /\ Knows([u EXCEPT !.pc = pc], cr')
    <3> DEFINE v == [u EXCEPT !.pc = pc]
    <3>1. v \in Busy /\ v.pc = pc /\ v.mem = w.mem /\ v.seen = w.seen /\ v.next = "create"
      BY <2>2, <2>3 DEF Busy
    <3> HIDE DEF v
    <3>2. Knows(v, cr')
      BY <1>1, <1>2, <1>3, <2>3, <3>1 DEF Knows
    <3>3. QED
      BY <3>1, <3>2 DEF v
  <2>5. QED
    BY <1>1, <1>4, <2>1, <2>2, <2>3, <2>4, ProceedStep
<1>8. QED
  BY <1>5, <1>6, <1>7

LEMMA LateInitInvariant ==
  ASSUME IInv, NEW r \in Replicas, LateInit(r) PROVE IInv'
<1> DEFINE w  == worker[r]
           u  == [w EXCEPT !.seen = w.mem]
           pc == AfterObserve(w.seen.state, w.next)
<1>1. /\ w.pc = "lateInit" /\ w \in Busy /\ w.mem \in CR /\ cr = w.seen /\ cr' = w.mem
      /\ Proceed(r, u, pc) /\ UNCHANGED <<cache, inst, secret, passwords, edits, foreign>>
  BY BusyWorker DEF LateInit, At, IInv
<1>2. /\ w.mem.state = w.seen.state /\ w.mem.tagged = TRUE
      /\ w.next \in IF w.seen.state = "deleting" THEN {"delete"} ELSE {"create", "update", "idle"}
  BY <1>1 DEF IInv, WorkersKnow, Knows
<1>3. /\ pc \in {"finalizer", "update", "delete", "create", "idle"}
      /\ pc = "finalizer" => w.seen.state = "new" /\ w.next \in {"create", "update", "idle"}
      /\ pc = "delete" => w.seen.state = "deleting"
  BY <1>2 DEF AfterObserve
<1> HIDE DEF pc
<1>4. u \in Busy /\ u.mem = w.mem /\ u.seen = w.mem /\ u.next = w.next
  BY <1>1 DEF Busy
<1> HIDE DEF u
<1>5. ASSUME pc # "idle" PROVE [u EXCEPT !.pc = pc] \in Busy /\ Knows([u EXCEPT !.pc = pc], cr')
  <2> DEFINE v == [u EXCEPT !.pc = pc]
  <2>1. v \in Busy /\ v.pc = pc /\ v.mem = w.mem /\ v.seen = w.mem /\ v.next = w.next
    BY <1>3, <1>4, <1>5 DEF Busy
  <2> HIDE DEF v
  <2>2. Knows(v, cr')
    BY <1>1, <1>2, <1>3, <2>1 DEF Knows
  <2>3. QED
    BY <2>1, <2>2 DEF v
<1>6. QED
  BY <1>1, <1>2, <1>3, <1>4, <1>5, ProceedStep

LEMMA AddFinalizerInvariant ==
  ASSUME IInv, NEW r \in Replicas, AddFinalizer(r) PROVE IInv'
<1> DEFINE w  == worker[r]
           u  == [w EXCEPT !.seen = cr', !.mem = cr']
           pc == w.next
<1>1. /\ w.pc = "finalizer" /\ w \in Busy /\ cr = w.seen /\ cr' = [cr EXCEPT !.state = "managed"]
      /\ Proceed(r, u, pc) /\ UNCHANGED <<cache, inst, secret, passwords, edits, foreign>>
  BY BusyWorker DEF AddFinalizer, At, IInv
<1>2. cr.state = "new" /\ cr.tagged = TRUE /\ pc \in {"create", "update", "idle"}
  BY <1>1 DEF IInv, WorkersKnow, Knows
<1>3. cr' \in CR /\ cr'.state = "managed" /\ cr'.tagged = TRUE
  BY <1>1, <1>2 DEF IInv, TypeOK, CR
<1>4. u \in Busy /\ u.mem = cr' /\ u.seen = cr'
  BY <1>1, <1>3 DEF Busy
<1> HIDE DEF u, pc
<1>5. ASSUME pc # "idle" PROVE [u EXCEPT !.pc = pc] \in Busy /\ Knows([u EXCEPT !.pc = pc], cr')
  <2> DEFINE v == [u EXCEPT !.pc = pc]
  <2>1. v \in Busy /\ v.pc = pc /\ v.mem = cr' /\ v.seen = cr'
    BY <1>2, <1>4, <1>5 DEF Busy
  <2> HIDE DEF v
  <2>2. Knows(v, cr')
    BY <1>2, <1>3, <2>1 DEF Knows
  <2>3. QED
    BY <2>1, <2>2 DEF v
<1>6. cr.state \in Ended => cr'.state \in Ended
  BY <1>2 DEF Ended
<1>7. QED
  BY <1>1, <1>2, <1>3, <1>4, <1>5, <1>6, ProceedStep

LEMMA RemoveFinalizerInvariant ==
  ASSUME IInv, NEW r \in Replicas, RemoveFinalizer(r) PROVE IInv'
<1>1. /\ cr' = [cr EXCEPT !.state = "gone"] /\ worker' = [worker EXCEPT ![r] = Idle]
      /\ secret' = 0 /\ UNCHANGED <<cache, inst, passwords, edits, foreign>>
  BY DEF RemoveFinalizer, Done, NoPassword
<1>2. cr' \in CR /\ cr'.state \in Ended
  BY <1>1 DEF IInv, TypeOK, CR, Ended
<1>3. worker' \in [Replicas -> Busy \cup {Idle}] /\ CacheFollows' /\ WorkersKnow'
  BY <1>1, <1>2, IdleKnows, WorkerMoves
<1>4. 0 \in 0..MaxCreates
  BY CloudSqlAssumption
<1>5. TypeOK' /\ InstanceTagged' /\ OnePassword'
  BY <1>1, <1>2, <1>3, <1>4 DEF IInv, TypeOK, InstanceTagged, OnePassword
<1>6. QED
  BY <1>3, <1>5 DEF IInv

LEMMA CreateInvariant ==
  ASSUME IInv, NEW r \in Replicas, Create(r) PROVE IInv'
<1>1. /\ worker[r].pc = "create" /\ worker[r] \in Busy /\ worker[r].mem \in CR
      /\ worker[r].mem.param \in Opt /\ passwords < MaxCreates
      /\ UNCHANGED <<cr, cache, secret, edits, foreign>>
  BY BusyWorker DEF Create, At, IInv
<1>2. CASE inst.state # "NONE"
  <2>1. worker' = [worker EXCEPT ![r] = Idle] /\ Idle.pc # "publish" /\ cr' \in CR
        /\ UNCHANGED <<inst, passwords>>
    BY <1>1, <1>2 DEF Create, Done, Idle, IInv, TypeOK
  <2>2. QED
    BY <1>1, <2>1, IdleKnows, QuietStep
<1>3. CASE inst.state = "NONE"
  <2> DEFINE w == [worker[r] EXCEPT !.pc = "publish", !.password = passwords + 1]
             new == Inserted(worker[r].mem, passwords + 1)
  <2>1. worker' = [worker EXCEPT ![r] = w] /\ inst' = new /\ passwords' = passwords + 1
    BY <1>3 DEF Create
  <2>2. passwords + 1 \in 0..MaxCreates /\ passwords + 1 # 0
    BY <1>1, Numbers DEF IInv
  <2>3. w \in Busy /\ w.pc = "publish" /\ w.password = passwords + 1
        /\ w.seen = worker[r].seen /\ w.mem = worker[r].mem
    BY <1>1, <2>2 DEF Busy
  <2> HIDE DEF w
  <2>4. Knows(worker[r], cr)
    BY DEF IInv, WorkersKnow
  <2>5. Knows(w, cr')
    BY <1>1, <2>3, <2>4 DEF Knows
  <2>6. /\ worker' \in [Replicas -> Busy \cup {Idle}] /\ CacheFollows' /\ WorkersKnow'
        /\ \A q \in Replicas : worker'[q] = IF q = r THEN w ELSE worker[q]
    BY <1>1, <2>1, <2>3, <2>5, WorkerMoves
  <2>7. new \in Instance /\ new.state # "NONE" /\ new.tagged = TRUE /\ new.password = passwords + 1
    <3>1. worker[r].mem.tagged = TRUE
      BY <1>1, <2>4 DEF Knows
    <3>2. GenerateDatabaseInstance(worker[r].mem.param, Default) \in Opt
      BY <1>1 DEF GenerateDatabaseInstance, Opt
    <3>3. QED
      BY <2>2, <3>1, <3>2 DEF Inserted, Instance, State
  <2> HIDE DEF new
  <2>8. TypeOK' /\ InstanceTagged'
    BY <1>1, <2>1, <2>2, <2>6, <2>7 DEF IInv, TypeOK, InstanceTagged
  <2>9. OnePassword'
    BY <1>1, <1>3, <2>1, <2>2, <2>3, <2>6, <2>7 DEF IInv, OnePassword, NoPassword
  <2>10. QED
    BY <2>6, <2>8, <2>9 DEF IInv
<1>4. QED
  BY <1>2, <1>3

LEMMA PublishConnectionInvariant ==
  ASSUME IInv, NEW r \in Replicas, PublishConnection(r) PROVE IInv'
<1>1. /\ worker[r].pc = "publish" /\ worker[r] \in Busy /\ secret' = worker[r].password
      /\ worker' = [worker EXCEPT ![r] = Idle]
      /\ UNCHANGED <<cr, cache, inst, passwords, edits, foreign>>
  BY BusyWorker DEF PublishConnection, At, Done, IInv
<1>2. /\ worker' \in [Replicas -> Busy \cup {Idle}] /\ CacheFollows' /\ WorkersKnow'
      /\ \A q \in Replicas : worker'[q] = IF q = r THEN Idle ELSE worker[q]
  BY <1>1, IdleKnows, WorkerMoves
<1>3. secret' \in 0..MaxCreates
  BY <1>1 DEF Busy
<1>4. TypeOK' /\ InstanceTagged'
  BY <1>1, <1>2, <1>3 DEF IInv, TypeOK, InstanceTagged
<1>5. OnePassword'
  BY <1>1, <1>2 DEF IInv, OnePassword, Idle
<1>6. QED
  BY <1>2, <1>4, <1>5 DEF IInv

LEMMA UpdateInvariant ==
  ASSUME IInv, NEW r \in Replicas, Update(r) PROVE IInv'
<1>1. /\ worker[r].pc = "update" /\ worker[r] \in Busy /\ worker[r].mem.param \in Opt
      /\ worker' = [worker EXCEPT ![r] = Idle]
      /\ UNCHANGED <<cr, cache, secret, passwords, edits, foreign>>
  BY BusyWorker DEF Update, At, Done, IInv
<1>2. /\ worker' \in [Replicas -> Busy \cup {Idle}] /\ CacheFollows' /\ WorkersKnow'
      /\ \A q \in Replicas : worker'[q] = IF q = r THEN Idle ELSE worker[q]
  BY <1>1, IdleKnows, WorkerMoves
<1>3. worker[r].mem.tagged = TRUE
  BY <1>1 DEF IInv, WorkersKnow, Knows
<1>4. /\ inst' \in Instance /\ inst'.state = inst.state /\ inst'.password = inst.password
      /\ inst'.tagged \in {TRUE, inst.tagged}
  <2>1. CASE inst' = inst
    BY <2>1 DEF IInv, TypeOK
  <2>2. CASE inst' = [inst EXCEPT !.param = GenerateDatabaseInstance(worker[r].mem.param, @),
                                  !.tagged = worker[r].mem.tagged]
    BY <1>1, <1>3, <2>2 DEF IInv, TypeOK, Instance, GenerateDatabaseInstance
  <2>3. QED
    BY <2>1, <2>2 DEF Update
<1>5. TypeOK' /\ InstanceTagged'
  BY <1>1, <1>2, <1>4 DEF IInv, TypeOK, InstanceTagged
<1>6. OnePassword'
  BY <1>1, <1>2, <1>4 DEF IInv, OnePassword, Idle
<1>7. QED
  BY <1>2, <1>5, <1>6 DEF IInv

\* Whoever deletes has seen the deletion, which nobody takes back.
LEMMA DeleteInvariant ==
  ASSUME IInv, NEW r \in Replicas, Delete(r) PROVE IInv'
<1>1. /\ worker[r].pc = "delete" /\ worker' = [worker EXCEPT ![r] = Idle]
      /\ inst' \in {inst, NoInstance} /\ UNCHANGED <<cr, cache, secret, passwords, edits, foreign>>
  BY DEF Delete, At, Done
<1>2. cr.state \in Ended
  BY <1>1 DEF IInv, WorkersKnow, Knows, Ended
<1>3. worker' \in [Replicas -> Busy \cup {Idle}] /\ CacheFollows' /\ WorkersKnow'
  BY <1>1, IdleKnows, WorkerMoves
<1>4. NoInstance \in Instance /\ NoInstance.state = "NONE"
  BY CloudSqlAssumption DEF NoInstance, Instance, State, Opt, NoPassword
<1>5. TypeOK' /\ InstanceTagged' /\ OnePassword'
  BY <1>1, <1>2, <1>3, <1>4 DEF IInv, TypeOK, InstanceTagged, OnePassword
<1>6. QED
  BY <1>3, <1>5 DEF IInv

LEMMA InvariantStep ==
  ASSUME IInv, [Next]_vars PROVE IInv'
<1>1. CASE UNCHANGED vars
  BY <1>1 DEF vars, IInv, TypeOK, CacheFollows, WorkersKnow, Knows, InstanceTagged, OnePassword
<1>2. ASSUME NEW r \in Replicas, Sync(r) \/ Begin(r) \/ Fail(r) \/ WorkerStep(r) PROVE IInv'
  BY <1>2, SyncInvariant, BeginInvariant, FailInvariant, InitializeInvariant, ObserveInvariant,
     LateInitInvariant, AddFinalizerInvariant, RemoveFinalizerInvariant, CreateInvariant,
     PublishConnectionInvariant, UpdateInvariant, DeleteInvariant DEF WorkerStep
<1>3. QED
  BY <1>1, <1>2, EditSpecInvariant, DeleteCRInvariant, FinishCreationInvariant, ForeignDeleteInvariant
     DEF Next

LEMMA Invariance == Spec => []IInv
<1>1. Init => IInv
  BY InitialInvariant
<1>2. IInv /\ [Next]_vars => IInv'
  BY InvariantStep
<1>3. QED
  BY <1>1, <1>2, PTL DEF Spec

-----------------------------------------------------------------------------
(* The theorems.                                                           *)

\* The object, its copies, the workers and the instance are well formed,
\* whatever Observe, Create, Update and Delete make of them.
THEOREM TypeCorrect == Spec => []TypeOK
<1>1. IInv => TypeOK
  BY DEF IInv
<1>2. QED
  BY <1>1, Invariance, PTL

\* However many replicas run cloudsqlTagger, Create and Update, and however
\* often the user edits the tags out: every instance has the external tags.
THEOREM InstancesTagged == Spec => []EveryInstanceTagged
<1>1. IInv => EveryInstanceTagged
  BY DEF IInv, InstanceTagged, EveryInstanceTagged
<1>2. QED
  BY <1>1, Invariance, PTL

\* However many replicas call Create and publish its password, and however
\* late: the secret has the password of the instance, or none.
THEOREM PasswordWorks == Spec => []PublishedPasswordWorks
<1>1. IInv => PublishedPasswordWorks
  BY DEF IInv, OnePassword, Ended, PublishedPasswordWorks
<1>2. QED
  BY <1>1, Invariance, PTL

-----------------------------------------------------------------------------
(* One replica at work.                                                    *)

\* The cache is behind the object by what it may be, an instance has an object
\* that holds it, and the worker is where it is for a reason that still holds.
Holds(state) == state \in {"managed", "deleting"}
Follows(cached, object) ==
  /\ object = "new" => cached = "new"
  /\ object = "managed" => cached \in {"new", "managed"}
  /\ object = "deleting" => cached \in {"new", "managed", "deleting"}
  /\ object = "gone" => cached \in {"new", "deleting", "gone"}

Justified(w, cached) ==
  w.pc # "idle" =>
    /\ w.seen.state \in {"new", "managed", "deleting"}
    /\ w.seen.state = "managed" => Holds(cr.state)
    /\ w.seen.state = "deleting" => {cr.state, cached} \subseteq {"deleting", "gone"}
    /\ w.pc = "create" => w.seen.state = "managed"
    /\ w.pc = "unfinalize" => w.seen.state = "deleting" /\ inst.state = "NONE"

HeldInv(r) ==
  /\ Follows(cache[r].state, cr.state)
  /\ inst.state # "NONE" => Holds(cr.state)
  /\ Justified(worker[r], cache[r].state)

\* The worker ends its reconcile.
LEMMA EndsHeld ==
  ASSUME IInv, NEW r \in Replicas, HeldInv(r), worker' = [worker EXCEPT ![r] = Idle], cache' = cache,
         cr'.state = cr.state, inst'.state # "NONE" => inst.state # "NONE"
  PROVE  HeldInv(r)'
<1>1. worker'[r] = Idle
  BY DEF IInv, TypeOK
<1>2. Justified(worker[r], cache[r].state)'
  BY <1>1 DEF Justified, Idle
<1>3. QED
  BY <1>2 DEF HeldInv

\* The worker goes on, with the object as it is or as it has just stored it.
LEMMA GoesOnHeld ==
  ASSUME IInv, NEW r \in Replicas, worker[r].pc # "idle", HeldInv(r), NEW w \in Busy,
         worker' = [worker EXCEPT ![r] = w], cache' = cache, inst' = inst,
         cr'.state = cr.state, w.seen.state = worker[r].seen.state,
         w.pc = "create" => w.seen.state = "managed",
         w.pc = "unfinalize" => w.seen.state = "deleting" /\ inst.state = "NONE"
  PROVE  HeldInv(r)'
<1>1. worker'[r] = w
  BY DEF IInv, TypeOK
<1>2. Justified(worker[r], cache[r].state)
  BY DEF HeldInv
<1>3. Justified(worker[r], cache[r].state)'
  BY <1>1, <1>2 DEF Justified
<1>4. QED
  BY <1>3 DEF HeldInv

\* A step of the user, the watch or the service.
LEMMA AroundHeld ==
  ASSUME IInv, NEW r \in Replicas, HeldInv(r),
         EditSpec \/ DeleteCR \/ FinishCreation \/ ForeignDelete \/ \E q \in Replicas : Sync(q)
  PROVE  HeldInv(r)'
<1>0. /\ cr \in CR /\ cr.state \in {"new", "managed", "deleting", "gone"} /\ inst \in Instance
      /\ cache \in [Replicas -> CR] /\ Justified(worker[r], cache[r].state)
  BY DEF IInv, TypeOK, CR, HeldInv
<1>1. CASE EditSpec \/ DeleteCR
  <2>1. /\ UNCHANGED <<cache, worker, inst>>
        /\ \/ cr'.state = cr.state
           \/ cr.state = "new" /\ cr'.state = "gone"
           \/ cr.state = "managed" /\ cr'.state = "deleting"
    BY <1>0, <1>1 DEF EditSpec, DeleteCR, CR
  <2>2. Justified(worker[r], cache[r].state)'
    BY <1>0, <2>1 DEF Justified, Holds
  <2>3. QED
    BY <2>1, <2>2 DEF HeldInv, Follows, Holds
<1>2. CASE FinishCreation \/ ForeignDelete
  <2>1. UNCHANGED <<cr, cache, worker>> /\ inst.state # "NONE" /\ inst'.state \in {"NONE", "RUNNABLE"}
    BY <1>0, <1>2 DEF FinishCreation, ForeignDelete, NoInstance, Instance
  <2>2. Justified(worker[r], cache[r].state)'
    BY <1>0, <2>1 DEF Justified
  <2>3. QED
    BY <2>1, <2>2 DEF HeldInv
<1>3. ASSUME NEW q \in Replicas, Sync(q) PROVE HeldInv(r)'
  <2>1. UNCHANGED <<cr, worker, inst>> /\ cache'[r] \in {cr, cache[r]}
    BY <1>0, <1>3 DEF Sync
  <2>2. Follows(cache[r].state, cr.state)'
    BY <1>0, <2>1 DEF HeldInv, Follows
  <2>3. Justified(worker[r], cache[r].state)'
    BY <1>0, <2>1 DEF Justified
  <2>4. QED
    BY <2>1, <2>2, <2>3 DEF HeldInv
<1>4. QED
  BY <1>1, <1>2, <1>3

LEMMA BeginHeld ==
  ASSUME IInv, NEW r \in Replicas, HeldInv(r), Begin(r) PROVE HeldInv(r)'
<1>1. /\ worker'[r].pc = "init" /\ worker'[r].seen = cache[r] /\ cache[r].state # "gone"
      /\ UNCHANGED <<cr, cache, inst>>
  BY DEF Begin, IInv, TypeOK
<1>2. cache[r].state \in {"new", "managed", "deleting", "gone"}
      /\ cr.state \in {"new", "managed", "deleting", "gone"}
  BY DEF IInv, TypeOK, CR
<1>3. Justified(worker[r], cache[r].state)'
  BY <1>1, <1>2 DEF Justified, HeldInv, Follows, Holds
<1>4. QED
  BY <1>1, <1>3 DEF HeldInv

\* Where Proceed takes the worker.
LEMMA ProceedHeld ==
  ASSUME IInv, NEW r \in Replicas, worker[r].pc # "idle", HeldInv(r), NEW w \in Busy,
         NEW pc \in {"lateInit", "finalizer", "create", "update", "delete", "idle"},
         Proceed(r, w, pc), cache' = cache, inst' = inst,
         cr'.state = cr.state, w.seen.state = worker[r].seen.state,
         pc = "create" => w.seen.state = "managed"
  PROVE  HeldInv(r)'
<1>1. CASE pc = "idle"
  BY <1>1, EndsHeld DEF Proceed
<1>2. CASE pc # "idle"
  <2> DEFINE v == [w EXCEPT !.pc = pc]
  <2>1. worker' = [worker EXCEPT ![r] = v] /\ v \in Busy /\ v.pc = pc /\ v.seen = w.seen
    BY <1>2 DEF Proceed, Busy
  <2> HIDE DEF v
  <2>2. QED
    BY <2>1, GoesOnHeld
<1>3. QED
  BY <1>1, <1>2

LEMMA ObserveHeld ==
  ASSUME IInv, NEW r \in Replicas, HeldInv(r), Observe(r) PROVE HeldInv(r)'
<1> DEFINE w     == worker[r]
           state == w.seen.state
           mem   == [w.mem EXCEPT !.param = LateInitializeSpec(@, inst.param)]
           next  == IF state = "deleting" THEN "delete"
                    ELSE IF IsUpToDate(mem, inst) THEN "idle" ELSE "update"
           seen  == [w EXCEPT !.mem = mem, !.observed = GenerateObservation(inst), !.next = next]
<1>1. /\ w.pc = "observe" /\ w.pc # "idle" /\ w \in Busy /\ w.mem \in CR
      /\ UNCHANGED <<cr, cache, inst>>
  BY BusyWorker DEF Observe, At, IInv
<1>2. state \in {"new", "managed", "deleting"}
  BY <1>1 DEF HeldInv, Justified
<1>3. CASE Exists(inst)
  <2> DEFINE pc == IF mem # w.mem THEN "lateInit" ELSE AfterObserve(state, next)
  <2>1. Proceed(r, seen, pc)
    BY <1>3 DEF Observe
  <2>2. mem \in CR
    BY <1>1 DEF IInv, TypeOK, Instance, CR, LateInitializeSpec
  <2> HIDE DEF mem
  <2>3. next \in {"delete", "update", "idle"}
    OBVIOUS
  <2> HIDE DEF next
  <2>4. seen \in Busy /\ seen.seen = w.seen
    BY <1>1, <2>2, <2>3 DEF Busy, IInv, TypeOK, Instance, GenerateObservation
  <2> HIDE DEF seen
  <2>5. pc \in {"lateInit", "finalizer", "update", "delete", "idle"}
    BY <2>3 DEF AfterObserve
  <2> HIDE DEF pc
  <2>6. QED
    BY <1>1, <2>1, <2>4, <2>5, ProceedHeld
<1>4. CASE ~Exists(inst) /\ state = "deleting"
  <2> DEFINE v == [w EXCEPT !.pc = "unfinalize"]
  <2>1. worker' = [worker EXCEPT ![r] = v]
    BY <1>4 DEF Observe, Goto
  <2>2. v \in Busy /\ v.pc = "unfinalize" /\ v.seen = w.seen
    BY <1>1 DEF Busy
  <2> HIDE DEF v
  <2>3. inst.state = "NONE"
    BY <1>4 DEF Exists
  <2>4. QED
    BY <1>1, <1>4, <2>1, <2>2, <2>3, GoesOnHeld
<1>5. CASE ~Exists(inst) /\ state # "deleting"
  <2> DEFINE u  == [w EXCEPT !.next = "create"]
             pc == AfterObserve(state, "create")
  <2>1. Proceed(r, u, pc)
    BY <1>5 DEF Observe
  <2>2. u \in Busy /\ u.seen = w.seen
    BY <1>1 DEF Busy
  <2> HIDE DEF u
  <2>3. pc \in {"finalizer", "create"} /\ (pc = "create" => state = "managed")
    BY <1>2, <1>5 DEF AfterObserve
  <2> HIDE DEF pc
  <2>4. QED
    BY <1>1, <2>1, <2>2, <2>3, ProceedHeld
<1>6. QED
  BY <1>3, <1>4, <1>5

LEMMA StoreHeld ==
  ASSUME IInv, NEW r \in Replicas, HeldInv(r), Initialize(r) \/ LateInit(r)
  PROVE  HeldInv(r)' /\ cr'.state = cr.state
<1> DEFINE w == worker[r]
<1>1. w.pc # "idle" /\ w \in Busy /\ w.mem \in CR /\ cr = w.seen /\ UNCHANGED <<cache, inst>>
  BY BusyWorker DEF Initialize, LateInit, UpdateObject, At, IInv
<1>2. CASE Initialize(r)
  <2> DEFINE new == [cr EXCEPT !.tagged = TRUE]
             v == [w EXCEPT !.pc = "observe", !.seen = new, !.mem = new]
  <2>1. cr' = new /\ worker' = [worker EXCEPT ![r] = v]
    BY <1>2 DEF Initialize, UpdateObject
  <2>2. new \in CR /\ new.state = cr.state
    BY DEF IInv, TypeOK, CR
  <2> HIDE DEF new
  <2>3. v \in Busy /\ v.pc = "observe" /\ v.seen = new
    BY <1>1, <2>2 DEF Busy
  <2> HIDE DEF v
  <2>4. QED
    BY <1>1, <2>1, <2>2, <2>3, GoesOnHeld
<1>3. CASE LateInit(r)
  <2> DEFINE u  == [w EXCEPT !.seen = w.mem]
             pc == AfterObserve(w.seen.state, w.next)
  <2>1. w.pc = "lateInit" /\ cr' = w.mem /\ Proceed(r, u, pc)
    BY <1>3 DEF LateInit, At
  <2>2. /\ w.mem.state = w.seen.state
        /\ w.next \in IF w.seen.state = "deleting" THEN {"delete"} ELSE {"create", "update", "idle"}
    BY <1>1, <2>1 DEF IInv, WorkersKnow, Knows
  <2>3. w.seen.state \in {"new", "managed", "deleting"}
    BY <1>1 DEF HeldInv, Justified
  <2>4. /\ pc \in {"finalizer", "update", "delete", "create", "idle"}
        /\ pc = "create" => w.seen.state = "managed"
    BY <2>2, <2>3 DEF AfterObserve
  <2> HIDE DEF pc
  <2>5. u \in Busy /\ u.seen = w.mem
    BY <1>1 DEF Busy
  <2> HIDE DEF u
  <2>6. QED
    BY <1>1, <2>1, <2>2, <2>4, <2>5, ProceedHeld
<1>4. QED
  BY <1>2, <1>3

\* The finalizer goes on an object that is held from then on.
LEMMA AddFinalizerHeld ==
  ASSUME IInv, NEW r \in Replicas, HeldInv(r), AddFinalizer(r)
  PROVE  HeldInv(r)' /\ cr.state = "new" /\ cr'.state = "managed"
<1> DEFINE w == worker[r]
           v == [w EXCEPT !.pc = w.next, !.seen = cr', !.mem = cr']
<1>1. w.pc = "finalizer" /\ w \in Busy /\ cr = w.seen /\ UNCHANGED <<cache, inst>>
  BY BusyWorker DEF AddFinalizer, At, IInv
<1>2. cr.state = "new" /\ cr' \in CR /\ cr'.state = "managed"
  BY <1>1 DEF AddFinalizer, IInv, TypeOK, CR, WorkersKnow, Knows
<1>3. inst.state = "NONE" /\ cache[r].state = "new"
  BY <1>2 DEF HeldInv, Follows, Holds
<1>4. worker'[r] = IF w.next = "idle" THEN Idle ELSE v
  BY <1>1 DEF AddFinalizer, Proceed, IInv, TypeOK, Busy
<1>5. v.seen = cr' /\ v.pc = w.next /\ w.next \in {"create", "update", "delete", "idle"}
  BY <1>1 DEF Busy
<1> HIDE DEF v
<1>6. Justified(worker[r], cache[r].state)'
  BY <1>2, <1>4, <1>5 DEF Justified, Holds, Idle
<1>7. QED
  BY <1>1, <1>2, <1>3, <1>6 DEF HeldInv, Follows

\* It comes off an object whose instance is gone, and stays gone: only this
\* worker could make another.
LEMMA RemoveFinalizerHeld ==
  ASSUME IInv, NEW r \in Replicas, HeldInv(r), RemoveFinalizer(r)
  PROVE  HeldInv(r)' /\ cr.state = "deleting" /\ cr'.state = "gone" /\ inst.state = "NONE"
<1>1. worker[r].pc = "unfinalize" /\ cr = worker[r].seen /\ UNCHANGED <<cache, inst>>
  BY DEF RemoveFinalizer, At
<1>2. cr.state = "deleting" /\ inst.state = "NONE" /\ cache[r].state \in {"deleting", "gone"}
  BY <1>1 DEF HeldInv, Justified
<1>3. cr'.state = "gone"
  BY DEF RemoveFinalizer, IInv, TypeOK, CR
<1>4. worker'[r] = Idle
  BY DEF RemoveFinalizer, Done, IInv, TypeOK
<1>5. Justified(worker[r], cache[r].state)'
  BY <1>4 DEF Justified, Idle
<1>6. QED
  BY <1>1, <1>2, <1>3, <1>5 DEF HeldInv, Follows

\* Create makes an instance only for an object that is held.
LEMMA CreateHeld ==
  ASSUME IInv, NEW r \in Replicas, HeldInv(r), Create(r)
  PROVE  /\ HeldInv(r)' /\ Holds(cr.state) /\ UNCHANGED <<cr, foreign>>
         /\ inst'.state = inst.state \/ (inst.state = "NONE" /\ inst'.state # "NONE")
<1> DEFINE w == worker[r]
<1>1. w.pc = "create" /\ w \in Busy /\ UNCHANGED <<cr, cache, foreign>>
  BY BusyWorker DEF Create, At, IInv
<1>2. w.seen.state = "managed" /\ Holds(cr.state)
  BY <1>1 DEF HeldInv, Justified
<1>3. CASE inst.state # "NONE"
  <2>1. inst' = inst /\ worker' = [worker EXCEPT ![r] = Idle]
    BY <1>3 DEF Create, Done
  <2>2. QED
    BY <1>1, <1>2, <2>1, EndsHeld
<1>4. CASE inst.state = "NONE"
  <2>1. inst'.state = "PENDING_CREATE"
    BY <1>4 DEF Create, Inserted
  <2>2. worker'[r].pc = "publish" /\ worker'[r].seen = w.seen
    BY <1>1, <1>4 DEF Create, IInv, TypeOK, Busy
  <2>3. Justified(worker[r], cache[r].state)'
    BY <1>1, <1>2, <2>2 DEF Justified
  <2>4. QED
    BY <1>1, <1>2, <1>4, <2>1, <2>3 DEF HeldInv
<1>5. QED
  BY <1>3, <1>4

\* The reconciles that end without a new instance.
LEMMA EndHeld ==
  ASSUME IInv, NEW r \in Replicas, HeldInv(r),
         Fail(r) \/ PublishConnection(r) \/ Update(r) \/ Delete(r)
  PROVE  /\ HeldInv(r)' /\ UNCHANGED <<cr, foreign>>
         /\ \/ inst'.state = inst.state
            \/ cr.state = "deleting" /\ inst.state # "NONE" /\ inst'.state = "NONE"
<1>1. worker' = [worker EXCEPT ![r] = Idle] /\ UNCHANGED <<cr, cache, foreign>>
  BY DEF Fail, PublishConnection, Update, Delete, Done
<1>2. CASE Fail(r) \/ PublishConnection(r) \/ Update(r)
  <2>1. inst'.state = inst.state
    BY <1>2 DEF Fail, PublishConnection, Update, IInv, TypeOK, Instance
  <2>2. QED
    BY <1>1, <2>1, EndsHeld
<1>3. CASE Delete(r)
  <2>1. \/ inst' = inst
        \/ inst.state = "RUNNABLE" /\ inst'.state = "NONE"
    BY <1>3 DEF Delete, NoInstance
  <2>2. worker[r].pc = "delete" /\ worker[r].seen.state = "deleting"
    BY <1>3 DEF Delete, At, IInv, WorkersKnow, Knows
  <2>3. inst.state # "NONE" => cr.state = "deleting"
    BY <2>2 DEF HeldInv, Justified, Holds
  <2>4. HeldInv(r)'
    BY <1>1, <2>1, EndsHeld
  <2>5. QED
    BY <1>1, <2>1, <2>3, <2>4
<1>4. QED
  BY <1>2, <1>3

\* The others only hear from the watch.
LEMMA OthersIdle ==
  ASSUME IInv, NEW r \in Replicas, Sole(r), Sole(r)', NEW q \in Replicas \ {r},
         Begin(q) \/ Fail(q) \/ WorkerStep(q)
  PROVE  FALSE
<1>1. worker[q].pc = "idle" /\ worker'[q].pc = "idle"
  BY DEF Sole, At
<1>2. Begin(q)
  BY <1>1 DEF Fail, WorkerStep, Initialize, Observe, LateInit, AddFinalizer, RemoveFinalizer, Create,
              PublishConnection, Update, Delete, At
<1>3. worker'[q].pc = "init"
  BY <1>2 DEF Begin, IInv, TypeOK
<1>4. QED
  BY <1>1, <1>3

\* What the controller promises of the object and its instance.
Promise == INSTANCE ManagedLifecycle
             WITH object <- cr.state, exists <- (inst.state # "NONE"), kept <- FALSE, others <- foreign

LEMMA Stutters ==
  ASSUME UNCHANGED foreign, cr'.state = cr.state, inst'.state = inst.state
  PROVE  UNCHANGED Promise!lifecycle
  BY DEF Promise!lifecycle

\* A step of one replica that works alone, or around it.
LEMMA AloneStep ==
  ASSUME IInv, NEW r \in Replicas, HeldInv(r), Sole(r), Sole(r)', [Next]_vars
  PROVE  HeldInv(r)' /\ [Promise!Next]_(Promise!lifecycle)
<1> USE DEF Promise!Next
<1>0. cr \in CR /\ inst \in Instance
  BY DEF IInv, TypeOK
<1>1. CASE UNCHANGED vars
  <2>1. HeldInv(r)'
    BY <1>1 DEF vars, HeldInv, Justified
  <2>2. QED
    BY <1>1, <2>1, Stutters DEF vars
<1>2. CASE EditSpec
  <2>1. cr'.state = cr.state
    BY <1>0, <1>2 DEF EditSpec, CR
  <2>2. QED
    BY <1>2, <2>1, AroundHeld, Stutters DEF EditSpec
<1>3. CASE DeleteCR
  <2>1. cr.state \in {"new", "managed"} /\ cr'.state = IF cr.state = "new" THEN "gone" ELSE "deleting"
    BY <1>0, <1>3 DEF DeleteCR, CR
  <2>2. Promise!GiveUp
    BY <1>3, <2>1 DEF Promise!GiveUp, DeleteCR
  <2>3. QED
    BY <1>3, <2>2, AroundHeld
<1>4. CASE FinishCreation
  <2>1. (inst'.state # "NONE") = (inst.state # "NONE") /\ UNCHANGED <<cr, foreign>>
    BY <1>0, <1>4 DEF FinishCreation, Instance
  <2>2. UNCHANGED Promise!lifecycle
    BY <2>1 DEF Promise!lifecycle
  <2>3. QED
    BY <1>4, <2>2, AroundHeld
<1>5. CASE ForeignDelete
  <2>1. foreign' # foreign /\ inst'.state = "NONE" /\ UNCHANGED cr
    BY <1>5 DEF ForeignDelete, NoInstance, IInv, TypeOK
  <2>2. Promise!OthersAct
    BY <2>1 DEF Promise!OthersAct
  <2>3. QED
    BY <1>5, <2>2, AroundHeld
<1>6. ASSUME NEW q \in Replicas, Sync(q) PROVE HeldInv(r)' /\ [Promise!Next]_(Promise!lifecycle)
  <2>1. HeldInv(r)'
    BY <1>6, AroundHeld
  <2>2. QED
    BY <1>6, <2>1, Stutters DEF Sync
<1>7. CASE Begin(r) \/ Observe(r)
  <2>1. HeldInv(r)'
    BY <1>7, BeginHeld, ObserveHeld
  <2>2. QED
    BY <1>7, <2>1, Stutters DEF Begin, Observe
<1>8. CASE Initialize(r) \/ LateInit(r)
  <2>1. HeldInv(r)' /\ cr'.state = cr.state
    BY <1>8, StoreHeld
  <2>2. QED
    BY <1>8, <2>1, Stutters DEF Initialize, LateInit
<1>9. CASE AddFinalizer(r)
  <2>1. HeldInv(r)' /\ cr.state = "new" /\ cr'.state = "managed"
    BY <1>9, AddFinalizerHeld
  <2>2. Promise!Hold
    BY <1>9, <2>1 DEF Promise!Hold, AddFinalizer
  <2>3. QED
    BY <2>1, <2>2
<1>10. CASE RemoveFinalizer(r)
  <2>1. HeldInv(r)' /\ cr.state = "deleting" /\ cr'.state = "gone" /\ inst.state = "NONE"
    BY <1>10, RemoveFinalizerHeld
  <2>2. Promise!Release
    BY <1>10, <2>1 DEF Promise!Release, RemoveFinalizer
  <2>3. QED
    BY <2>1, <2>2
<1>11. CASE Create(r)
  <2>1. /\ HeldInv(r)' /\ Holds(cr.state) /\ UNCHANGED <<cr, foreign>>
        /\ inst'.state = inst.state \/ (inst.state = "NONE" /\ inst'.state # "NONE")
    BY <1>11, CreateHeld
  <2>2. Promise!Provision \/ UNCHANGED Promise!lifecycle
    BY <2>1 DEF Promise!Provision, Promise!lifecycle, Holds
  <2>3. QED
    BY <2>1, <2>2
<1>12. CASE Fail(r) \/ PublishConnection(r) \/ Update(r) \/ Delete(r)
  <2>1. /\ HeldInv(r)' /\ UNCHANGED <<cr, foreign>>
        /\ \/ inst'.state = inst.state
           \/ cr.state = "deleting" /\ inst.state # "NONE" /\ inst'.state = "NONE"
    BY <1>12, EndHeld
  <2>2. Promise!Remove \/ UNCHANGED Promise!lifecycle
    BY <2>1 DEF Promise!Remove, Promise!lifecycle
  <2>3. QED
    BY <2>1, <2>2
<1>13. ASSUME NEW q \in Replicas, Begin(q) \/ Fail(q) \/ WorkerStep(q)
       PROVE  HeldInv(r)' /\ [Promise!Next]_(Promise!lifecycle)
  <2>1. q = r
    BY <1>13, OthersIdle
  <2>2. QED
    BY <1>7, <1>8, <1>9, <1>10, <1>11, <1>12, <1>13, <2>1 DEF WorkerStep
<1>14. QED
  BY <1>1, <1>2, <1>3, <1>4, <1>5, <1>6, <1>13 DEF Next

LEMMA InitiallyHeld ==
  ASSUME Init, NEW r \in Replicas PROVE HeldInv(r) /\ Promise!Init
<1>1. cr.state = "new" /\ cache[r] = cr /\ worker[r].pc = "idle" /\ inst.state = "NONE"
  BY DEF Init, Idle, NoInstance
<1>2. QED
  BY <1>1 DEF HeldInv, Follows, Justified, Promise!Init

LEMMA HeldInvariance ==
  ASSUME NEW r \in Replicas PROVE Spec /\ []Sole(r) => []HeldInv(r)
<1>1. Init => HeldInv(r)
  BY InitiallyHeld
<1>2. IInv /\ Sole(r) /\ Sole(r)' /\ HeldInv(r) /\ [Next]_vars => HeldInv(r)'
  BY AloneStep
<1>3. QED
  BY <1>1, <1>2, Invariance, PTL DEF Spec

\* One replica that works alone leaves no instance without its object, however
\* stale what it reads, whatever fails and whoever else deletes the instance.
THEOREM NoInstanceOrphaned == Spec => NoOrphan
<1>1. ASSUME NEW r \in Replicas PROVE Spec => ([]Sole(r) => []~Orphan)
  <2>1. HeldInv(r) => ~Orphan
    BY DEF HeldInv, Orphan, Holds
  <2>2. QED
    BY <2>1, HeldInvariance, PTL
<1>2. QED
  BY <1>1 DEF NoOrphan

\* The same replica implements ManagedLifecycle: it takes the instance away only
\* once the object is deleted, and lets the object go only when it has.
THEOREM Implementation ==
  ASSUME NEW r \in Replicas PROVE Spec /\ []Sole(r) => Promise!Spec
<1>1. Init => Promise!Init
  BY InitiallyHeld
<1>2. IInv /\ Sole(r) /\ Sole(r)' /\ HeldInv(r) /\ [Next]_vars => [Promise!Next]_(Promise!lifecycle)
  BY AloneStep
<1>3. QED
  BY <1>1, <1>2, HeldInvariance, Invariance, PTL DEF Spec, Promise!Spec
=============================================================================
