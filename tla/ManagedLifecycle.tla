-------------------------- MODULE ManagedLifecycle --------------------------
(***************************************************************************)
(* What every controller promises of an object and its external resource,  *)
(* whatever the kind: the resource is there only while the object is held  *)
(* by its finalizer, the provider takes it away only when the object is    *)
(* deleted, and lets the object go only when it has.  Managed and          *)
(* GkeCluster implement it, and so does one replica of CloudSql.           *)
(***************************************************************************)
VARIABLES
  object,  \* "new" without the finalizer, "managed" with it, "deleting", "gone"
  exists,  \* is there a resource
  kept,    \* can the resource not be deleted at all
  others   \* a count that changes when somebody other than the provider acts

lifecycle == <<object, exists, kept, others>>

Init == object = "new" /\ exists = FALSE /\ kept \in BOOLEAN

\* The provider holds the object; the user gives it up.
Hold ==
  /\ object = "new" /\ object' = "managed"
  /\ UNCHANGED <<exists, kept, others>>
GiveUp ==
  /\ object \in {"new", "managed"}
  /\ object' = IF object = "new" THEN "gone" ELSE "deleting"
  /\ UNCHANGED <<exists, kept, others>>

\* The resource is made, perhaps after the user gave the object up.
Provision ==
  /\ object \in {"managed", "deleting"}
  /\ ~exists /\ exists' = TRUE
  /\ UNCHANGED <<object, kept, others>>

Remove ==
  /\ object = "deleting" /\ ~kept
  /\ exists /\ exists' = FALSE
  /\ UNCHANGED <<object, kept, others>>

Release ==
  /\ object = "deleting" /\ (~exists \/ kept)
  /\ object' = "gone"
  /\ UNCHANGED <<exists, kept, others>>

\* Users and others never make the resource for the provider.
OthersAct ==
  /\ others' # others
  /\ exists' \in {exists, FALSE}
  /\ UNCHANGED <<object, kept>>

Next == Hold \/ GiveUp \/ Provision \/ Remove \/ Release \/ OthersAct

Spec == Init /\ [][Next]_lifecycle

\* No resource is there without an object that holds it.
NothingLeftBehind == exists /\ ~kept => object \in {"managed", "deleting"}
=============================================================================
