---------------------------- MODULE Controllers ----------------------------
(***************************************************************************)
(* Where the controllers differ: the fields of a record of type            *)
(* ControllerType.  Managed says what each choice does.                    *)
(***************************************************************************)
EXTENDS Parameters

ControllerType ==
  [late   : {"observe", "runtime", "none"},  \* who stores a late-initialised spec
   status : {"before", "after"},  \* is the status set before or after that
   reread : {"no", "read", "compare"},  \* does Update read the resource again, and compare
   fingerprint : SUBSET Nat,  \* the calls that carry what Observe recorded
   etag   : SUBSET Nat,       \* the calls that carry what Update read
   empties : BOOLEAN, \* is a missing resource an empty one, which can be read and updated
   upsert : BOOLEAN,  \* does Create write over a resource that exists
   answers : BOOLEAN, \* does Create record the answer in the status
   skips  : [{"create", "update", "delete"} -> SUBSET {"PROVISIONING", "RECONCILING", "STOPPING"}],
                      \* the states, of the status in memory, in which a call is left out
   async  : BOOLEAN,  \* do operations of the service take time
   keeps  : BOOLEAN]  \* can the resource not be deleted

Always == [h \in {"create", "update", "delete"} |-> {}]

\* The common one.
Controller ==
  [late |-> "observe", status |-> "after", reread |-> "no", fingerprint |-> {}, etag |-> {},
   empties |-> FALSE, upsert |-> FALSE, answers |-> FALSE, skips |-> Always, async |-> FALSE, keeps |-> FALSE]
=============================================================================
