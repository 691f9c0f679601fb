----------------------------- MODULE PubsubKind -----------------------------
(***************************************************************************)
(* The Topic kind of apis/pubsub/v1alpha1.                                 *)
(***************************************************************************)
EXTENDS Controllers

MessageStoragePolicy == {"allowedPersistenceRegions"}
TopicParameters == {"labels", "kmsKeyName"} \cup MessageStoragePolicy

GenerateTopic(p) ==
  CASE p = "labels"                 -> List
    [] p = "kmsKeyName"             -> Plain
    [] p \in MessageStoragePolicy   -> InStruct(List)

TopicLateInitialize(p) == IF p \in MessageStoragePolicy THEN "whole" ELSE "ifUnset"

\* The spec itself is compared with one filled in from the topic: an empty map
\* or list is not a missing one.
TopicIsUpToDate(p) == "spec"

\* The update names the fields that differ, but never the key.
GenerateUpdateRequest(p) == IF p = "kmsKeyName" THEN {} ELSE {1}

Topic(p) ==
  [GenerateTopic(p) EXCEPT
     !.late = TopicLateInitialize(p), !.compare = TopicIsUpToDate(p),
     !.carried = GenerateUpdateRequest(p), !.masked = TRUE, !.wiped = TRUE, !.zero = "cleared",
     !.fixed = IF p = "kmsKeyName" THEN "yes" ELSE "no"]

\* Update reads the topic again, to know what differs.
topicExternal == [Controller EXCEPT !.reread = "read"]

TopicKind == [controller |-> topicExternal, parameters |-> {Topic(p) : p \in TopicParameters}]
=============================================================================
