------------------------------ MODULE IamKinds ------------------------------
(***************************************************************************)
(* The kinds of apis/iam/v1alpha1: ServiceAccount and ServiceAccountPolicy *)
(* (ServiceAccountKey has a module of its own).                            *)
(***************************************************************************)
EXTENDS Controllers

-----------------------------------------------------------------------------
(***************************************************************************)
(* ServiceAccount.                                                         *)
(***************************************************************************)
ServiceAccountParameters == {"displayName", "description"}
ServiceAccountObservation == {"name", "uniqueId", "email", "oauth2ClientId", "disabled"}
populateCRFromProvider == ServiceAccountObservation

\* A parameter that is not set is not compared...
isUpToDate(p) == [Plain EXCEPT !.gen = "ifSet", !.late = "never"]

\* ...but the update always names both, and a missing one is sent as "".
ServiceAccount(p) == [isUpToDate(p) EXCEPT !.wiped = TRUE, !.zero = "cleared"]

\* Create records the service's answer in the status.
serviceAccountExternal == [Controller EXCEPT !.late = "none", !.answers = TRUE]

ServiceAccountKind ==
  [controller |-> serviceAccountExternal,
   parameters |-> {ServiceAccount(p) : p \in ServiceAccountParameters}
                    \cup {Output : f \in populateCRFromProvider}]

-----------------------------------------------------------------------------
(***************************************************************************)
(* ServiceAccountPolicy: it exists while it is not empty; Create and       *)
(* Delete set it whatever it is, Update with the etag of the policy it     *)
(* compared.                                                               *)
(***************************************************************************)
ServiceAccountPolicyParameters == {"serviceAccount", "policy"}

GenerateServiceAccountPolicyInstance(p) ==
  CASE p = "serviceAccount" -> [InName EXCEPT !.ref = "may"]
    [] p = "policy"         -> [Plain EXCEPT !.type = "required", !.late = "never"]

PolicyIsUpToDate(p) == IF p = "policy" THEN 1 ELSE 0

serviceAccountPolicyExternal ==
  [Controller EXCEPT !.late = "none", !.reread = "compare", !.etag = {1}, !.empties = TRUE,
                     !.upsert = TRUE]

ServiceAccountPolicyKind ==
  [controller |-> serviceAccountPolicyExternal,
   parameters |-> {[GenerateServiceAccountPolicyInstance(p) EXCEPT !.on = PolicyIsUpToDate(p),
                                                                   !.off = PolicyIsUpToDate(p)] :
                     p \in ServiceAccountPolicyParameters}]

IamKinds == {ServiceAccountKind, ServiceAccountPolicyKind}
=============================================================================
