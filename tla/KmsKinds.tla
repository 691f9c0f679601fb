------------------------------ MODULE KmsKinds ------------------------------
(***************************************************************************)
(* The kinds of apis/kms/v1alpha1: KeyRing, CryptoKey and CryptoKeyPolicy. *)
(***************************************************************************)
EXTENDS Controllers

-----------------------------------------------------------------------------
(***************************************************************************)
(* KeyRing: it cannot be updated or deleted.                               *)
(***************************************************************************)
KeyRingParameters == {"location"}
KeyRingObservation == {"createTime", "name"}
GenerateKeyRingObservation == KeyRingObservation

keyRingExternal == [Controller EXCEPT !.late = "none", !.keeps = TRUE]

KeyRingKind ==
  [controller |-> keyRingExternal,
   parameters |-> {[InName EXCEPT !.type = "required"] : p \in KeyRingParameters}
                    \cup {Output : f \in GenerateKeyRingObservation}]

-----------------------------------------------------------------------------
(***************************************************************************)
(* CryptoKey: it cannot be deleted, and its spec is stored by the runtime. *)
(***************************************************************************)
CryptoKeyVersionTemplate == {"algorithm", "protectionLevel"}
CryptoKeyParameters ==
  {"keyRing", "labels", "purpose", "rotationPeriod", "nextRotationTime"} \cup CryptoKeyVersionTemplate

KeyOperationAttestation == {"content", "format"}
ExternalProtectionLevelOptions == {"externalKeyUri"}
CryptoKeyVersion ==
  {"algorithm", "createTime", "destroyEventTime", "destroyTime", "generateTime",
   "importFailureReason", "importJob", "importTime", "name", "protectionLevel", "state"}
CryptoKeyObservation == {"createTime", "name", "nextRotationTime"}
GenerateCryptoKeyObservation ==
  CryptoKeyObservation \cup CryptoKeyVersion \cup KeyOperationAttestation
    \cup ExternalProtectionLevelOptions

GenerateCryptoKeyInstance(p) ==
  CASE p = "keyRing" -> [InName EXCEPT !.ref = "may"]
    [] p = "labels"  -> List
    [] p = "purpose" -> [Plain EXCEPT !.type = "required"]
    [] p \in CryptoKeyVersionTemplate -> InStruct(Plain)
    [] OTHER         -> Plain

\* "LateInitializeSpec fills unassigned fields": the labels it copies.
CryptoKeyLateInitializeSpec(p) ==
  CASE p = "labels"                   -> "copy"
    [] p \in {"keyRing", "purpose"}   -> "never"
    [] OTHER                          -> "ifUnset"

\* The mask names what differs; a template the key does not have is dereferenced.
CryptoKeyIsUpToDate(p) ==
  [GenerateCryptoKeyInstance(p) EXCEPT
     !.late = CryptoKeyLateInitializeSpec(p), !.masked = TRUE, !.zero = "cleared",
     !.deref = IF p \in CryptoKeyVersionTemplate THEN "compare" ELSE "no",
     !.fixed = IF p \in {"keyRing", "purpose"} THEN "yes" ELSE "no"]

cryptoKeyExternal == [Controller EXCEPT !.late = "runtime", !.reread = "compare", !.keeps = TRUE]

CryptoKeyKind ==
  [controller |-> cryptoKeyExternal,
   parameters |-> {CryptoKeyIsUpToDate(p) : p \in CryptoKeyParameters}
                    \cup {Output : f \in GenerateCryptoKeyObservation}]

-----------------------------------------------------------------------------
(***************************************************************************)
(* CryptoKeyPolicy: it exists while it is not empty; Create and Delete set *)
(* it whatever it is, Update with the etag of the policy it compared.      *)
(***************************************************************************)
CryptoKeyPolicyParameters == {"cryptoKey", "policy"}

GenerateCryptoKeyPolicyInstance(p) ==
  CASE p = "cryptoKey" -> [InName EXCEPT !.ref = "may"]
    [] p = "policy"    -> [Plain EXCEPT !.type = "required", !.late = "never"]

PolicyIsUpToDate(p) == IF p = "policy" THEN 1 ELSE 0

cryptoKeyPolicyExternal ==
  [Controller EXCEPT !.late = "none", !.reread = "compare", !.etag = {1}, !.empties = TRUE,
                     !.upsert = TRUE]

CryptoKeyPolicyKind ==
  [controller |-> cryptoKeyPolicyExternal,
   parameters |-> {[GenerateCryptoKeyPolicyInstance(p) EXCEPT !.on = PolicyIsUpToDate(p),
                                                              !.off = PolicyIsUpToDate(p)] :
                     p \in CryptoKeyPolicyParameters}]

KmsKinds == {KeyRingKind, CryptoKeyKind, CryptoKeyPolicyKind}
=============================================================================
