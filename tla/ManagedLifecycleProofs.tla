----------------------- MODULE ManagedLifecycleProofs -----------------------
(* What an implementation of ManagedLifecycle can be relied on for.        *)
EXTENDS ManagedLifecycle, TLAPS

IInv == exists \in BOOLEAN /\ kept \in BOOLEAN /\ NothingLeftBehind

\* A resource that can be deleted never outlives its object, in whatever
\* implements the lifecycle.
THEOREM NothingIsLeftBehind == Spec => []NothingLeftBehind
<1>1. Init => IInv
  BY DEF Init, IInv, NothingLeftBehind
<1>2. IInv /\ [Next]_lifecycle => IInv'
  <2> SUFFICES ASSUME IInv, [Next]_lifecycle PROVE IInv'
    OBVIOUS
  <2>1. CASE UNCHANGED lifecycle
    BY <2>1 DEF lifecycle, IInv, NothingLeftBehind
  <2>2. CASE Hold \/ GiveUp
    BY <2>2 DEF Hold, GiveUp, IInv, NothingLeftBehind
  <2>3. CASE Provision
    BY <2>3 DEF Provision, IInv, NothingLeftBehind
  <2>4. CASE Remove
    BY <2>4 DEF Remove, IInv, NothingLeftBehind
  <2>5. CASE Release
    <3>1. exists = FALSE \/ kept = TRUE
      BY <2>5, Zenon DEF Release, IInv
    <3>2. exists' = exists /\ kept' = kept /\ exists \in BOOLEAN /\ kept \in BOOLEAN
      BY <2>5 DEF Release, IInv
    <3>3. ~(exists' /\ ~kept')
      BY <3>1, <3>2
    <3>4. QED
      BY <3>2, <3>3 DEF IInv, NothingLeftBehind
  <2>6. CASE OthersAct
    <3>1. object' = object /\ kept' = kept /\ (exists' = exists \/ exists' = FALSE)
      BY <2>6 DEF OthersAct
    <3>2. CASE exists' = exists
      BY <3>1, <3>2 DEF IInv, NothingLeftBehind
    <3>3. CASE exists' = FALSE
      BY <3>1, <3>3 DEF IInv, NothingLeftBehind
    <3>4. QED
      BY <3>1, <3>2, <3>3
  <2>7. QED
    BY <2>1, <2>2, <2>3, <2>4, <2>5, <2>6 DEF Next
<1>3. IInv => NothingLeftBehind
  BY DEF IInv
<1>4. QED
  BY <1>1, <1>2, <1>3, PTL DEF Spec
=============================================================================
