---------------------------- MODULE MCGkeCluster ----------------------------
(* Instances of GkeCluster for TLC: two parameters that are compared, one  *)
(* of them a scalar, and a third for the special cases.                    *)
EXTENDS GkeCluster

CONSTANTS addons, labels, other, v1, v2

TwoOrder == <<addons, labels>>
ThreeOrder == <<addons, labels, other>>

AllSet == [f \in Fields |-> v1]
NothingSet == [f \in Fields |-> Unset]
LabelsByUser == [f \in Fields |-> IF f = labels THEN Unset ELSE v1]
AllEdits == Fields \X {v1, v2}
WithUnset == Fields \X {v1, v2, Unset}
=============================================================================
