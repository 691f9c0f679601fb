----------------------- MODULE ServiceNetworkingKind -----------------------
(***************************************************************************)
(* The Connection kind of apis/servicenetworking/v1beta1.                  *)
(***************************************************************************)
EXTENDS Controllers

ConnectionParameters == {"parent", "network", "reservedPeeringRanges"}

ConnectionObservation == {"peering", "service"}
UpdateStatus == ConnectionObservation

\* The ranges are sent even when there are none; nothing is filled in.  Their
\* selector is not a pointer: ResolveReferences has one even when the spec does
\* not, and takes all there are.
FromParameters(p) ==
  CASE p = "parent"                -> [InName EXCEPT !.type = "required"]
    [] p = "network"               -> [InName EXCEPT !.ref = "may"]
    [] p = "reservedPeeringRanges" -> [List EXCEPT !.zero = "cleared", !.ref = "given", !.late = "never"]

\* Only they are compared, an empty list with a missing one too.
ConnectionIsUpToDate(p) == IF p = "reservedPeeringRanges" THEN 1 ELSE 0

Connection(p) ==
  [FromParameters(p) EXCEPT !.compare = "exact", !.on = ConnectionIsUpToDate(p), !.off = ConnectionIsUpToDate(p)]

\* "We use Patch instead of Create": it writes over a connection that exists.
connectionExternal == [Controller EXCEPT !.late = "none", !.upsert = TRUE]

ConnectionKind ==
  [controller |-> connectionExternal,
   parameters |-> {Connection(p) : p \in ConnectionParameters} \cup {Output : f \in UpdateStatus}]
=============================================================================
