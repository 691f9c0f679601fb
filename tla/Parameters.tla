----------------------------- MODULE Parameters -----------------------------
(***************************************************************************)
(* How the client packages treat one parameter of a managed resource.      *)
(*                                                                         *)
(* Every client has the same three functions: one that writes the spec     *)
(* over a request or a copy of the observed resource (Generate...), one    *)
(* that fills the spec from the observed resource (LateInitializeSpec),    *)
(* and one that compares (IsUpToDate).  They treat a parameter in one of a *)
(* few ways, which a record of type Parameter describes.  What the records *)
(* of a kind are is read off its client, in the ...Kinds modules; what a   *)
(* record means is defined here.                                           *)
(***************************************************************************)
EXTENDS Naturals

CONSTANTS
  Values,  \* what a parameter can be set to, other than the zero value
  Zero,    \* the zero value of its Go type: "", 0, false, an empty list
  Nil,     \* a parameter the spec leaves out
  Absent   \* a parameter of a struct that the spec, or the resource, leaves out

ASSUME AtomAssumption ==
  /\ Zero \notin Values /\ Nil \notin Values /\ Absent \notin Values
  /\ Zero # Nil /\ Zero # Absent /\ Nil # Absent

Parameter ==
  [type   : {"required", "optional", "pointer", "plain", "list"},
                 \* a plain field is never nil, a required one never zero either;
                 \* nil and zero are the same for an optional one; a list or a map
                 \* may be nil or empty
   nested : BOOLEAN,  \* is it part of an optional struct
   ref    : {"no", "may", "given"},  \* can it be given, is it, as a reference to another object
   gen    : {"always", "inStruct", "ifSet", "ifAny", "ifEmpty", "never"},
   late   : {"ifUnset", "ifZero", "whole", "overwrite", "copy", "panics", "panicsWhole", "never"},
   compare : {"generated", "exact", "spec", "leaf"},  \* what IsUpToDate compares
   on     : Nat,      \* the update call a difference selects, 0 for none
   off    : Nat,      \* the one it selects when the parameter is to be zero
   carried : SUBSET Nat,  \* the update calls whose request carries it
   created : BOOLEAN,     \* does the request of Create carry it
   zero   : {"omitted", "forced", "cleared"},  \* what a zero in a request does
   masked : BOOLEAN,  \* does the update mask name it only when it differs
   wiped  : BOOLEAN,  \* does the request carry it even when it is not set
   deref  : {"no", "call", "compare"},  \* where an unset pointer is dereferenced
   fixed  : {"no", "yes", "on"},  \* does the service refuse to change it, or to set it again
   out    : BOOLEAN]  \* a field of the status, not of the spec

\* The common treatment: assigned, filled in when unset, compared, carried by
\* the one update call there is, a zero left out of requests.
Plain ==
  [type |-> "pointer", nested |-> FALSE, ref |-> "no", gen |-> "always", late |-> "ifUnset",
   compare |-> "generated", on |-> 1, off |-> 1, carried |-> {1}, created |-> TRUE,
   zero |-> "omitted", masked |-> FALSE, wiped |-> FALSE, deref |-> "no", fixed |-> "no",
   out |-> FALSE]

\* A list or a map; one that is only assigned when it is not empty; a pointer in
\* an optional struct; a plain field of one that is copied as a whole.
List == [Plain EXCEPT !.type = "list"]
ListIfAny == [List EXCEPT !.gen = "ifAny"]
InStruct(c) == [c EXCEPT !.nested = TRUE, !.gen = IF @ = "always" THEN "inStruct" ELSE @]
WholeStruct == [InStruct(Plain) EXCEPT !.type = "plain", !.late = "whole"]

\* A parameter that is part of the resource's name.
InName == [Plain EXCEPT !.late = "never", !.on = 0, !.off = 0, !.carried = {}, !.fixed = "yes"]

\* A field that GenerateObservation copies into the status.
Output == [Plain EXCEPT !.type = "optional", !.gen = "never", !.late = "never", !.on = 0,
                        !.off = 0, !.carried = {}, !.created = FALSE, !.out = TRUE]

Unset(s) == s \in {Nil, Absent}
Empty(o) == o \in {Zero, Absent}
EmptyList(c, s) == c.type = "list" /\ s = Zero

\* What the spec, and the resource, can hold.
SpecValues(c) ==
  IF c.out THEN {Nil}
  ELSE Values \cup (IF c.type \in {"optional", "pointer", "list"} THEN {Nil} ELSE {})
              \cup (IF c.type \in {"plain", "pointer", "list"} THEN {Zero} ELSE {})
              \cup (IF c.nested THEN {Absent} ELSE {})
ResourceValues(c) == Values \cup (IF c.type = "required" THEN {} ELSE {Zero})
                            \cup (IF c.nested THEN {Absent} ELSE {})

\* Mutated: a missing pointer is passed on.
NilIfNil(s) == s
\* StringValue, Int64Value and BoolValue turn a missing pointer into zero.
ZeroIfNil(s) == IF Unset(s) THEN Zero ELSE s

\* Mutated: what the resource has replaces what the spec says.
LateInitializeOver(c, s, o) == IF o # Zero THEN o ELSE s
\* Mutated: what is missing is filled in with a zero.
LateInitializeZero(c, s, o) == IF s = Nil THEN Zero ELSE s
\* LateInitializeString and its likes keep what is set and never take a zero; an
\* empty list is not set.
LateInitialize(c, s, o) == IF (s = Nil \/ EmptyList(c, s)) /\ o # Zero THEN o ELSE s

\* A value of the resource as a spec has it.
InSpec(c, o) == IF o = Zero /\ c.type \in {"optional", "pointer", "list"} THEN Nil ELSE o

\* A value as an Update of the object leaves it: an empty list is omitted.
Stored(c, s) == IF EmptyList(c, s) THEN Nil ELSE s

-----------------------------------------------------------------------------
\* The spec written over base: a blank for a request, the observed value for a
\* comparison.
Blank(c) == IF c.nested THEN Absent ELSE Zero
Generate(c, s, base) ==
  CASE c.gen = "always"   -> ZeroIfNil(s)
    [] c.gen = "inStruct" -> IF s = Absent THEN base ELSE ZeroIfNil(s)
    [] c.gen = "ifSet"    -> IF Unset(s) THEN base ELSE s
    [] c.gen = "ifAny"    -> IF Unset(s) \/ s = Zero THEN base ELSE s
    [] c.gen = "ifEmpty"  -> IF Unset(s) \/ base # Blank(c) THEN base ELSE s
    [] c.gen = "never"    -> base

\* What a request holds.
Sent(c, s) == ZeroIfNil(Generate(c, s, Blank(c)))

\* LateInitializeSpec dereferences a struct of the spec that is not there;
\* IsUpToDate one of the resource.
LateInitializePanics(c, s, o) ==
  \/ c.late = "panics" /\ s = Absent /\ o # Absent
  \/ c.late = "panicsWhole" /\ s = Absent /\ ~Empty(o)
IsUpToDatePanics(c, s, o) == c.deref = "compare" /\ s # Absent /\ o = Absent

\* LateInitializeSpec: field by field, in a struct that is made for it; over a
\* zero too; a struct as a whole; over a value that is set, if the resource has
\* one; or over it in any case.
LateInitializeSpec(c, s, o) ==
  CASE c.late \in {"ifUnset", "panics"}    ->
         IF o = Absent THEN s ELSE LateInitialize(c, IF s = Absent THEN Nil ELSE s, o)
    [] c.late = "ifZero"                   -> IF s \in {Nil, Zero} /\ o # Zero THEN o ELSE s
    [] c.late \in {"whole", "panicsWhole"} -> IF s = Absent /\ o # Absent THEN InSpec(c, o) ELSE s
    [] c.late = "overwrite"                -> IF o = Absent THEN s ELSE o
    [] c.late = "copy"                     -> InSpec(c, o)
    [] c.late = "never"                    -> s

\* Mutated: the resource is compared with the request for a new one.
DiffersFromRequest(c, s, o) == c.on # 0 /\ Generate(c, s, Blank(c)) # o
\* IsUpToDate finds a difference in this parameter: between the resource and
\* the spec written over it, an empty list being the same as none or not;
\* between the spec and one that is filled in from the resource; or between the
\* two values, be there a struct or not...
Differs(c, s, o) ==
  /\ c.on # 0
  /\ CASE c.compare = "generated" -> Generate(c, s, o) # o
       [] c.compare = "exact"     -> EmptyList(c, s) \/ Generate(c, s, o) # o
       [] c.compare = "spec"      -> s # InSpec(c, o)
       [] c.compare = "leaf"      -> s # Absent /\ Generate(c, s, o) # ZeroIfNil(o)

\* ...which calls for this update.
UpdateFor(c, s, o) == IF Generate(c, s, o) = Zero THEN c.off ELSE c.on

\* What a resource made for the spec has: the service gives a parameter that
\* the request leaves out its default, and reports a struct that was sent.
Created(c, s, default) ==
  LET v    == Sent(c, s)
      rest == IF default = Absent /\ s # Absent THEN Zero ELSE default IN
  IF ~c.created \/ s = Absent THEN default
  ELSE IF v # Zero \/ (c.zero = "forced" /\ s = Zero) THEN v
  ELSE rest

\* What update call r makes of the value old of a resource that was read as
\* seen: nothing if the request does not carry the parameter or omits it.
Patched(c, s, old, seen, r) ==
  LET v == Sent(c, s) IN
  IF \/ r \notin c.carried
     \/ c.masked /\ ~Differs(c, s, seen)
     \/ s = Absent /\ ~c.wiped
     \/ s = Nil /\ c.gen \in {"ifSet", "ifAny", "ifEmpty"} /\ ~c.wiped
     \/ s = Zero /\ c.gen = "ifAny" /\ ~c.wiped
     \/ v = Zero /\ c.zero = "omitted"
  THEN IF old = Absent /\ s # Absent /\ r \in c.carried THEN Zero ELSE old
  ELSE IF s = Absent THEN Absent ELSE v

\* The service refuses to change what is fixed.
Refused(c, old, new) ==
  /\ old # new
  /\ \/ c.fixed = "yes"
     \/ c.fixed = "on" /\ new # Zero
=============================================================================
