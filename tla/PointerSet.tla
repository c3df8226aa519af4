----------------------------- MODULE PointerSet -----------------------------
(***************************************************************************)
(* What PointerHashSet promises: a set of at most Size pointers.  add      *)
(* returns true for a pointer that it adds; false for the null pointer,    *)
(* for a member, and when the set is full (the comment above add in        *)
(* OITraceCode.cpp).                                                       *)
(***************************************************************************)
EXTENDS Integers, FiniteSets

CONSTANTS
  Pointers,  \* pointers that may be added, the null pointer among them
  Null,
  Size       \* capacity

VARIABLES
  members,   \* the pointers in the set
  call       \* the call of add under way or the last one, and its answer

vars == <<members, call>>

NoCall == [pointer |-> Null, state |-> "none"]

Init == members = {} /\ call = NoCall

Initialize ==
  /\ call.state # "running"
  /\ members' = {} /\ call' = NoCall

Call(p) ==
  /\ call.state # "running"
  /\ call' = [pointer |-> p, state |-> "running"]
  /\ UNCHANGED members

Added ==
  /\ call.state = "running"
  /\ call.pointer # Null /\ call.pointer \notin members
  /\ Cardinality(members) < Size
  /\ members' = members \cup {call.pointer}
  /\ call' = [call EXCEPT !.state = "true"]

Refused ==
  /\ call.state = "running"
  /\ \/ call.pointer = Null
     \/ call.pointer \in members
     \/ Cardinality(members) >= Size
  /\ call' = [call EXCEPT !.state = "false"]
  /\ UNCHANGED members

Next == Initialize \/ (\E p \in Pointers : Call(p)) \/ Added \/ Refused

Spec == Init /\ [][Next]_vars

=============================================================================
