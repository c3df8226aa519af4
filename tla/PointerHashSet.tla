--------------------------- MODULE PointerHashSet ---------------------------
(***************************************************************************)
(* PointerHashSet (OITraceCode.cpp): the open-addressing hash set by which *)
(* the JIT'd code knows the pointers it has already followed.  add probes  *)
(* the array from the pointer's hash on, one cell at a time, and nothing   *)
(* is ever removed but by initialize.  The hash function is a parameter:   *)
(* whatever it is, every cell may be the first one of every pointer.       *)
(***************************************************************************)
EXTENDS Integers, FiniteSets

CONSTANTS
  Pointers,  \* pointers that may be added, the null pointer among them
  Null,      \* 0
  Size       \* data.size()

ASSUME PointerHashSetAssumption ==
  /\ Null \in Pointers
  /\ Size \in Nat \ {0}

Cells == 0 .. (Size - 1)

VARIABLES
  twang_mix64, \* the hash function modulo the size; no action changes it
  data,
  numEntries,
  pc,          \* "idle", "entry" or "probe" inside add, or add's answer
  pointer,     \* add's argument
  index,       \* add's variable
  probes       \* cells that this call has left behind (history)

vars == <<twang_mix64, data, numEntries, pc, pointer, index, probes>>

PCs == {"idle", "entry", "probe", "true", "false"}
Running == pc \in {"entry", "probe"}

Init ==
  /\ twang_mix64 \in [Pointers -> Cells]
  /\ data = [c \in Cells |-> Null] /\ numEntries = 0
  /\ pc = "idle" /\ pointer = Null /\ index = 0 /\ probes = 0

initialize ==
  /\ ~Running
  /\ data' = [c \in Cells |-> Null] /\ numEntries' = 0
  /\ pc' = "idle" /\ pointer' = Null /\ index' = 0 /\ probes' = 0
  /\ UNCHANGED twang_mix64

add(p) ==
  /\ ~Running
  /\ pc' = "entry" /\ pointer' = p /\ index' = 0 /\ probes' = 0
  /\ UNCHANGED <<twang_mix64, data, numEntries>>

addEntry ==
  /\ pc = "entry"
  /\ IF pointer = Null
       THEN pc' = "false" /\ UNCHANGED index
       ELSE pc' = "probe" /\ index' = twang_mix64[pointer]
  /\ UNCHANGED <<twang_mix64, data, numEntries, pointer, probes>>

\* An empty cell takes the pointer.
addHere ==
  /\ pc = "probe" /\ data[index] = Null
  /\ data' = [data EXCEPT ![index] = pointer]
  /\ numEntries' = numEntries + 1
  /\ pc' = "true"
  /\ UNCHANGED <<twang_mix64, pointer, index, probes>>

addRefuses ==
  /\ pc = "probe" /\ data[index] # Null
  /\ data[index] = pointer \/ numEntries >= Size
  /\ pc' = "false"
  /\ UNCHANGED <<twang_mix64, data, numEntries, pointer, index, probes>>

\* Mutant: the loop gives up at the end of the array.
addNext_noWrap ==
  /\ pc = "probe" /\ data[index] # Null
  /\ data[index] # pointer /\ numEntries < Size
  /\ IF index + 1 < Size
       THEN index' = index + 1 /\ probes' = probes + 1 /\ UNCHANGED pc
       ELSE pc' = "false" /\ UNCHANGED <<index, probes>>
  /\ UNCHANGED <<twang_mix64, data, numEntries, pointer>>

\* Mutant: the index runs out of the array.
addNext_overrun ==
  /\ pc = "probe" /\ data[index] # Null
  /\ data[index] # pointer /\ numEntries < Size
  /\ index' = index + 1
  /\ probes' = probes + 1
  /\ UNCHANGED <<twang_mix64, data, numEntries, pc, pointer>>

\* Mutant: every other cell is tried.
addNext_skips ==
  /\ pc = "probe" /\ data[index] # Null
  /\ data[index] # pointer /\ numEntries < Size
  /\ index' = (index + 2) % Size
  /\ probes' = probes + 1
  /\ UNCHANGED <<twang_mix64, data, numEntries, pc, pointer>>

\* Mutant: no end of the search in a full array.
addNext_full ==
  /\ pc = "probe" /\ data[index] # Null
  /\ data[index] # pointer
  /\ index' = (index + 1) % Size
  /\ probes' = IF probes + 1 < Size THEN probes + 1 ELSE probes
  /\ UNCHANGED <<twang_mix64, data, numEntries, pc, pointer>>

addNext ==
  /\ pc = "probe" /\ data[index] # Null
  /\ data[index] # pointer /\ numEntries < Size
  /\ index' = (index + 1) % Size
  /\ probes' = probes + 1
  /\ UNCHANGED <<twang_mix64, data, numEntries, pc, pointer>>

Step == addEntry \/ addHere \/ addRefuses \/ addNext

Next == initialize \/ (\E p \in Pointers : add(p)) \/ Step

Spec == Init /\ [][Next]_vars

\* A call that has begun is executed.
FairSpec == Spec /\ WF_vars(Step)

(***************************************************************************)
(* Properties                                                              *)
(***************************************************************************)

\* Every variable keeps its type; index stays inside the array.
TypeOK ==
  /\ twang_mix64 \in [Pointers -> Cells]
  /\ data \in [Cells -> Pointers]
  /\ numEntries \in 0 .. Size
  /\ pc \in PCs /\ pointer \in Pointers
  /\ index \in Cells
  /\ probes \in 0 .. (Size - 1)

Used == {c \in Cells : data[c] # Null}
Members == {data[c] : c \in Used}

\* The cell that is reached from p's first one after k steps.
slot(p, k) == (twang_mix64[p] + k) % Size

\* size() counts the cells in use, and no pointer has two of them.
CountExact ==
  /\ numEntries = Cardinality(Used)
  /\ \A c, d \in Used : data[c] = data[d] => c = d

\* A search for a stored pointer meets no empty cell before it.
NoGap ==
  \A c \in Used : \E k \in Cells :
    /\ c = slot(data[c], k)
    /\ \A i \in 0 .. (k - 1) : slot(data[c], i) \in Used

\* A search has seen cells in use that do not hold its pointer.
Searching ==
  /\ pc = "entry" => probes = 0
  /\ pc = "probe" =>
       /\ pointer # Null
       /\ index = slot(pointer, probes)
       /\ \A i \in 0 .. (probes - 1) :
            slot(pointer, i) \in Used /\ data[slot(pointer, i)] # pointer

IndInv == TypeOK /\ CountExact /\ NoGap /\ Searching

\* The array with linear probing is a set: add returns true exactly when it
\* adds a pointer that is not there, "`false` may be returned if the value was
\* already present, a null pointer was passed or if there are no entries left
\* in the array" (the comment above add).
Set == INSTANCE PointerSet WITH
         members <- Members,
         call <- [pointer |-> pointer,
                  state |-> IF Running THEN "running"
                            ELSE IF pc = "idle" THEN "none" ELSE pc]

ImplementsSet == Set!Spec

\* Every call of add returns, in a full array too.
AddReturns == Running ~> ~Running

=============================================================================
