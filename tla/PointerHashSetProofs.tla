------------------------ MODULE PointerHashSetProofs ------------------------
(***************************************************************************)
(* PointerHashSet implements PointerSet, for every size, set of pointers   *)
(* and hash function.  The inductive invariant IndInv relates the array to *)
(* the searches: between the first cell of a stored pointer and the cell   *)
(* that holds it there is no empty one (NoGap), and a search under way has *)
(* seen only cells in use that hold other pointers (Searching).  So a      *)
(* search that meets an empty cell proves that its pointer is not stored.  *)
(***************************************************************************)
EXTENDS PointerHashSet, FiniteSetTheorems, FunctionTheorems, TLAPS

\* Remainders of the sums that linear probing forms: at most one wrap.
LEMMA ModSmall ==
  ASSUME NEW a \in 0 .. (Size - 1)
  PROVE  a % Size = a
BY PointerHashSetAssumption

LEMMA ModWrap ==
  ASSUME NEW a \in 0 .. (Size - 1)
  PROVE  (a + Size) % Size = a
BY PointerHashSetAssumption

LEMMA SlotInCells ==
  ASSUME NEW h \in Cells, NEW k \in Cells
  PROVE  (h + k) % Size \in Cells
BY PointerHashSetAssumption DEF Cells

LEMMA SlotNext ==
  ASSUME NEW h \in Cells, NEW k \in Cells, k # Size - 1
  PROVE  (((h + k) % Size) + 1) % Size = (h + (k + 1)) % Size
<1>1. /\ Size \in Nat \ {0} /\ h \in 0 .. (Size - 1)
      /\ k \in 0 .. (Size - 1) /\ k + 1 \in 0 .. (Size - 1)
  BY PointerHashSetAssumption DEF Cells
<1>2. CASE h + k < Size - 1
  <2>0. h + k \in 0 .. (Size - 1)
    BY <1>1, <1>2
  <2>1. (h + k) % Size = h + k
    BY <1>1, <2>0, ModSmall
  <2>. QED  BY <1>1, <2>1
<1>3. CASE h + k = Size - 1
  <2>0. Size - 1 \in 0 .. (Size - 1)
    BY <1>1
  <2>1. (h + k) % Size = Size - 1
    BY <1>1, <1>3, <2>0, ModSmall
  <2>2. ((h + k) % Size) + 1 = h + (k + 1)
    BY <1>1, <1>3, <2>1
  <2>. QED  BY <2>2
<1>4. CASE h + k > Size - 1
  <2>. DEFINE a == h + k - Size
  <2>0. /\ a \in 0 .. (Size - 1) /\ a + 1 \in 0 .. (Size - 1)
        /\ h + k = a + Size /\ h + (k + 1) = (a + 1) + Size
    BY <1>1, <1>4
  <2>. HIDE DEF a
  <2>1. (h + k) % Size = a
    BY <2>0, ModWrap
  <2>2. (h + (k + 1)) % Size = a + 1
    BY <2>0, ModWrap
  <2>3. (a + 1) % Size = a + 1
    BY <2>0, ModSmall
  <2>. QED  BY <2>1, <2>2, <2>3
<1>. QED  BY <1>1, <1>2, <1>3, <1>4

\* From every first cell the search comes to every cell.
LEMMA SlotOnto ==
  ASSUME NEW h \in Cells, NEW c \in Cells
  PROVE  \E k \in Cells : c = (h + k) % Size
<1>1. Size \in Nat \ {0} /\ h \in 0 .. (Size - 1) /\ c \in 0 .. (Size - 1)
  BY PointerHashSetAssumption DEF Cells
<1>2. CASE c >= h
  <2>1. c - h \in Cells /\ h + (c - h) = c
    BY <1>1, <1>2 DEF Cells
  <2>2. c % Size = c
    BY <1>1, ModSmall
  <2>. QED  BY <2>1, <2>2
<1>3. CASE c < h
  <2>1. c - h + Size \in Cells /\ h + (c - h + Size) = c + Size
    BY <1>1, <1>3 DEF Cells
  <2>2. (c + Size) % Size = c
    BY <1>1, ModWrap
  <2>. QED  BY <2>1, <2>2
<1>. QED  BY <1>1, <1>2, <1>3

LEMMA CellsFinite == IsFiniteSet(Cells) /\ Cardinality(Cells) = Size
<1>1. IsFiniteSet(0 .. (Size - 1)) /\ Cardinality(0 .. (Size - 1)) = Size
  BY PointerHashSetAssumption, FS_Interval
<1>. QED  BY <1>1 DEF Cells

LEMMA UsedFinite == IsFiniteSet(Used) /\ Cardinality(Used) <= Size /\ Cardinality(Used) \in Nat
<1>1. Used \subseteq Cells
  BY DEF Used
<1>. QED  BY <1>1, CellsFinite, FS_Subset, FS_CardinalityType

\* A search that has passed an array's worth of cells is in a full array.
LEMMA AllProbed ==
  ASSUME IndInv, pc = "probe", data[index] # Null, probes = Size - 1
  PROVE  numEntries = Size
<1>1. twang_mix64[pointer] \in Cells
  BY DEF IndInv, TypeOK
<1>2. ASSUME NEW c \in Cells PROVE c \in Used
  <2>1. PICK k \in Cells : c = slot(pointer, k)
    BY <1>1, SlotOnto DEF slot
  <2>2. CASE k = probes
    BY <2>1, <2>2 DEF IndInv, Searching, Used, TypeOK
  <2>3. CASE k # probes
    <3>1. k \in 0 .. (probes - 1)
      BY <2>3, PointerHashSetAssumption DEF Cells
    <3>. QED  BY <2>1, <3>1 DEF IndInv, Searching
  <2>. QED  BY <2>2, <2>3
<1>3. Used = Cells
  BY <1>2 DEF Used
<1>. QED  BY <1>3, CellsFinite DEF IndInv, CountExact

\* A search that meets an empty cell: its pointer is not in the set.
LEMMA EmptyMeansAbsent ==
  ASSUME IndInv, pc = "probe", data[index] = Null
  PROVE  pointer \notin Members
<1>. SUFFICES ASSUME NEW c \in Used, data[c] = pointer
              PROVE  FALSE
  BY DEF Members
<1>1. PICK k \in Cells : /\ c = slot(pointer, k)
                         /\ \A i \in 0 .. (k - 1) : slot(pointer, i) \in Used
  BY DEF IndInv, NoGap
<1>0. probes \in Nat /\ k \in Nat
  BY PointerHashSetAssumption DEF IndInv, TypeOK, Cells
<1>2. index = slot(pointer, probes) /\ index \notin Used
  BY DEF IndInv, Searching, Used
<1>3. CASE k < probes
  <2>1. k \in 0 .. (probes - 1)
    BY <1>0, <1>3
  <2>. QED  BY <2>1, <1>1 DEF IndInv, Searching
<1>4. CASE k = probes
  BY <1>1, <1>2, <1>4
<1>5. CASE k > probes
  <2>1. probes \in 0 .. (k - 1)
    BY <1>0, <1>5
  <2>. QED  BY <1>1, <1>2, <2>1
<1>. QED  BY <1>0, <1>3, <1>4, <1>5

LEMMA InitInv == Init => IndInv
<1>. SUFFICES ASSUME Init PROVE IndInv
  OBVIOUS
<1>1. Used = {}
  BY DEF Init, Used
<1>2. TypeOK
  BY PointerHashSetAssumption DEF Init, TypeOK, Cells, PCs
<1>3. CountExact
  BY <1>1, FS_EmptySet DEF Init, CountExact
<1>4. NoGap
  BY <1>1 DEF NoGap
<1>5. Searching
  BY DEF Init, Searching
<1>. QED  BY <1>2, <1>3, <1>4, <1>5 DEF IndInv

\* What an added pointer does to the array.
LEMMA HereUsed ==
  ASSUME IndInv, addHere
  PROVE  /\ Used' = Used \cup {index}
         /\ index \notin Used
         /\ Cardinality(Used') = Cardinality(Used) + 1
         /\ \A c \in Used : data'[c] = data[c]
         /\ data'[index] = pointer
<1>1. pointer # Null /\ pointer \in Pointers /\ index \in Cells /\ data \in [Cells -> Pointers]
  BY DEF IndInv, Searching, TypeOK, addHere
<1>2. data' = [data EXCEPT ![index] = pointer] /\ data[index] = Null
  BY DEF addHere
<1>3. Used' = Used \cup {index}
  BY <1>1, <1>2 DEF Used
<1>4. index \notin Used
  BY <1>2 DEF Used
<1>5. Cardinality(Used') = Cardinality(Used) + 1
  BY <1>3, <1>4, UsedFinite, FS_AddElement
<1>. QED  BY <1>1, <1>2, <1>3, <1>4, <1>5 DEF Used

LEMMA HereInv == IndInv /\ addHere => IndInv'
<1>. SUFFICES ASSUME IndInv, addHere PROVE IndInv'
  OBVIOUS
<1>1. numEntries' = Cardinality(Used')
  BY HereUsed DEF addHere, IndInv, CountExact
<1>2. numEntries' \in 0 .. Size
  <2>1. Used' \subseteq Cells
    BY HereUsed DEF Used, IndInv, TypeOK
  <2>. QED  BY <1>1, <2>1, CellsFinite, FS_Subset, FS_CardinalityType, PointerHashSetAssumption
<1>3. TypeOK'
  BY <1>2 DEF addHere, IndInv, TypeOK, PCs
<1>4. CountExact'
  <2>1. \A c \in Used : data[c] # pointer
    BY EmptyMeansAbsent DEF addHere, Members
  <2>. QED  BY <1>1, <2>1, HereUsed DEF IndInv, CountExact
<1>5. NoGap'
  <2>. SUFFICES ASSUME NEW c \in Used'
                PROVE  \E k \in Cells :
                         /\ c = slot(data[c], k)'
                         /\ \A i \in 0 .. (k - 1) : (slot(data[c], i) \in Used)'
    BY DEF NoGap
  <2>0. twang_mix64' = twang_mix64
    BY DEF addHere
  <2>1. CASE c = index
    <3>1. probes \in Cells /\ data'[c] = pointer
      BY <2>1, HereUsed DEF IndInv, TypeOK, Cells
    <3>2. c = slot(pointer, probes) /\ \A i \in 0 .. (probes - 1) : slot(pointer, i) \in Used
      BY <2>1 DEF IndInv, Searching, addHere
    <3>. QED  BY <2>0, <3>1, <3>2, HereUsed DEF slot
  <2>2. CASE c \in Used
    <3>1. PICK k \in Cells : /\ c = slot(data[c], k)
                             /\ \A i \in 0 .. (k - 1) : slot(data[c], i) \in Used
      BY <2>2 DEF IndInv, NoGap
    <3>2. data'[c] = data[c]
      BY <2>2, HereUsed
    <3>. QED  BY <2>0, <3>1, <3>2, HereUsed DEF slot
  <2>. QED  BY <2>1, <2>2, HereUsed
<1>6. Searching'
  BY DEF addHere, Searching
<1>. QED  BY <1>3, <1>4, <1>5, <1>6 DEF IndInv

LEMMA NextInv == IndInv /\ [Next]_vars => IndInv'
<1>. SUFFICES ASSUME IndInv, [Next]_vars PROVE IndInv'
  OBVIOUS
<1>1. CASE initialize
  <2>1. Used' = {}
    BY <1>1 DEF initialize, Used
  <2>2. TypeOK'
    BY <1>1, PointerHashSetAssumption DEF initialize, IndInv, TypeOK, PCs, Cells
  <2>3. CountExact'
    BY <1>1, <2>1, FS_EmptySet DEF initialize, CountExact
  <2>4. NoGap' /\ Searching'
    BY <1>1, <2>1 DEF initialize, NoGap, Searching
  <2>. QED  BY <2>2, <2>3, <2>4 DEF IndInv
<1>2. ASSUME NEW p \in Pointers, add(p) PROVE IndInv'
  <2>1. TypeOK'
    BY <1>2, PointerHashSetAssumption DEF add, IndInv, TypeOK, PCs, Cells
  <2>2. Used' = Used /\ data' = data /\ twang_mix64' = twang_mix64 /\ numEntries' = numEntries
    BY <1>2 DEF add, Used
  <2>3. CountExact' /\ NoGap'
    BY <2>2 DEF IndInv, CountExact, NoGap, slot
  <2>4. Searching'
    BY <1>2 DEF add, Searching
  <2>. QED  BY <2>1, <2>3, <2>4 DEF IndInv
<1>3. CASE addEntry
  <2>1. probes = 0
    BY <1>3 DEF addEntry, IndInv, Searching
  <2>2. TypeOK'
    BY <1>3 DEF addEntry, IndInv, TypeOK, PCs
  <2>3. Used' = Used /\ data' = data /\ twang_mix64' = twang_mix64 /\ numEntries' = numEntries
    BY <1>3 DEF addEntry, Used
  <2>4. CountExact' /\ NoGap'
    BY <2>3 DEF IndInv, CountExact, NoGap, slot
  <2>5. Searching'
    <3>1. pc' = "probe" => pointer' # Null /\ index' = twang_mix64[pointer] /\ pointer' = pointer
      BY <1>3 DEF addEntry
    <3>2. twang_mix64[pointer] \in 0 .. (Size - 1)
      BY DEF IndInv, TypeOK, Cells
    <3>3. (twang_mix64[pointer] + 0) % Size = twang_mix64[pointer]
      BY <3>2, ModSmall, PointerHashSetAssumption
    <3>4. probes' = 0 /\ pc' # "entry" /\ 0 .. (probes' - 1) = {}
      BY <1>3, <2>1 DEF addEntry
    <3>. QED  BY <2>3, <3>1, <3>3, <3>4 DEF Searching, slot
  <2>. QED  BY <2>2, <2>4, <2>5 DEF IndInv
<1>4. CASE addHere
  BY <1>4, HereInv
<1>5. CASE addRefuses
  <2>1. TypeOK'
    BY <1>5 DEF addRefuses, IndInv, TypeOK, PCs
  <2>2. Used' = Used /\ data' = data /\ twang_mix64' = twang_mix64 /\ numEntries' = numEntries
    BY <1>5 DEF addRefuses, Used
  <2>3. CountExact' /\ NoGap'
    BY <2>2 DEF IndInv, CountExact, NoGap, slot
  <2>4. Searching'
    BY <1>5 DEF addRefuses, Searching
  <2>. QED  BY <2>1, <2>3, <2>4 DEF IndInv
<1>6. CASE addNext
  <2>1. probes # Size - 1
    <3>1. numEntries # Size
      BY <1>6, PointerHashSetAssumption DEF addNext, IndInv, TypeOK
    <3>. QED  BY <1>6, <3>1, AllProbed DEF addNext
  <2>2. probes + 1 \in 0 .. (Size - 1) /\ probes \in Cells
    BY <2>1, PointerHashSetAssumption DEF IndInv, TypeOK, Cells
  <2>3. (index + 1) % Size \in Cells
    BY PointerHashSetAssumption DEF IndInv, TypeOK, Cells
  <2>4. TypeOK'
    BY <1>6, <2>2, <2>3 DEF addNext, IndInv, TypeOK
  <2>5. Used' = Used /\ data' = data /\ twang_mix64' = twang_mix64 /\ numEntries' = numEntries
    BY <1>6 DEF addNext, Used
  <2>6. CountExact' /\ NoGap'
    BY <2>5 DEF IndInv, CountExact, NoGap, slot
  <2>7. Searching'
    <3>1. pc' = "probe" /\ pointer' = pointer /\ probes' = probes + 1 /\ pc = "probe"
      BY <1>6 DEF addNext
    <3>2. index' = slot(pointer, probes + 1)
      <4>1. index' = (index + 1) % Size /\ index = slot(pointer, probes)
        BY <1>6 DEF addNext, IndInv, Searching
      <4>2. twang_mix64[pointer] \in Cells
        BY DEF IndInv, TypeOK
      <4>. QED  BY <4>1, <4>2, <2>1, <2>2, SlotNext DEF slot
    <3>3. ASSUME NEW i \in 0 .. probes
          PROVE  slot(pointer, i) \in Used /\ data[slot(pointer, i)] # pointer
      <4>1. CASE i = probes
        BY <1>6, <4>1 DEF addNext, IndInv, Searching, Used, TypeOK
      <4>2. CASE i # probes
        <5>1. i \in 0 .. (probes - 1)
          BY <2>2, <4>2 DEF Cells
        <5>. QED  BY <3>1, <5>1 DEF IndInv, Searching
      <4>. QED  BY <4>1, <4>2
    <3>4. 0 .. (probes' - 1) = 0 .. probes
      BY <2>2, <3>1 DEF Cells
    <3>5. pointer # Null
      BY <3>1 DEF IndInv, Searching
    <3>6. \A i \in 0 .. (probes' - 1) :
            slot(pointer, i) \in Used /\ data[slot(pointer, i)] # pointer
      BY <3>3, <3>4
    <3>. QED  BY <2>5, <3>1, <3>2, <3>5, <3>6 DEF Searching, slot
  <2>. QED  BY <2>4, <2>6, <2>7 DEF IndInv
<1>7. CASE UNCHANGED vars
  <2>1. Used' = Used
    BY <1>7 DEF vars, Used
  <2>. QED  BY <1>7, <2>1 DEF vars, IndInv, TypeOK, CountExact, NoGap, Searching, slot
<1>. QED  BY <1>1, <1>2, <1>3, <1>4, <1>5, <1>6, <1>7 DEF Next, Step

\* The array, the counter and the search under way fit together at all times.
THEOREM Invariance == Spec => []IndInv
BY InitInv, NextInv, PTL DEF Spec

\* index stays inside data, for every size (add, OITraceCode.cpp).
THEOREM TypeCorrect == Spec => []TypeOK
<1>1. IndInv => TypeOK
  BY DEF IndInv
<1>. QED  BY <1>1, Invariance, PTL

\* numEntries is the number of cells in use and no pointer has two of them.
THEOREM Counting == Spec => []CountExact
<1>1. IndInv => CountExact
  BY DEF IndInv
<1>. QED  BY <1>1, Invariance, PTL

\* Linear probing finds every pointer it has stored.
THEOREM Findable == Spec => []NoGap
<1>1. IndInv => NoGap
  BY DEF IndInv
<1>. QED  BY <1>1, Invariance, PTL

\* As many pointers as cells in use.
LEMMA MembersCount ==
  ASSUME IndInv
  PROVE  IsFiniteSet(Members) /\ Cardinality(Members) = numEntries
<1>. DEFINE f == [c \in Used |-> data[c]]
<1>1. f \in Bijection(Used, Members)
  <2>1. f \in [Used -> Members] /\ \A m \in Members : \E c \in Used : f[c] = m
    BY DEF Members
  <2>2. \A c, d \in Used : f[c] = f[d] => c = d
    BY DEF IndInv, CountExact
  <2>. QED  BY <2>1, <2>2, Fun_IsBij
<1>2. ExistsBijection(Used, Members)
  BY <1>1 DEF ExistsBijection
<1>. QED  BY <1>2, UsedFinite, FS_Bijection DEF IndInv, CountExact

\* PointerSet's cardinality is ours.
LEMMA SameCardinality == \A S : Set!Cardinality(S) = Cardinality(S)
BY DEF Set!Cardinality, Cardinality, Set!IsFiniteSet, IsFiniteSet

LEMMA StepSimulation == IndInv /\ [Next]_vars => [Set!Next]_(Set!vars)
<1>. SUFFICES ASSUME IndInv, [Next]_vars PROVE [Set!Next]_(Set!vars)
  OBVIOUS
<1>. DEFINE call == [pointer |-> pointer,
                     state |-> IF Running THEN "running"
                               ELSE IF pc = "idle" THEN "none" ELSE pc]
<1>0. ASSUME data' = data PROVE Members' = Members
  BY <1>0 DEF Members, Used
<1>1. CASE initialize
  <2>1. Members' = {}
    BY <1>1 DEF initialize, Members, Used
  <2>2. call.state # "running" /\ call' = Set!NoCall
    BY <1>1 DEF initialize, Running, Set!NoCall, IndInv, TypeOK, PCs
  <2>. QED  BY <2>1, <2>2 DEF Set!Next, Set!Initialize
<1>2. ASSUME NEW p \in Pointers, add(p) PROVE Set!Call(p)
  <2>1. call.state # "running" /\ call' = [pointer |-> p, state |-> "running"]
    BY <1>2 DEF add, Running, IndInv, TypeOK, PCs
  <2>. QED  BY <1>0, <1>2, <2>1 DEF add, Set!Call
<1>3. CASE addEntry
  <2>0. Members' = Members
    BY <1>0, <1>3 DEF addEntry
  <2>1. CASE pointer = Null
    <3>1. call.state = "running" /\ call.pointer = Null /\ call' = [call EXCEPT !.state = "false"]
      BY <1>3, <2>1 DEF addEntry, Running
    <3>. QED  BY <2>0, <3>1 DEF Set!Next, Set!Refused
  <2>2. CASE pointer # Null
    <3>1. call' = call
      BY <1>3, <2>2 DEF addEntry, Running
    <3>. QED  BY <2>0, <3>1 DEF Set!vars
  <2>. QED  BY <2>1, <2>2
<1>4. CASE addHere
  <2>1. call.state = "running" /\ call.pointer = pointer /\ call' = [call EXCEPT !.state = "true"]
    BY <1>4 DEF addHere, Running
  <2>2. pointer # Null /\ pointer \notin Members
    BY <1>4, EmptyMeansAbsent DEF addHere, IndInv, Searching
  <2>3. Members' = Members \cup {pointer}
    BY <1>4, HereUsed DEF Members
  <2>4. Cardinality(Members) < Size
    <3>1. numEntries' \in 0 .. Size /\ numEntries' = numEntries + 1
      BY <1>4, HereInv DEF addHere, IndInv, TypeOK
    <3>2. numEntries \in Int /\ Size \in Int
      BY PointerHashSetAssumption DEF IndInv, TypeOK
    <3>3. numEntries < Size
      BY <3>1, <3>2
    <3>. QED  BY <3>3, MembersCount
  <2>. QED  BY <2>1, <2>2, <2>3, <2>4, SameCardinality DEF Set!Next, Set!Added
<1>5. CASE addRefuses
  <2>1. call.state = "running" /\ call.pointer = pointer /\ call' = [call EXCEPT !.state = "false"]
    BY <1>5 DEF addRefuses, Running
  <2>2. Members' = Members
    BY <1>0, <1>5 DEF addRefuses
  <2>3. pointer \in Members \/ Cardinality(Members) >= Size
    <3>1. data[index] = pointer => pointer \in Members
      BY <1>5 DEF addRefuses, Members, Used, IndInv, TypeOK
    <3>. QED  BY <1>5, <3>1, MembersCount DEF addRefuses
  <2>. QED  BY <2>1, <2>2, <2>3, SameCardinality DEF Set!Next, Set!Refused
<1>6. CASE addNext
  <2>1. call' = call
    BY <1>6 DEF addNext, Running
  <2>. QED  BY <1>0, <1>6, <2>1 DEF addNext, Set!vars
<1>7. CASE UNCHANGED vars
  <2>1. call' = call
    BY <1>7 DEF vars, Running
  <2>. QED  BY <1>0, <1>7, <2>1 DEF vars, Set!vars
<1>8. (\E p \in Pointers : add(p)) => Set!Next
  BY <1>2 DEF Set!Next
<1>. QED  BY <1>1, <1>3, <1>4, <1>5, <1>6, <1>7, <1>8 DEF Next, Step

\* add and initialize of the hash set are those of a bounded set, whatever the
\* hash function: add returns true once for a pointer, and refuses a new one
\* only when the array is full.
THEOREM Refinement == Spec => ImplementsSet
<1>1. Init => Set!Init
  BY DEF Init, Set!Init, Set!NoCall, Members, Used, Running
<1>2. IndInv /\ [Next]_vars => [Set!Next]_(Set!vars)
  BY StepSimulation
<1>. QED  BY <1>1, <1>2, Invariance, PTL DEF Spec, ImplementsSet, Set!Spec

=============================================================================
