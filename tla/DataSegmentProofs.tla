------------------------- MODULE DataSegmentProofs -------------------------
(***************************************************************************)
(* DataSegment for every size of the segment, every base of the varints    *)
(* and any number of arguments, values and runs: the state keeps its type, *)
(* a probe with one argument writes nothing behind the segment, and what   *)
(* the decoder hands over is what the JIT'd code stored in the same run.   *)
(*                                                                         *)
(* The module goes from the bytes of a varint to the loop that reads them, *)
(* then to the sizes of the arguments, to the chain of arguments that      *)
(* decodeTargetData follows and to the invariant that says what the        *)
(* segment holds while the JIT'd code writes it (DecodeInv).               *)
(***************************************************************************)
EXTENDS DataSegment, RecursionLemmas, TLAPS

-----------------------------------------------------------------------------
(***************************************************************************)
(* Varints                                                                 *)
(***************************************************************************)

\* The byte that is written for a number that has more digits in base Radix, and
\* what is left of it.
Low(val)  == Radix + (val % Radix)
High(val) == val \div Radix

\* What is left gets smaller.
LEMMA Digits ==
  ASSUME NEW val \in Nat
  PROVE  Low(val) \in Nat /\ High(val) \in Nat /\ (val >= Radix => High(val) < val)
<1>. USE DataSegmentAssumption DEF Low, High
<1>1. Low(val) \in Nat /\ High(val) \in Nat
  OBVIOUS
<1>2. val >= Radix => High(val) < val
  OBVIOUS
<1>. QED  BY <1>1, <1>2

\* One step of the recursion: what the definition of EncodeVarint means, since
\* there is such a function.
LEMMA EncodeVarintDef ==
  /\ EncodeVarint \in [Nat -> Seq(Nat)]
  /\ \A val \in Nat :
       EncodeVarint[val] = IF val < Radix THEN <<val>>
                           ELSE <<Low(val)>> \o EncodeVarint[High(val)]
<1>. USE DataSegmentAssumption
<1>. DEFINE V == Seq(Nat)
            B == {val \in Nat : val < Radix}
            base == [val \in Nat |-> <<val>>]
            prev == [val \in Nat |-> High(val)]
            step == [q \in Nat \X V |-> <<Low(q[1])>> \o q[2]]
<1>1. base \in [Nat -> V]
  OBVIOUS
<1>2. step \in [Nat \X V -> V]
  <2>1. ASSUME NEW q \in Nat \X V
        PROVE  <<Low(q[1])>> \o q[2] \in V
    <3>1. q[1] \in Nat /\ q[2] \in Seq(Nat)
      OBVIOUS
    <3>2. Low(q[1]) \in Nat
      BY <3>1, Digits
    <3>. QED  BY <3>1, <3>2
  <2>. QED  BY <2>1
<1>3. Descends(prev, B)
  BY Digits DEF Descends
<1>4. PICK f \in [Nat -> V] : Unfolds(f, Nat, B, base, prev, step)
  <2>. HIDE DEF V, B, base, prev, step
  <2>. QED  BY <1>1, <1>2, <1>3, CourseOfValues
<1>5. ASSUME NEW val \in Nat
      PROVE  f[val] = IF val < Radix THEN <<val>> ELSE <<Low(val)>> \o f[High(val)]
  <2>1. f[High(val)] \in V
    BY Digits
  <2>2. f[val] = IF val \in B THEN base[val] ELSE step[<<val, f[prev[val]]>>]
    BY <1>4 DEF Unfolds
  <2>3. step[<<val, f[High(val)]>>] = <<Low(val)>> \o f[High(val)]
    BY <2>1
  <2>. QED  BY <2>2, <2>3
<1>6. f = [val \in Nat |-> IF val < Radix THEN <<val>> ELSE <<Low(val)>> \o f[High(val)]]
  BY <1>5
<1>7. EncodeVarint = [val \in Nat |-> IF val < Radix THEN <<val>>
                                      ELSE <<Low(val)>> \o EncodeVarint[High(val)]]
  BY <1>6, Zenon DEF EncodeVarint, Low, High
<1>8. ASSUME NEW val \in Nat
      PROVE  EncodeVarint[val] = IF val < Radix THEN <<val>>
                                 ELSE <<Low(val)>> \o EncodeVarint[High(val)]
  BY <1>7
<1>9. ASSUME NEW val \in Nat
      PROVE  EncodeVarint[val] \in Seq(Nat)
  <2>. DEFINE X == {n \in Nat : EncodeVarint[n] \notin Seq(Nat)}
  <2>. SUFFICES ASSUME X # {}
                PROVE  FALSE
    OBVIOUS
  <2>1. PICK x \in X : \A y \in X : x <= y
    <3>1. X \subseteq Nat
      OBVIOUS
    <3>. HIDE DEF X
    <3>. QED  BY <3>1, MinExists
  <2>2. x \in Nat /\ EncodeVarint[x] \notin Seq(Nat)
    OBVIOUS
  <2>3. EncodeVarint[x] = IF x < Radix THEN <<x>> ELSE <<Low(x)>> \o EncodeVarint[High(x)]
    BY <1>8, <2>2
  <2>4. ~(x < Radix)
    BY <2>2, <2>3
  <2>5. High(x) \in Nat /\ High(x) < x /\ Low(x) \in Nat
    <3>1. x >= Radix
      BY <2>2, <2>4
    <3>. HIDE DEF X
    <3>. QED  BY <2>2, <3>1, Digits
  <2>6. EncodeVarint[High(x)] \in Seq(Nat)
    <3>1. High(x) \notin X
      <4>. HIDE DEF X
      <4>. QED  BY <2>1, <2>2, <2>5
    <3>. QED  BY <2>5, <3>1
  <2>. QED  BY <2>2, <2>3, <2>4, <2>5, <2>6
<1>10. EncodeVarint \in [Nat -> Seq(Nat)]
  BY <1>7, <1>9
<1>. QED  BY <1>8, <1>10

\* The same for EncodeVarintSize.
LEMMA EncodeVarintSizeDef ==
  /\ EncodeVarintSize \in [Nat -> Nat]
  /\ \A val \in Nat :
       EncodeVarintSize[val] = IF val < Radix THEN 1 ELSE 1 + EncodeVarintSize[High(val)]
<1>. USE DataSegmentAssumption
<1>. DEFINE B == {val \in Nat : val < Radix}
            base == [val \in Nat |-> 1]
            prev == [val \in Nat |-> High(val)]
            step == [q \in Nat \X Nat |-> 1 + q[2]]
<1>1. base \in [Nat -> Nat] /\ step \in [Nat \X Nat -> Nat]
  OBVIOUS
<1>2. Descends(prev, B)
  BY Digits DEF Descends
<1>3. PICK f \in [Nat -> Nat] : Unfolds(f, Nat, B, base, prev, step)
  <2>. HIDE DEF B, base, prev, step
  <2>. QED  BY <1>1, <1>2, CourseOfValues
<1>4. ASSUME NEW val \in Nat
      PROVE  f[val] = IF val < Radix THEN 1 ELSE 1 + f[High(val)]
  <2>1. f[High(val)] \in Nat
    BY Digits
  <2>2. f[val] = IF val \in B THEN base[val] ELSE step[<<val, f[prev[val]]>>]
    BY <1>3 DEF Unfolds
  <2>3. step[<<val, f[High(val)]>>] = 1 + f[High(val)]
    BY <2>1
  <2>. QED  BY <2>2, <2>3
<1>5. f = [val \in Nat |-> IF val < Radix THEN 1 ELSE 1 + f[High(val)]]
  BY <1>4
<1>6. EncodeVarintSize =
        [val \in Nat |-> IF val < Radix THEN 1 ELSE 1 + EncodeVarintSize[High(val)]]
  BY <1>5, Zenon DEF EncodeVarintSize, High
<1>7. ASSUME NEW val \in Nat
      PROVE  EncodeVarintSize[val] = IF val < Radix THEN 1 ELSE 1 + EncodeVarintSize[High(val)]
  BY <1>6
<1>8. ASSUME NEW val \in Nat
      PROVE  EncodeVarintSize[val] \in Nat
  <2>. DEFINE X == {n \in Nat : EncodeVarintSize[n] \notin Nat}
  <2>. SUFFICES ASSUME X # {}
                PROVE  FALSE
    OBVIOUS
  <2>1. PICK x \in X : \A y \in X : x <= y
    <3>1. X \subseteq Nat
      OBVIOUS
    <3>. HIDE DEF X
    <3>. QED  BY <3>1, MinExists
  <2>2. x \in Nat /\ EncodeVarintSize[x] \notin Nat
    OBVIOUS
  <2>3. EncodeVarintSize[x] = IF x < Radix THEN 1 ELSE 1 + EncodeVarintSize[High(x)]
    BY <1>7, <2>2
  <2>4. ~(x < Radix)
    BY <2>2, <2>3
  <2>5. High(x) \in Nat /\ High(x) < x
    BY <2>2, <2>4, Digits
  <2>6. EncodeVarintSize[High(x)] \in Nat
    <3>1. High(x) \notin X
      <4>. HIDE DEF X
      <4>. QED  BY <2>1, <2>2, <2>5
    <3>. QED  BY <2>5, <3>1
  <2>. QED  BY <2>2, <2>3, <2>4, <2>6
<1>9. EncodeVarintSize \in [Nat -> Nat]
  BY <1>6, <1>8
<1>. QED  BY <1>7, <1>9

\* EncodeVarintSize is the number of bytes EncodeVarint makes of a value: the
\* check StoreData makes before it writes is about what it then writes.
LEMMA VarintSize == \A val \in Nat : Len(EncodeVarint[val]) = EncodeVarintSize[val]
<1>. DEFINE X == {n \in Nat : Len(EncodeVarint[n]) # EncodeVarintSize[n]}
<1>. SUFFICES ASSUME X # {}
              PROVE  FALSE
  OBVIOUS
<1>1. PICK x \in X : \A y \in X : x <= y
  <2>1. X \subseteq Nat
    OBVIOUS
  <2>. HIDE DEF X
  <2>. QED  BY <2>1, MinExists
<1>2. x \in Nat /\ Len(EncodeVarint[x]) # EncodeVarintSize[x]
  OBVIOUS
<1>3. /\ EncodeVarint[x] = IF x < Radix THEN <<x>> ELSE <<Low(x)>> \o EncodeVarint[High(x)]
      /\ EncodeVarintSize[x] = IF x < Radix THEN 1 ELSE 1 + EncodeVarintSize[High(x)]
  BY <1>2, EncodeVarintDef, EncodeVarintSizeDef
<1>4. ~(x < Radix)
  BY <1>2, <1>3
<1>5. High(x) \in Nat /\ High(x) < x /\ Low(x) \in Nat
  BY <1>2, <1>4, Digits, DataSegmentAssumption
<1>6. EncodeVarint[High(x)] \in Seq(Nat)
  BY <1>5, EncodeVarintDef
<1>7. Len(EncodeVarint[High(x)]) = EncodeVarintSize[High(x)]
  <2>1. High(x) \notin X
    <3>. HIDE DEF X
    <3>. QED  BY <1>1, <1>2, <1>5
  <2>. QED  BY <1>5, <2>1
<1>8. Len(<<Low(x)>> \o EncodeVarint[High(x)]) = 1 + Len(EncodeVarint[High(x)])
  BY <1>5, <1>6
<1>. QED  BY <1>2, <1>3, <1>4, <1>7, <1>8

-----------------------------------------------------------------------------
(***************************************************************************)
(* The loop of the decoder                                                 *)
(***************************************************************************)

\* The states of the decoder's loop.
LoopStates ==
  [vals : Seq(Nat), prev : Nat, val : Nat, place : Nat, done : BOOLEAN]

\* The loop starts in one of them.
LEMMA LoopStartType == LoopStart \in LoopStates
BY DEF LoopStart, LoopStates

\* What follows the first element of a sequence.
LEMMA ElementBehind ==
  ASSUME NEW l \in Nat, NEW e \in Seq(Nat), NEW j \in 1 .. Len(e)
  PROVE  (<<l>> \o e)[j + 1] = e[j]
<1>1. j \in Nat /\ j >= 1 /\ j <= Len(e) /\ Len(e) \in Nat
  OBVIOUS
<1>2. <<l>> \in Seq(Nat) /\ Len(<<l>>) = 1
  OBVIOUS
<1>3. j + 1 \in 1 .. (Len(<<l>>) + Len(e)) /\ ~(j + 1 <= Len(<<l>>)) /\ (j + 1) - Len(<<l>>) = j
  BY <1>1, <1>2
<1>. QED  BY <1>2, <1>3

\* A product of two numbers that are not negative is not.
LEMMA TimesNat == ASSUME NEW a \in Nat, NEW b \in Nat PROVE a * b \in Nat
OBVIOUS

\* Reading a cell leads from one to another.
LEMMA ReadCellType ==
  ASSUME NEW s \in LoopStates, NEW cell \in Nat
  PROVE  readCell(s, cell) \in LoopStates
<1>. USE DataSegmentAssumption
<1>1. /\ s.vals \in Seq(Nat) /\ s.prev \in Nat /\ s.val \in Nat /\ s.place \in Nat
      /\ s.done \in BOOLEAN
  BY DEF LoopStates
<1>2. cell % Radix \in Nat
  OBVIOUS
<1>3. (cell % Radix) * s.place \in Nat /\ s.place * Radix \in Nat
  <2>1. PICK a \in Nat : a = cell % Radix
    BY <1>2
  <2>. QED  BY <1>1, <2>1, TimesNat
<1>4. PICK sum \in Nat : sum = s.val + (cell % Radix) * s.place
  BY <1>1, <1>3
<1>5. PICK pl \in Nat : pl = s.place * Radix
  BY <1>3
<1>6. Append(s.vals, sum) \in Seq(Nat)
  BY <1>1
<1>7. CASE s.done
  BY <1>7 DEF readCell
<1>8. CASE ~s.done /\ cell % (2 * Radix) >= Radix
  <2>1. readCell(s, cell) = [s EXCEPT !.val = sum, !.place = pl]
    BY <1>4, <1>5, <1>8 DEF readCell
  <2>. QED  BY <1>1, <2>1 DEF LoopStates
<1>9. CASE ~s.done /\ ~(cell % (2 * Radix) >= Radix)
  <2>1. readCell(s, cell) =
          IF sum = Sentinel /\ s.prev = Sentinel THEN [s EXCEPT !.done = TRUE]
          ELSE [vals  |-> IF sum = Sentinel THEN s.vals ELSE Append(s.vals, sum),
                prev  |-> sum, val |-> 0, place |-> 1, done |-> FALSE]
    BY <1>4, <1>9 DEF readCell
  <2>2. [s EXCEPT !.done = TRUE] \in LoopStates
    BY <1>1 DEF LoopStates
  <2>3. [vals  |-> IF sum = Sentinel THEN s.vals ELSE Append(s.vals, sum),
         prev  |-> sum, val |-> 0, place |-> 1, done |-> FALSE] \in LoopStates
    BY <1>1, <1>6 DEF LoopStates
  <2>. QED  BY <2>1, <2>2, <2>3
<1>. QED  BY <1>7, <1>8, <1>9

\* The numbers in n cells of m from p on.
NumbersAt(m, p, n) == \A i \in 1 .. n : m[p + i - 1] \in Nat

\* m and o have the same there.
SameCells(m, o, p, n) == \A i \in 1 .. n : o[p + i - 1] = m[p + i - 1]

LoopSteps(m, p, n) ==
  [q \in LoopStates \X Nat |-> IF q[2] \in 1 .. n THEN readCell(q[1], m[p + q[2] - 1])
                                                  ELSE LoopStart]

\* What the recursion of decodeVarints computes.
LEMMA LoopDef ==
  ASSUME NEW m, NEW p \in Nat, NEW n \in Nat, NumbersAt(m, p, n)
  PROVE  \E t : /\ IsRecursive(t, n, LoopStates, LoopStart, LoopSteps(m, p, n))
                /\ decodeVarints(m, p, n) = t[n]
<1>. DEFINE step == LoopSteps(m, p, n)
            after[i \in 0 .. n] ==
              IF i = 0 THEN LoopStart ELSE readCell(after[i - 1], m[p + i - 1])
<1>1. step \in [LoopStates \X Nat -> LoopStates]
  <2>1. ASSUME NEW q \in LoopStates \X Nat
        PROVE  (IF q[2] \in 1 .. n THEN readCell(q[1], m[p + q[2] - 1]) ELSE LoopStart)
                 \in LoopStates
    <3>1. q[1] \in LoopStates
      OBVIOUS
    <3>2. CASE q[2] \in 1 .. n
      <4>1. m[p + q[2] - 1] \in Nat
        BY <3>2 DEF NumbersAt
      <4>. QED  BY <3>1, <3>2, <4>1, ReadCellType
    <3>3. CASE q[2] \notin 1 .. n
      BY <3>3, LoopStartType
    <3>. QED  BY <3>2, <3>3
  <2>. QED  BY <2>1 DEF LoopSteps
<1>2. PICK t : IsRecursive(t, n, LoopStates, LoopStart, step)
  <2>. HIDE DEF step
  <2>. QED  BY <1>1, LoopStartType, RecursiveFunction
<1>3. ASSUME NEW k \in 0 .. n
      PROVE  t[k] = IF k = 0 THEN LoopStart ELSE readCell(t[k - 1], m[p + k - 1])
  <2>1. CASE k = 0
    BY <1>2, <2>1 DEF IsRecursive
  <2>2. CASE k # 0
    <3>1. k \in 1 .. n /\ k - 1 \in 0 .. n /\ k \in Nat
      BY <2>2
    <3>2. t[k] = step[<<t[k - 1], k>>] /\ t[k - 1] \in LoopStates
      <4>. HIDE DEF step
      <4>. QED  BY <1>2, <3>1 DEF IsRecursive
    <3>3. step[<<t[k - 1], k>>] = readCell(t[k - 1], m[p + k - 1])
      BY <3>1, <3>2 DEF LoopSteps
    <3>. QED  BY <2>2, <3>2, <3>3
  <2>. QED  BY <2>1, <2>2
<1>4. t = [k \in 0 .. n |-> IF k = 0 THEN LoopStart ELSE readCell(t[k - 1], m[p + k - 1])]
  <2>1. t \in [0 .. n -> LoopStates]
    BY <1>2 DEF IsRecursive
  <2>. QED  BY <1>3, <2>1
<1>5. after = [k \in 0 .. n |->
                 IF k = 0 THEN LoopStart ELSE readCell(after[k - 1], m[p + k - 1])]
  BY <1>4, Zenon
<1>6. \A k \in 0 .. n :
        after[k] = IF k = 0 THEN LoopStart ELSE readCell(after[k - 1], m[p + k - 1])
  BY <1>5
<1>7. decodeVarints(m, p, n) = after[n]
  BY DEF decodeVarints
<1>. HIDE DEF after
<1>. DEFINE S == {k \in 0 .. n : after[k] = t[k]}
<1>8. 0 .. n \subseteq S
  <2>1. 0 \in S
    BY <1>3, <1>6
  <2>2. ASSUME NEW i \in 0 .. (n - 1), i \in S
        PROVE  i + 1 \in S
    <3>1. i + 1 \in 0 .. n /\ (i + 1) - 1 = i /\ i + 1 # 0
      OBVIOUS
    <3>2. t[i + 1] = readCell(t[i], m[p + (i + 1) - 1])
      BY <1>3, <3>1
    <3>3. after[i + 1] = readCell(after[i], m[p + (i + 1) - 1])
      BY <1>6, <3>1
    <3>. QED  BY <2>2, <3>1, <3>2, <3>3
  <2>. HIDE DEF S
  <2>. QED  BY <2>1, <2>2, UpTo
<1>9. decodeVarints(m, p, n) = t[n]
  BY <1>7, <1>8
<1>. QED  BY <1>2, <1>9

\* One more cell is one more step of the loop; the cells before it count alone.
LEMMA LoopNext ==
  ASSUME NEW m, NEW o, NEW p \in Nat, NEW n \in Nat, NumbersAt(m, p, n + 1),
         SameCells(m, o, p, n)
  PROVE  /\ decodeVarints(m, p, n + 1) = readCell(decodeVarints(o, p, n), m[p + n])
         /\ decodeVarints(o, p, n) = decodeVarints(m, p, n)
         /\ decodeVarints(o, p, n) \in LoopStates
<1>. DEFINE sm == LoopSteps(m, p, n + 1)
            so == LoopSteps(o, p, n)
            sn == LoopSteps(m, p, n)
<1>0. /\ n + 1 \in Nat /\ n <= n + 1 /\ n <= n /\ n \in 0 .. n /\ n \in 0 .. (n + 1)
      /\ n + 1 \in 1 .. (n + 1) /\ (n + 1) - 1 = n /\ p + (n + 1) - 1 = p + n
  OBVIOUS
<1>1. NumbersAt(o, p, n) /\ NumbersAt(m, p, n)
  <2>1. \A i \in 1 .. n : i \in 1 .. (n + 1)
    OBVIOUS
  <2>. QED  BY <2>1 DEF NumbersAt, SameCells
<1>2. PICK t : IsRecursive(t, n + 1, LoopStates, LoopStart, sm) /\ decodeVarints(m, p, n + 1) = t[n + 1]
  BY <1>0, LoopDef
<1>3. PICK u : IsRecursive(u, n, LoopStates, LoopStart, so) /\ decodeVarints(o, p, n) = u[n]
  BY <1>1, LoopDef
<1>4. PICK w : IsRecursive(w, n, LoopStates, LoopStart, sn) /\ decodeVarints(m, p, n) = w[n]
  BY <1>1, LoopDef
<1>5. SameSteps(sm, so, LoopStates, n) /\ SameSteps(sn, so, LoopStates, n)
  <2>. SUFFICES ASSUME NEW i \in 1 .. n, NEW v \in LoopStates
                PROVE  sm[<<v, i>>] = so[<<v, i>>] /\ sn[<<v, i>>] = so[<<v, i>>]
    BY DEF SameSteps
  <2>1. i \in 1 .. (n + 1) /\ i \in Nat /\ o[p + i - 1] = m[p + i - 1]
    BY DEF SameCells
  <2>2. sm[<<v, i>>] = readCell(v, m[p + i - 1])
    BY <2>1 DEF LoopSteps
  <2>3. so[<<v, i>>] = readCell(v, o[p + i - 1]) /\ sn[<<v, i>>] = readCell(v, m[p + i - 1])
    BY <2>1 DEF LoopSteps
  <2>. QED  BY <2>1, <2>2, <2>3
<1>6. t[n] = u[n] /\ w[n] = u[n]
  <2>. HIDE DEF sm, so, sn
  <2>1. PICK k \in Nat : k = n + 1
    BY <1>0
  <2>2. IsRecursive(t, k, LoopStates, LoopStart, sm) /\ n <= k
    BY <1>0, <1>2, <2>1
  <2>3. \A i \in 0 .. n : t[i] = u[i]
    BY <1>3, <1>5, <2>2, RecursiveAgree
  <2>4. \A i \in 0 .. n : w[i] = u[i]
    BY <1>0, <1>3, <1>4, <1>5, RecursiveAgree
  <2>. QED  BY <1>0, <2>3, <2>4
<1>7. t[n + 1] = sm[<<t[n], n + 1>>] /\ t[n] \in LoopStates
  <2>. HIDE DEF sm
  <2>. QED  BY <1>0, <1>2 DEF IsRecursive
<1>8. sm[<<t[n], n + 1>>] = readCell(t[n], m[p + n])
  BY <1>0, <1>7 DEF LoopSteps
<1>. QED  BY <1>2, <1>3, <1>4, <1>6, <1>7, <1>8

\* Before it has read a cell the loop is where it starts.
LEMMA LoopEmpty == ASSUME NEW m, NEW p \in Nat PROVE decodeVarints(m, p, 0) = LoopStart
<1>1. 0 \in Nat /\ NumbersAt(m, p, 0)
  BY DEF NumbersAt
<1>2. PICK t : /\ IsRecursive(t, 0, LoopStates, LoopStart, LoopSteps(m, p, 0))
               /\ decodeVarints(m, p, 0) = t[0]
  BY <1>1, LoopDef
<1>. QED  BY <1>2 DEF IsRecursive

\* The loop depends on the cells it reads alone.
LEMMA LoopLocal ==
  ASSUME NEW m, NEW o, NEW p \in Nat, NEW n \in Nat, NumbersAt(m, p, n),
         SameCells(m, o, p, n)
  PROVE  decodeVarints(o, p, n) = decodeVarints(m, p, n) /\ decodeVarints(m, p, n) \in LoopStates
<1>1. CASE n = 0
  BY <1>1, LoopEmpty, LoopStartType
<1>2. CASE n # 0
  <2>1. PICK k \in Nat : n = k + 1
    <3>1. n - 1 \in Nat /\ n = (n - 1) + 1
      BY <1>2
    <3>. QED  BY <3>1
  <2>2. NumbersAt(m, p, k + 1) /\ NumbersAt(o, p, k + 1)
    BY <2>1 DEF NumbersAt, SameCells
  <2>3. SameCells(m, o, p, k) /\ SameCells(o, o, p, k) /\ o[p + k] = m[p + k] /\ m[p + k] \in Nat
    <3>1. k + 1 \in 1 .. n /\ p + (k + 1) - 1 = p + k
      BY <2>1
    <3>2. \A i \in 1 .. k : i \in 1 .. n
      BY <2>1
    <3>. QED  BY <3>1, <3>2 DEF NumbersAt, SameCells
  <2>4. /\ decodeVarints(m, p, k + 1) = readCell(decodeVarints(o, p, k), m[p + k])
        /\ decodeVarints(o, p, k) \in LoopStates
    BY <2>2, <2>3, LoopNext
  <2>5. decodeVarints(o, p, k + 1) = readCell(decodeVarints(o, p, k), o[p + k])
    BY <2>2, <2>3, LoopNext
  <2>. QED  BY <2>1, <2>3, <2>4, <2>5, ReadCellType
<1>. QED  BY <1>1, <1>2

\* Division with remainder.
LEMMA DivMod ==
  ASSUME NEW a \in Nat, NEW b \in Nat, b > 0
  PROVE  /\ a \div b \in Nat /\ a % b \in 0 .. (b - 1)
         /\ a = b * (a \div b) + (a % b)
OBVIOUS

\* ... and its remainder is the only number below b that fits.
LEMMA ModUnique ==
  ASSUME NEW r \in Nat, NEW b \in Nat, r < b, NEW q \in {0, 1}
  PROVE  (b * q + r) % b = r
<1>. DEFINE a == b * q + r
<1>1. PICK d \in Nat, e \in 0 .. (b - 1) : d = a \div b /\ e = a % b /\ a = b * d + e
  BY DivMod
<1>2. b * (q - d) = e - r
  BY <1>1
<1>3. q - d \in Int /\ e - r < b /\ e - r > 0 - b
  BY <1>1
<1>4. q - d = 0
  <2>1. CASE q - d >= 1
    <3>1. b * (q - d) >= b
      BY <2>1, <1>3
    <3>. QED  BY <3>1, <1>2, <1>3
  <2>2. CASE q - d <= 0 - 1
    <3>1. b * (q - d) <= 0 - b
      BY <2>2, <1>3
    <3>. QED  BY <3>1, <1>2, <1>3
  <2>. QED  BY <1>3, <2>1, <2>2
<1>. QED  BY <1>1, <1>2, <1>4

\* The bytes of a varint: the last one is a digit, the others have Radix added.
LEMMA LastByte ==
  ASSUME NEW x \in Nat, x < Radix
  PROVE  x % Radix = x /\ x % (2 * Radix) = x
<1>. USE DataSegmentAssumption
<1>1. 2 * Radix \in Nat /\ x < 2 * Radix
  OBVIOUS
<1>. QED  BY <1>1

\* A byte that is not the last of its varint: its low part is a digit, and the
\* number is what is left of it, one digit further up, and that digit.
LEMMA MoreByte ==
  ASSUME NEW x \in Nat
  PROVE  /\ Low(x) \in Nat /\ x % Radix \in Nat /\ x % Radix < Radix
         /\ Low(x) % Radix = x % Radix /\ Low(x) % (2 * Radix) >= Radix
         /\ High(x) \in Nat /\ x = Radix * High(x) + (x % Radix)
<1>. USE DataSegmentAssumption
<1>1. x % Radix \in 0 .. (Radix - 1) /\ High(x) \in Nat /\ x = Radix * High(x) + (x % Radix)
  BY DivMod, Radix > 0 DEF High
<1>2. PICK d \in Nat : d = x % Radix /\ d < Radix
  BY <1>1
<1>3. Low(x) = Radix * 1 + d
  BY <1>2 DEF Low
<1>4. Low(x) % Radix = d
  BY <1>2, <1>3, ModUnique
<1>5. Low(x) % (2 * Radix) = Low(x)
  <2>1. Low(x) \in Nat /\ Low(x) < 2 * Radix /\ 2 * Radix \in Nat
    BY <1>2, <1>3
  <2>. HIDE DEF Low
  <2>. QED  BY <2>1
<1>. QED  BY <1>1, <1>2, <1>3, <1>4, <1>5

AtVarint(s) == s.val = 0 /\ s.place = 1 /\ ~s.done

\* r is what the loop makes of s with the end of a varint whose value is x.
Ends(s, r, x) ==
  /\ x = Sentinel /\ s.prev = Sentinel => r.done /\ r.vals = s.vals
  /\ ~(x = Sentinel /\ s.prev = Sentinel) =>
       /\ AtVarint(r) /\ r.prev = x
       /\ r.vals = IF x = Sentinel THEN s.vals ELSE Append(s.vals, x)

\* The last byte of a varint ends it.
LEMMA ReadLast ==
  ASSUME NEW s \in LoopStates, NEW cell, ~s.done, ~(cell % (2 * Radix) >= Radix)
  PROVE  Ends(s, readCell(s, cell), s.val + (cell % Radix) * s.place)
<1>1. PICK sum : sum = s.val + (cell % Radix) * s.place
  OBVIOUS
<1>2. readCell(s, cell) =
          IF sum = Sentinel /\ s.prev = Sentinel THEN [s EXCEPT !.done = TRUE]
          ELSE [vals  |-> IF sum = Sentinel THEN s.vals ELSE Append(s.vals, sum),
                prev  |-> sum, val |-> 0, place |-> 1, done |-> FALSE]
  BY <1>1 DEF readCell
<1>3. Ends(s, readCell(s, cell), sum)
  BY <1>2 DEF Ends, AtVarint, LoopStates
<1>. QED  BY <1>1, <1>3

\* A byte before the last adds its digit and goes on at the next place.
LEMMA ReadMore ==
  ASSUME NEW s \in LoopStates, NEW cell, ~s.done, cell % (2 * Radix) >= Radix
  PROVE  LET r == readCell(s, cell) IN
         /\ ~r.done /\ r.prev = s.prev /\ r.vals = s.vals
         /\ r.val = s.val + (cell % Radix) * s.place /\ r.place = s.place * Radix
<1>1. readCell(s, cell) =
        [s EXCEPT !.val = s.val + (cell % Radix) * s.place, !.place = s.place * Radix]
  BY DEF readCell
<1>. QED  BY <1>1 DEF LoopStates

\* A loop that is done stays as it is.
LEMMA DoneStays ==
  ASSUME NEW m, NEW p \in Nat, NEW n \in Nat, NEW l \in Nat, n <= l,
         NumbersAt(m, p, l), decodeVarints(m, p, n).done
  PROVE  decodeVarints(m, p, l) = decodeVarints(m, p, n)
<1>0. PICK k \in Nat : l = n + k
  <2>1. l - n \in Nat /\ l = n + (l - n)
    OBVIOUS
  <2>. QED  BY <2>1
<1>. DEFINE S == {j \in 0 .. k : decodeVarints(m, p, n + j) = decodeVarints(m, p, n)}
<1>1. 0 \in S
  OBVIOUS
<1>2. ASSUME NEW j \in 0 .. (k - 1), j \in S
      PROVE  j + 1 \in S
  <2>1. PICK i \in Nat : i = n + j /\ i + 1 = n + (j + 1) /\ i + 1 <= n + k
    OBVIOUS
  <2>2. NumbersAt(m, p, i + 1) /\ SameCells(m, m, p, i)
    <3>1. \A c \in 1 .. (i + 1) : c \in 1 .. l
      BY <1>0, <2>1
    <3>. QED  BY <3>1 DEF NumbersAt, SameCells
  <2>3. decodeVarints(m, p, i + 1) = readCell(decodeVarints(m, p, i), m[p + i])
    BY <2>2, LoopNext
  <2>4. decodeVarints(m, p, i) = decodeVarints(m, p, n)
    BY <1>2, <2>1
  <2>5. readCell(decodeVarints(m, p, i), m[p + i]) = decodeVarints(m, p, n)
    BY <2>4 DEF readCell
  <2>. QED  BY <2>1, <2>3, <2>5
<1>3. 0 .. k \subseteq S
  <2>. HIDE DEF S
  <2>. QED  BY <1>1, <1>2, UpTo
<1>. QED  BY <1>0, <1>3

\* The cells from p on hold the varint of val.
HoldsVarint(m, p, val) ==
  \A j \in 1 .. EncodeVarintSize[val] : m[p + j - 1] = EncodeVarint[val][j]

\* What the loop makes of a varint whose first digits it has read.
LEMMA VarintRead ==
  ASSUME NEW m, NEW p \in Nat, NEW val \in Nat, NEW n \in Nat,
         NumbersAt(m, p, n + EncodeVarintSize[val]), HoldsVarint(m, p + n, val),
         ~decodeVarints(m, p, n).done
  PROVE  LET s == decodeVarints(m, p, n)
         IN  Ends(s, decodeVarints(m, p, n + EncodeVarintSize[val]), s.val + val * s.place)
<1>. USE DataSegmentAssumption
<1>. DEFINE S(k) == decodeVarints(m, p, k)
            Bad(v, k) == /\ NumbersAt(m, p, k + EncodeVarintSize[v])
                         /\ HoldsVarint(m, p + k, v) /\ ~S(k).done
                         /\ ~Ends(S(k), S(k + EncodeVarintSize[v]), S(k).val + v * S(k).place)
            X == {v \in Nat : \E k \in Nat : Bad(v, k)}
<1>. SUFFICES ASSUME X # {}
              PROVE  FALSE
  <2>1. Bad(val, n) => val \in X
    OBVIOUS
  <2>. QED  BY <2>1
<1>1. PICK x \in X : \A y \in X : x <= y
  <2>1. X \subseteq Nat
    OBVIOUS
  <2>. HIDE DEF X
  <2>. QED  BY <2>1, MinExists
<1>2. x \in Nat /\ \E k \in Nat : Bad(x, k)
  <2>. HIDE DEF Bad
  <2>. QED  BY <1>1
<1>3. PICK k \in Nat : Bad(x, k)
  BY <1>2
<1>4. /\ EncodeVarint[x] = IF x < Radix THEN <<x>> ELSE <<Low(x)>> \o EncodeVarint[High(x)]
      /\ EncodeVarintSize[x] = IF x < Radix THEN 1 ELSE 1 + EncodeVarintSize[High(x)]
      /\ EncodeVarintSize[x] \in Nat
  BY <1>2, EncodeVarintDef, EncodeVarintSizeDef
<1>5. High(x) \in Nat /\ EncodeVarint[High(x)] \in Seq(Nat) /\ EncodeVarintSize[High(x)] \in Nat
  BY <1>2, MoreByte, EncodeVarintDef, EncodeVarintSizeDef
<1>6. EncodeVarintSize[x] >= 1 /\ 1 \in 1 .. EncodeVarintSize[x]
  BY <1>4, <1>5
<1>7. NumbersAt(m, p, k + 1) /\ SameCells(m, m, p, k)
  <2>1. \A i \in 1 .. (k + 1) : i \in 1 .. (k + EncodeVarintSize[x])
    BY <1>4, <1>6
  <2>. QED  BY <1>3, <2>1 DEF NumbersAt, SameCells
<1>8. S(k + 1) = readCell(S(k), m[p + k]) /\ S(k) \in LoopStates
  BY <1>7, LoopNext
<1>9. m[p + k] = EncodeVarint[x][1]
  <2>1. (p + k) + 1 - 1 = p + k
    OBVIOUS
  <2>. QED  BY <1>3, <1>6, <2>1 DEF HoldsVarint
<1>10. ~S(k).done
  BY <1>3
<1>11. S(k).val \in Nat /\ S(k).place \in Nat
  BY <1>8 DEF LoopStates
<1>12. CASE x < Radix
  <2>1. m[p + k] = x /\ EncodeVarintSize[x] = 1
    BY <1>4, <1>9, <1>12
  <2>2. x % Radix = x /\ ~(x % (2 * Radix) >= Radix)
    BY <1>2, <1>12, LastByte
  <2>. HIDE DEF S, Bad
  <2>3. Ends(S(k), S(k + 1), S(k).val + x * S(k).place)
    BY <1>8, <1>10, <2>1, <2>2, ReadLast
  <2>. QED  BY <1>3, <2>1, <2>3 DEF Bad
<1>13. CASE ~(x < Radix)
  <2>1. PICK h \in Nat, d \in Nat :
          /\ h = High(x) /\ d = x % Radix /\ x = Radix * h + d /\ h < x
    <3>1. High(x) < x
      BY <1>2, <1>13, Digits
    <3>. QED  BY <1>2, <3>1, MoreByte
  <2>2. /\ EncodeVarintSize[x] = 1 + EncodeVarintSize[h] /\ EncodeVarintSize[h] \in Nat
        /\ EncodeVarint[x] = <<Low(x)>> \o EncodeVarint[h]
    BY <1>4, <1>5, <1>13, <2>1
  <2>3. (k + 1) + EncodeVarintSize[h] = k + EncodeVarintSize[x]
    <3>1. PICK e \in Nat : e = EncodeVarintSize[h]
      BY <2>2
    <3>2. (k + 1) + e = k + (1 + e)
      OBVIOUS
    <3>. QED  BY <2>2, <3>1, <3>2
  <2>4. Low(x) \in Nat /\ Low(x) % Radix = d /\ Low(x) % (2 * Radix) >= Radix
    BY <1>2, <2>1, MoreByte
  <2>5. m[p + k] = Low(x)
    <3>. HIDE DEF Low
    <3>. QED  BY <1>5, <1>9, <2>1, <2>2, <2>4
  <2>6. NumbersAt(m, p, (k + 1) + EncodeVarintSize[h]) /\ k + 1 \in Nat
    <3>1. (k + 1) + EncodeVarintSize[h] = k + EncodeVarintSize[x]
      BY <2>3
    <3>. QED  BY <1>3, <3>1
  <2>7. HoldsVarint(m, p + (k + 1), h)
    <3>. SUFFICES ASSUME NEW j \in 1 .. EncodeVarintSize[h]
                  PROVE  m[p + (k + 1) + j - 1] = EncodeVarint[h][j]
      BY DEF HoldsVarint
    <3>1. j + 1 \in 1 .. EncodeVarintSize[x] /\ p + k + (j + 1) - 1 = p + (k + 1) + j - 1
      <4>1. PICK e \in Nat : e = EncodeVarintSize[h] /\ EncodeVarintSize[x] = 1 + e
        BY <2>2
      <4>2. j \in Nat /\ j >= 1 /\ j <= e
        BY <4>1
      <4>3. j + 1 \in 1 .. (1 + e)
        BY <4>2
      <4>4. p + k + (j + 1) - 1 = p + (k + 1) + j - 1
        BY <4>2
      <4>. QED  BY <4>1, <4>3, <4>4
    <3>2. m[p + k + (j + 1) - 1] = EncodeVarint[x][j + 1]
      BY <1>3, <3>1 DEF HoldsVarint
    <3>3. Len(EncodeVarint[h]) = EncodeVarintSize[h] /\ EncodeVarint[h] \in Seq(Nat)
      BY <1>5, <2>1, VarintSize
    <3>4. (<<Low(x)>> \o EncodeVarint[h])[j + 1] = EncodeVarint[h][j]
      <4>1. PICK e \in Seq(Nat) : e = EncodeVarint[h]
        BY <3>3
      <4>2. PICK l \in Nat : l = Low(x)
        BY <2>4
      <4>3. j \in 1 .. Len(e)
        BY <3>3, <4>1
      <4>4. (<<l>> \o e)[j + 1] = e[j]
        BY <4>3, ElementBehind
      <4>. QED  BY <4>1, <4>2, <4>4
    <3>. QED  BY <2>2, <3>1, <3>2, <3>4
  <2>8. /\ ~S(k + 1).done /\ S(k + 1).prev = S(k).prev /\ S(k + 1).vals = S(k).vals
        /\ S(k + 1).val = S(k).val + d * S(k).place /\ S(k + 1).place = S(k).place * Radix
    <3>. HIDE DEF S, Bad
    <3>. QED  BY <1>8, <1>10, <2>4, <2>5, ReadMore
  <2>9. ~Bad(h, k + 1)
    <3>1. h \notin X
      <4>. HIDE DEF X
      <4>. QED  BY <1>1, <1>2, <2>1
    <3>. QED  BY <2>1, <2>6, <3>1
  <2>10. Ends(S(k + 1), S((k + 1) + EncodeVarintSize[h]), S(k + 1).val + h * S(k + 1).place)
    BY <2>6, <2>7, <2>8, <2>9
  <2>11. S(k + 1).val + h * S(k + 1).place = S(k).val + x * S(k).place
    <3>1. PICK a \in Nat, b \in Nat : a = S(k).val /\ b = S(k).place
      BY <1>11
    <3>2. (a + d * b) + h * (b * Radix) = a + (Radix * h + d) * b
      OBVIOUS
    <3>. QED  BY <2>1, <2>8, <3>1, <3>2
  <2>12. Ends(S(k), S(k + EncodeVarintSize[x]), S(k).val + x * S(k).place)
    <3>. HIDE DEF S, Bad
    <3>1. Ends(S(k + 1), S(k + EncodeVarintSize[x]), S(k).val + x * S(k).place)
      BY <2>10, <2>3, <2>11
    <3>. QED  BY <2>8, <3>1 DEF Ends
  <2>. QED  BY <1>3, <2>12
<1>. QED  BY <1>12, <1>13

\* The powers of Radix: the place of the digit behind n others.
Place[n \in Nat] == IF n = 0 THEN 1 ELSE Radix * Place[n - 1]

\* What the definition of Place means.
LEMMA PlaceDef ==
  /\ Place \in [Nat -> Nat] /\ Place[0] = 1
  /\ \A n \in Nat : Place[n + 1] = Radix * Place[n]
<1>. USE DataSegmentAssumption
<1>. DEFINE base == [n \in Nat |-> 1]
            prev == [n \in Nat |-> IF n = 0 THEN 0 ELSE n - 1]
            step == [q \in Nat \X Nat |-> Radix * q[2]]
<1>1. base \in [Nat -> Nat] /\ prev \in [Nat -> Nat]
  OBVIOUS
<1>2. step \in [Nat \X Nat -> Nat]
  BY TimesNat
<1>3. Descends(prev, {0})
  BY DEF Descends
<1>4. PICK f \in [Nat -> Nat] : Unfolds(f, Nat, {0}, base, prev, step)
  <2>. HIDE DEF base, prev, step
  <2>. QED  BY <1>1, <1>2, <1>3, CourseOfValues
<1>5. ASSUME NEW n \in Nat
      PROVE  f[n] = IF n = 0 THEN 1 ELSE Radix * f[n - 1]
  <2>1. CASE n = 0
    BY <1>4, <2>1 DEF Unfolds
  <2>2. CASE n # 0
    <3>1. n - 1 \in Nat /\ prev[n] = n - 1
      BY <2>2
    <3>2. f[n - 1] \in Nat
      BY <3>1
    <3>3. f[n] = step[<<n, f[prev[n]]>>]
      BY <1>4, <2>2 DEF Unfolds
    <3>4. step[<<n, f[n - 1]>>] = Radix * f[n - 1]
      BY <3>2
    <3>. QED  BY <2>2, <3>1, <3>3, <3>4
  <2>. QED  BY <2>1, <2>2
<1>6. f = [n \in Nat |-> IF n = 0 THEN 1 ELSE Radix * f[n - 1]]
  BY <1>5
<1>7. Place = [n \in Nat |-> IF n = 0 THEN 1 ELSE Radix * Place[n - 1]]
  BY <1>6, Zenon DEF Place
<1>8. Place[0] = 1
  BY <1>7
<1>9. ASSUME NEW n \in Nat
      PROVE  Place[n + 1] = Radix * Place[n]
  <2>1. n + 1 \in Nat /\ n + 1 # 0 /\ (n + 1) - 1 = n
    OBVIOUS
  <2>2. Place[n + 1] = IF n + 1 = 0 THEN 1 ELSE Radix * Place[(n + 1) - 1]
    BY <1>7, <2>1
  <2>. QED  BY <2>1, <2>2
<1>10. ASSUME NEW n \in Nat
       PROVE  Place[n] \in Nat
  <2>. DEFINE S == {i \in 0 .. n : Place[i] \in Nat}
  <2>1. 0 \in S
    BY <1>8
  <2>2. ASSUME NEW i \in 0 .. (n - 1), i \in S
        PROVE  i + 1 \in S
    <3>1. i \in Nat /\ i + 1 \in 0 .. n /\ Place[i] \in Nat
      BY <2>2
    <3>2. Place[i + 1] \in Nat
      BY <1>9, <3>1, TimesNat
    <3>. QED  BY <3>1, <3>2
  <2>3. 0 .. n \subseteq S
    <3>. HIDE DEF S
    <3>. QED  BY <2>1, <2>2, UpTo
  <2>. QED  BY <2>3
<1>. QED  BY <1>7, <1>8, <1>9, <1>10

\* A product grows with its factors.
LEMMA TimesMonotone ==
  ASSUME NEW r \in Nat, NEW a \in Nat, NEW b \in Nat, a <= b
  PROVE  r * a <= r * b
<1>1. PICK c \in Nat : b = a + c
  <2>1. b - a \in Nat /\ b = a + (b - a)
    OBVIOUS
  <2>. QED  BY <2>1
<1>2. r * b = r * a + r * c /\ r * c \in Nat /\ r * a \in Nat
  BY <1>1, TimesNat
<1>. QED  BY <1>2

\* Powers grow.
LEMMA PlaceGrows ==
  ASSUME NEW n \in Nat, NEW k \in 0 .. n
  PROVE  Place[k] >= 1 /\ Place[k] <= Place[n]
<1>. USE DataSegmentAssumption
<1>1. ASSUME NEW i \in Nat
      PROVE  Place[i] <= Place[i + 1] /\ Place[i] \in Nat /\ Place[i + 1] \in Nat
  <2>1. Place[i + 1] = Radix * Place[i] /\ Place[i] \in Nat
    BY PlaceDef
  <2>2. PICK a \in Nat : a = Place[i]
    BY <2>1
  <2>3. PICK c \in Nat : Radix = c + 1
    <3>1. Radix - 1 \in Nat /\ Radix = (Radix - 1) + 1
      OBVIOUS
    <3>. QED  BY <3>1
  <2>4. c * a \in Nat /\ (c + 1) * a = c * a + a
    BY TimesNat
  <2>. QED  BY <2>1, <2>2, <2>3, <2>4
<1>2. Place[0] = 1 /\ Place[k] \in Nat
  BY PlaceDef
<1>. DEFINE S == {i \in 0 .. n : Place[i] >= 1 /\ (i >= k => Place[k] <= Place[i])}
<1>3. 0 \in S
  BY <1>2
<1>4. ASSUME NEW i \in 0 .. (n - 1), i \in S
      PROVE  i + 1 \in S
  <2>1. i \in Nat /\ i + 1 \in 0 .. n
    OBVIOUS
  <2>2. Place[i] <= Place[i + 1] /\ Place[i] \in Nat /\ Place[i + 1] \in Nat
    BY <1>1, <2>1
  <2>3. i + 1 >= k => i >= k \/ i + 1 = k
    BY <2>1
  <2>. QED  BY <1>2, <1>4, <2>1, <2>2, <2>3
<1>5. 0 .. n \subseteq S
  <2>. HIDE DEF S
  <2>. QED  BY <1>3, <1>4, UpTo
<1>6. k \in S /\ n \in S
  <2>1. n \in 0 .. n
    OBVIOUS
  <2>. HIDE DEF S
  <2>. QED  BY <1>5, <2>1
<1>. QED  BY <1>6

\* A number has no more digits than it needs.
LEMMA VarintLeast ==
  ASSUME NEW val \in Nat \ {0}
  PROVE  EncodeVarintSize[val] - 1 \in Nat /\ Place[EncodeVarintSize[val] - 1] <= val
<1>. USE DataSegmentAssumption
<1>. DEFINE Good(v) == EncodeVarintSize[v] - 1 \in Nat /\ Place[EncodeVarintSize[v] - 1] <= v
            X == {v \in Nat \ {0} : ~Good(v)}
<1>. SUFFICES ASSUME X # {}
              PROVE  FALSE
  OBVIOUS
<1>1. PICK x \in X : \A y \in X : x <= y
  <2>1. X \subseteq Nat
    OBVIOUS
  <2>. HIDE DEF X
  <2>. QED  BY <2>1, MinExists
<1>2. x \in Nat \ {0} /\ ~Good(x)
  <2>. HIDE DEF Good
  <2>. QED  BY <1>1
<1>3. EncodeVarintSize[x] = IF x < Radix THEN 1 ELSE 1 + EncodeVarintSize[High(x)]
  BY <1>2, EncodeVarintSizeDef
<1>4. ~(x < Radix)
  BY <1>2, <1>3, PlaceDef
<1>5. PICK h \in Nat, d \in Nat :
        /\ h = High(x) /\ d = x % Radix /\ x = Radix * h + d /\ d < Radix /\ h < x
  <2>1. High(x) < x
    BY <1>2, <1>4, Digits
  <2>. QED  BY <1>2, <2>1, MoreByte
<1>6. h # 0
  <2>. SUFFICES ASSUME h = 0 PROVE FALSE
    OBVIOUS
  <2>1. Radix * h = 0
    OBVIOUS
  <2>. QED  BY <1>2, <1>4, <1>5, <2>1
<1>7. Good(h)
  <2>1. h \notin X
    <3>. HIDE DEF X
    <3>. QED  BY <1>1, <1>2, <1>5
  <2>. HIDE DEF Good
  <2>. QED  BY <1>5, <1>6, <2>1
<1>8. PICK c \in Nat : c = EncodeVarintSize[h] - 1 /\ Place[c] <= h
  BY <1>7
<1>9. EncodeVarintSize[h] \in Nat
  BY EncodeVarintSizeDef
<1>10. EncodeVarintSize[x] = c + 2
  <2>1. EncodeVarintSize[x] = 1 + EncodeVarintSize[h]
    BY <1>3, <1>4, <1>5
  <2>2. PICK e \in Nat : e = EncodeVarintSize[h]
    BY <1>9
  <2>3. 1 + e = c + 2
    BY <1>8, <2>2
  <2>. QED  BY <2>1, <2>2, <2>3
<1>11. Place[c + 1] = Radix * Place[c] /\ Place[c] \in Nat
  BY PlaceDef
<1>12. Radix * Place[c] <= Radix * h
  BY <1>8, <1>11, TimesMonotone
<1>13. Radix * h <= x
  BY <1>5, TimesNat
<1>14. Radix * Place[c] \in Nat /\ Radix * h \in Nat
  BY <1>11, TimesNat
<1>15. Place[c + 1] <= x /\ c + 1 = EncodeVarintSize[x] - 1 /\ c + 1 \in Nat
  BY <1>2, <1>10, <1>11, <1>12, <1>13, <1>14
<1>. QED  BY <1>2, <1>15

\* With one digit more a number stays below the place of the digit behind it.
LEMMA DigitBound ==
  ASSUME NEW v \in Nat, NEW pl \in Nat, NEW d \in Nat, v < pl, d < Radix
  PROVE  v + d * pl < pl * Radix
<1>. USE DataSegmentAssumption
<1>1. PICK c \in Nat : Radix = d + 1 + c
  <2>1. Radix - 1 - d \in Nat /\ Radix = d + 1 + (Radix - 1 - d)
    OBVIOUS
  <2>. QED  BY <2>1
<1>2. pl * Radix = d * pl + pl + c * pl /\ d * pl \in Nat /\ c * pl \in Nat
  BY <1>1, TimesNat
<1>. QED  BY <1>2

\* When all but the second sentinel is in the segment, which then is full, the
\* decoder reads whatever cells are in the place of the sentinel: it does not take
\* them for another value and two sentinels, for which they are too few.
LEMMA CutSentinel ==
  ASSUME NEW m, NEW p \in Nat, NEW n \in Nat,
         NumbersAt(m, p, n + EncodeVarintSize[Sentinel]),
         AtVarint(decodeVarints(m, p, n)), decodeVarints(m, p, n).prev = Sentinel,
         decodeVarints(m, p, n + EncodeVarintSize[Sentinel]).done
  PROVE  decodeVarints(m, p, n + EncodeVarintSize[Sentinel]).vals = decodeVarints(m, p, n).vals
<1>. USE DataSegmentAssumption
<1>. DEFINE z == EncodeVarintSize[Sentinel]
            R(c) == decodeVarints(m, p, n + c)
            Q(r, c) == /\ r.done => r.vals = R(0).vals
                       /\ ~r.done => /\ r.val < r.place
                                     /\ r.prev = Sentinel => r.vals = R(0).vals
                                     /\ r.prev # Sentinel => c >= 1 /\ r.place <= Place[c - 1]
            S == {c \in 0 .. z : Q(R(c), c)}
<1>0. z \in Nat /\ z - 1 \in Nat /\ Place[z - 1] <= Sentinel
  <2>1. Sentinel \in Nat \ {0}
    OBVIOUS
  <2>. QED  BY <2>1, VarintLeast, EncodeVarintSizeDef
<1>1. R(0) = decodeVarints(m, p, n)
  OBVIOUS
<1>2. 0 \in S
  BY <1>0, <1>1 DEF AtVarint
<1>3. ASSUME NEW c \in 0 .. (z - 1), c \in S
      PROVE  c + 1 \in S
  <2>1. PICK i \in Nat : i = n + c /\ i + 1 = n + (c + 1) /\ i + 1 <= n + z
    BY <1>0
  <2>2. NumbersAt(m, p, i + 1) /\ SameCells(m, m, p, i) /\ m[p + i] \in Nat
    <3>1. \A j \in 1 .. (i + 1) : j \in 1 .. (n + z)
      BY <1>0, <2>1
    <3>2. NumbersAt(m, p, i + 1)
      BY <3>1 DEF NumbersAt
    <3>3. i + 1 \in 1 .. (i + 1) /\ p + (i + 1) - 1 = p + i
      OBVIOUS
    <3>4. m[p + i] \in Nat
      BY <3>2, <3>3 DEF NumbersAt
    <3>. QED  BY <3>2, <3>4 DEF SameCells
  <2>3. R(c + 1) = readCell(R(c), m[p + i]) /\ R(c) \in LoopStates
    BY <2>1, <2>2, LoopNext
  <2>4. /\ R(c) \in LoopStates /\ m[p + i] \in Nat
        /\ R(c + 1) = readCell(R(c), m[p + i])
    BY <2>2, <2>3
  <2>5. PICK r \in LoopStates, cell \in Nat : r = R(c) /\ cell = m[p + i]
    BY <2>4
  <2>6. PICK t : t = R(c + 1)
    OBVIOUS
  <2>7. t = readCell(r, cell) /\ Q(r, c)
    BY <1>3, <2>3, <2>5, <2>6
  <2>8. r.val \in Nat /\ r.place \in Nat /\ r.prev \in Nat
    BY DEF LoopStates
  <2>9. PICK d \in Nat : d = cell % Radix /\ d < Radix
    BY MoreByte
  <2>10. PICK vs : vs = R(0).vals
    OBVIOUS
  <2>11. /\ c \in Nat /\ c + 1 \in 0 .. z /\ (c + 1) - 1 = c
        /\ Place[c] \in Nat /\ Place[c] >= 1 /\ Place[c] <= Place[z - 1] /\ Place[z - 1] \in Nat
    <3>1. PICK y \in Nat : y = z - 1
      BY <1>0
    <3>2. c \in 0 .. y /\ c \in Nat /\ c + 1 \in 0 .. z /\ (c + 1) - 1 = c
      BY <1>0, <3>1
    <3>3. Place[c] >= 1 /\ Place[c] <= Place[y]
      BY <3>2, PlaceGrows
    <3>4. Place[c] \in Nat /\ Place[y] \in Nat
      BY <3>2, PlaceDef
    <3>. QED  BY <3>1, <3>2, <3>3, <3>4
  <2>12. r.prev # Sentinel /\ ~r.done => r.place * Radix <= Place[c]
    <3>. SUFFICES ASSUME r.prev # Sentinel, ~r.done
                  PROVE  r.place * Radix <= Place[c]
      OBVIOUS
    <3>1. c >= 1 /\ r.place <= Place[c - 1]
      BY <2>7
    <3>2. PICK k \in Nat : k = c - 1 /\ c = k + 1
      BY <2>11, <3>1
    <3>3. Place[c] = Radix * Place[k] /\ Place[k] \in Nat
      BY <3>2, PlaceDef
    <3>4. Radix * r.place <= Radix * Place[k]
      BY <2>8, <3>1, <3>2, <3>3, TimesMonotone
    <3>5. Radix * r.place = r.place * Radix
      BY <2>8
    <3>. QED  BY <3>3, <3>4, <3>5
  <2>. HIDE DEF R
  <2>13. CASE r.done
    <3>1. t = r
      BY <2>7, <2>13 DEF readCell
    <3>. QED  BY <2>5, <2>6, <2>7, <2>11, <2>13, <3>1
  <2>14. CASE ~r.done /\ cell % (2 * Radix) >= Radix
    <3>1. /\ ~t.done /\ t.prev = r.prev /\ t.vals = r.vals
          /\ t.val = r.val + d * r.place /\ t.place = r.place * Radix
      BY <2>7, <2>9, <2>14, ReadMore
    <3>2. t.val < t.place
      BY <2>7, <2>8, <2>9, <2>14, <3>1, DigitBound
    <3>. QED  BY <2>5, <2>6, <2>7, <2>11, <2>12, <2>14, <3>1, <3>2
  <2>15. CASE ~r.done /\ ~(cell % (2 * Radix) >= Radix)
    <3>1. PICK sum \in Nat : sum = r.val + d * r.place /\ sum < r.place * Radix
      <4>1. d * r.place \in Nat
        BY <2>8, TimesNat
      <4>2. r.val + d * r.place \in Nat
        BY <2>8, <4>1
      <4>3. r.val + d * r.place < r.place * Radix
        BY <2>7, <2>8, <2>9, <2>15, DigitBound
      <4>. QED  BY <4>2, <4>3
    <3>2. Ends(r, t, sum)
      BY <2>7, <2>9, <2>15, <3>1, ReadLast
    <3>3. sum = Sentinel => r.prev = Sentinel
      <4>. SUFFICES ASSUME sum = Sentinel, r.prev # Sentinel
                    PROVE  FALSE
        OBVIOUS
      <4>1. r.place * Radix <= Place[c] /\ r.place * Radix \in Nat
        BY <2>8, <2>12, <2>15, TimesNat
      <4>. QED  BY <1>0, <2>11, <3>1, <4>1
    <3>4. CASE sum = Sentinel
      BY <2>5, <2>6, <2>7, <2>10, <2>11, <2>15, <3>2, <3>3, <3>4 DEF Ends
    <3>5. CASE sum # Sentinel
      <4>1. AtVarint(t) /\ t.prev = sum
        BY <3>2, <3>5 DEF Ends
      <4>. QED  BY <2>5, <2>6, <2>11, <3>5, <4>1 DEF AtVarint
    <3>. QED  BY <3>4, <3>5
  <2>. QED  BY <2>13, <2>14, <2>15
<1>4. 0 .. z \subseteq S
  <2>. HIDE DEF S, z
  <2>. QED  BY <1>0, <1>2, <1>3, UpTo
<1>5. z \in S
  <2>1. z \in 0 .. z
    <3>. HIDE DEF z
    <3>. QED  BY <1>0
  <2>. HIDE DEF S
  <2>. QED  BY <1>4, <2>1
<1>. QED  BY <1>1, <1>5

-----------------------------------------------------------------------------
(***************************************************************************)
(* The sizes of the data                                                   *)
(***************************************************************************)

\* What the recursion of SumTo computes.
LEMMA SumToDef ==
  ASSUME NEW n \in Nat, NEW f, \A k \in 1 .. n : f[k] \in Nat
  PROVE  \E t : /\ IsRecursive(t, n, Nat, 0, [q \in Nat \X Nat |->
                        IF q[2] \in 1 .. n THEN q[1] + f[q[2]] ELSE 0])
                /\ SumTo(f, n) = t[n]
<1>. DEFINE step == [q \in Nat \X Nat |-> IF q[2] \in 1 .. n THEN q[1] + f[q[2]] ELSE 0]
            total[k \in 0 .. n] == IF k = 0 THEN 0 ELSE total[k - 1] + f[k]
<1>1. step \in [Nat \X Nat -> Nat]
  OBVIOUS
<1>2. PICK t : IsRecursive(t, n, Nat, 0, step)
  <2>. HIDE DEF step
  <2>. QED  BY <1>1, RecursiveFunction
<1>3. ASSUME NEW k \in 0 .. n
      PROVE  t[k] = IF k = 0 THEN 0 ELSE t[k - 1] + f[k]
  <2>1. CASE k = 0
    BY <1>2, <2>1 DEF IsRecursive
  <2>2. CASE k # 0
    <3>1. k \in 1 .. n /\ k - 1 \in 0 .. n /\ k \in Nat
      BY <2>2
    <3>2. t[k] = step[<<t[k - 1], k>>] /\ t[k - 1] \in Nat
      <4>. HIDE DEF step
      <4>. QED  BY <1>2, <3>1 DEF IsRecursive
    <3>. QED  BY <2>2, <3>1, <3>2
  <2>. QED  BY <2>1, <2>2
<1>4. t = [k \in 0 .. n |-> IF k = 0 THEN 0 ELSE t[k - 1] + f[k]]
  <2>1. t \in [0 .. n -> Nat]
    BY <1>2 DEF IsRecursive
  <2>. QED  BY <1>3, <2>1
<1>5. total = [k \in 0 .. n |-> IF k = 0 THEN 0 ELSE total[k - 1] + f[k]]
  BY <1>4, Zenon
<1>6. \A k \in 0 .. n : total[k] = IF k = 0 THEN 0 ELSE total[k - 1] + f[k]
  BY <1>5
<1>7. SumTo(f, n) = total[n]
  BY DEF SumTo
<1>. HIDE DEF total
<1>. DEFINE S == {k \in 0 .. n : total[k] = t[k]}
<1>8. 0 .. n \subseteq S
  <2>1. 0 \in S
    BY <1>3, <1>6
  <2>2. ASSUME NEW i \in 0 .. (n - 1), i \in S
        PROVE  i + 1 \in S
    <3>1. i + 1 \in 0 .. n /\ (i + 1) - 1 = i /\ i + 1 # 0
      OBVIOUS
    <3>. QED  BY <1>3, <1>6, <2>2, <3>1
  <2>. HIDE DEF S
  <2>. QED  BY <2>1, <2>2, UpTo
<1>9. SumTo(f, n) = t[n]
  BY <1>7, <1>8
<1>. HIDE DEF step
<1>10. IsRecursive(t, n, Nat, 0, step) /\ SumTo(f, n) = t[n]
  BY <1>2, <1>9
<1>. QED  BY <1>10 DEF step

\* The sum of nothing.
LEMMA SumToEmpty == ASSUME NEW f PROVE SumTo(f, 0) = 0
<1>1. 0 \in Nat /\ \A k \in 1 .. 0 : f[k] \in Nat
  OBVIOUS
<1>2. PICK t : /\ IsRecursive(t, 0, Nat, 0, [q \in Nat \X Nat |->
                        IF q[2] \in 1 .. 0 THEN q[1] + f[q[2]] ELSE 0])
               /\ SumTo(f, 0) = t[0]
  BY <1>1, SumToDef, Zenon
<1>. QED  BY <1>2 DEF IsRecursive

\* A sum depends on the numbers that are added alone.
LEMMA SumToStep ==
  ASSUME NEW n \in Nat, NEW f, NEW g, \A k \in 1 .. (n + 1) : f[k] \in Nat,
         \A k \in 1 .. n : g[k] = f[k]
  PROVE  /\ SumTo(f, n + 1) = SumTo(g, n) + f[n + 1]
         /\ SumTo(g, n) \in Nat /\ SumTo(f, n + 1) \in Nat
<1>. DEFINE sf == [q \in Nat \X Nat |-> IF q[2] \in 1 .. (n + 1) THEN q[1] + f[q[2]] ELSE 0]
            sg == [q \in Nat \X Nat |-> IF q[2] \in 1 .. n THEN q[1] + g[q[2]] ELSE 0]
<1>0. n + 1 \in Nat /\ n <= n + 1 /\ n \in 0 .. n /\ n + 1 \in 1 .. (n + 1) /\ (n + 1) - 1 = n
  OBVIOUS
<1>1. PICK t : IsRecursive(t, n + 1, Nat, 0, sf) /\ SumTo(f, n + 1) = t[n + 1]
  BY <1>0, SumToDef
<1>2. PICK u : IsRecursive(u, n, Nat, 0, sg) /\ SumTo(g, n) = u[n]
  <2>1. \A k \in 1 .. n : g[k] \in Nat
    OBVIOUS
  <2>. QED  BY <2>1, SumToDef
<1>3. \A i \in 1 .. n : \A v \in Nat : sf[<<v, i>>] = sg[<<v, i>>]
  OBVIOUS
<1>4. SameSteps(sf, sg, Nat, n)
  BY <1>3 DEF SameSteps
<1>5. t[n] = u[n]
  <2>. HIDE DEF sf, sg
  <2>1. PICK m \in Nat : m = n + 1
    BY <1>0
  <2>2. IsRecursive(t, m, Nat, 0, sf) /\ n <= m
    BY <1>0, <1>1, <2>1
  <2>3. \A i \in 0 .. n : t[i] = u[i]
    BY <1>2, <1>4, <2>2, RecursiveAgree
  <2>. QED  BY <1>0, <2>3
<1>6. t[n + 1] = sf[<<t[n], n + 1>>] /\ t[n] \in Nat
  <2>1. n \in 0 .. (n + 1)
    OBVIOUS
  <2>. HIDE DEF sf
  <2>. QED  BY <1>0, <1>1, <2>1 DEF IsRecursive
<1>7. sf[<<t[n], n + 1>>] = t[n] + f[n + 1] /\ f[n + 1] \in Nat
  BY <1>0, <1>6
<1>. QED  BY <1>1, <1>2, <1>5, <1>6, <1>7

\* A sum of numbers that are not negative is not.
LEMMA SumToNat ==
  ASSUME NEW n \in Nat, NEW f, \A k \in 1 .. n : f[k] \in Nat
  PROVE  SumTo(f, n) \in Nat
<1>. DEFINE step == [q \in Nat \X Nat |-> IF q[2] \in 1 .. n THEN q[1] + f[q[2]] ELSE 0]
<1>1. PICK t : IsRecursive(t, n, Nat, 0, step) /\ SumTo(f, n) = t[n]
  BY SumToDef
<1>2. n \in 0 .. n
  OBVIOUS
<1>3. t \in [0 .. n -> Nat]
  <2>. HIDE DEF step
  <2>. QED  BY <1>1 DEF IsRecursive
<1>. QED  BY <1>1, <1>2, <1>3

\* The size of the data of an argument is that of its parts.
LEMMA SentinelSize == EncodeVarintSize[Sentinel] \in Nat \ {0}
<1>. USE DataSegmentAssumption
<1>1. Sentinel \in Nat \ {0}
  OBVIOUS
<1>2. EncodeVarintSize[Sentinel] \in Nat /\ EncodeVarintSize[Sentinel] - 1 \in Nat
  BY <1>1, VarintLeast, EncodeVarintSizeDef
<1>. QED  BY <1>2

\* Both sizes are numbers, and what is needed are two sentinels more than the
\* body.
LEMMA BodySizeNat ==
  ASSUME NEW vals \in Seq(Nat)
  PROVE  /\ bodySize(vals) \in Nat /\ bodySize(vals) >= HeaderSize
         /\ needed(vals) \in Nat /\ needed(vals) >= bodySize(vals)
         /\ needed(vals) = (bodySize(vals) + EncodeVarintSize[Sentinel]) + EncodeVarintSize[Sentinel]
<1>. DEFINE f == [k \in 1 .. Len(vals) |-> EncodeVarintSize[vals[k]]]
<1>1. \A k \in 1 .. Len(vals) : f[k] \in Nat
  <2>1. \A k \in 1 .. Len(vals) : vals[k] \in Nat
    OBVIOUS
  <2>. QED  BY <2>1, EncodeVarintSizeDef
<1>2. Len(vals) \in Nat
  OBVIOUS
<1>3. SumTo(f, Len(vals)) \in Nat
  <2>. HIDE DEF f
  <2>. QED  BY <1>1, <1>2, SumToNat
<1>4. PICK z \in Nat : z = EncodeVarintSize[Sentinel]
  BY SentinelSize
<1>5. PICK b \in Nat : b = SumTo(f, Len(vals))
  BY <1>3
<1>6. bodySize(vals) = HeaderSize + b
  BY <1>5 DEF bodySize
<1>7. needed(vals) = bodySize(vals) + 2 * z
  BY <1>4 DEF needed
<1>. QED  BY <1>4, <1>6, <1>7 DEF HeaderSize

\* An argument without values is a header.
LEMMA BodySizeEmpty == bodySize(<< >>) = HeaderSize
<1>1. SumTo([k \in 1 .. Len(<< >>) |-> EncodeVarintSize[<< >>[k]]], 0) = 0
  BY SumToEmpty
<1>2. Len(<< >>) = 0
  OBVIOUS
<1>. QED  BY <1>1, <1>2 DEF bodySize, HeaderSize

\* One value more takes the bytes of its varint.
LEMMA BodySizeAppend ==
  ASSUME NEW vals \in Seq(Nat), NEW val \in Nat
  PROVE  bodySize(Append(vals, val)) = bodySize(vals) + EncodeVarintSize[val]
<1>. DEFINE g == [k \in 1 .. Len(vals) |-> EncodeVarintSize[vals[k]]]
            more == Append(vals, val)
            f == [k \in 1 .. Len(more) |-> EncodeVarintSize[more[k]]]
            n == Len(vals)
<1>1. n \in Nat /\ Len(more) = n + 1 /\ more[n + 1] = val /\ n + 1 \in 1 .. (n + 1)
  OBVIOUS
<1>2. \A k \in 1 .. n : more[k] = vals[k] /\ k \in 1 .. (n + 1)
  OBVIOUS
<1>3. \A k \in 1 .. (n + 1) : more[k] \in Nat
  OBVIOUS
<1>. HIDE DEF more
<1>4. \A k \in 1 .. (n + 1) : f[k] \in Nat
  BY <1>1, <1>3, EncodeVarintSizeDef
<1>5. \A k \in 1 .. n : g[k] = f[k]
  BY <1>1, <1>2
<1>6. f[n + 1] = EncodeVarintSize[val]
  BY <1>1
<1>. HIDE DEF f, g
<1>7. SumTo(f, n + 1) = SumTo(g, n) + f[n + 1] /\ SumTo(g, n) \in Nat
  <2>. HIDE DEF n
  <2>. QED  BY <1>1, <1>4, <1>5, SumToStep
<1>8. bodySize(more) = HeaderSize + SumTo(f, n + 1) /\ bodySize(vals) = HeaderSize + SumTo(g, n)
  BY <1>1 DEF bodySize, f, g
<1>9. PICK a \in Nat, b \in Nat : a = SumTo(g, n) /\ b = EncodeVarintSize[val]
  BY <1>7, EncodeVarintSizeDef
<1>10. HeaderSize + (a + b) = (HeaderSize + a) + b
  BY DEF HeaderSize
<1>. QED  BY <1>6, <1>7, <1>8, <1>9, <1>10 DEF more

\* The data of the arguments follow each other.
LEMMA UpToNone == ASSUME NEW args PROVE neededUpTo(args, 0) = 0
BY SumToEmpty DEF neededUpTo

\* The data of one argument more.
LEMMA UpToNext ==
  ASSUME NEW args \in Seq(Seq(Nat)), NEW i \in Nat, i + 1 <= Len(args)
  PROVE  /\ neededUpTo(args, i + 1) = neededUpTo(args, i) + needed(args[i + 1])
         /\ neededUpTo(args, i) \in Nat /\ needed(args[i + 1]) \in Nat
         /\ needed(args[i + 1]) >= HeaderSize
<1>. DEFINE f == [k \in 1 .. (i + 1) |-> needed(args[k])]
            g == [k \in 1 .. i |-> needed(args[k])]
<1>1. \A k \in 1 .. (i + 1) : args[k] \in Seq(Nat)
  OBVIOUS
<1>2. \A k \in 1 .. (i + 1) : f[k] \in Nat
  BY <1>1, BodySizeNat
<1>3. (\A k \in 1 .. i : g[k] = f[k]) /\ i + 1 \in 1 .. (i + 1)
  OBVIOUS
<1>4. f[i + 1] = needed(args[i + 1])
  BY <1>3
<1>5. needed(args[i + 1]) \in Nat /\ needed(args[i + 1]) >= HeaderSize
  <2>1. args[i + 1] \in Seq(Nat)
    BY <1>1, <1>3
  <2>. QED  BY <2>1, BodySizeNat DEF HeaderSize
<1>6. SumTo(f, i + 1) = SumTo(g, i) + f[i + 1] /\ SumTo(g, i) \in Nat
  <2>. HIDE DEF f, g
  <2>. QED  BY <1>2, <1>3, SumToStep
<1>. QED  BY <1>4, <1>5, <1>6 DEF neededUpTo

\* What the first arguments need is a number.
LEMMA UpToNat ==
  ASSUME NEW args \in Seq(Seq(Nat)), NEW i \in 0 .. Len(args)
  PROVE  neededUpTo(args, i) \in Nat
<1>. DEFINE g == [k \in 1 .. i |-> needed(args[k])]
<1>1. \A k \in 1 .. i : g[k] \in Nat
  <2>1. \A k \in 1 .. i : args[k] \in Seq(Nat)
    OBVIOUS
  <2>. QED  BY <2>1, BodySizeNat
<1>2. i \in Nat
  OBVIOUS
<1>3. SumTo(g, i) \in Nat
  <2>. HIDE DEF g
  <2>. QED  BY <1>1, <1>2, SumToNat
<1>. QED  BY <1>3 DEF neededUpTo

\* An argument that is begun or goes on does not move the ones before it.
LEMMA UpToSame ==
  ASSUME NEW args, NEW more, NEW i \in Nat, \A k \in 1 .. i : more[k] = args[k]
  PROVE  neededUpTo(more, i) = neededUpTo(args, i)
<1>1. [k \in 1 .. i |-> needed(more[k])] = [k \in 1 .. i |-> needed(args[k])]
  OBVIOUS
<1>. QED  BY <1>1 DEF neededUpTo

\* More arguments need no less.
LEMMA UpToGrows ==
  ASSUME NEW args \in Seq(Seq(Nat)), NEW n \in 0 .. Len(args), NEW i \in 0 .. n
  PROVE  neededUpTo(args, i) <= neededUpTo(args, n)
<1>. DEFINE U(k) == neededUpTo(args, k)
            S == {k \in 0 .. n : k >= i => U(i) <= U(k)}
<1>1. \A k \in 0 .. n : U(k) \in Nat
  <2>1. \A k \in 0 .. n : k \in 0 .. Len(args)
    OBVIOUS
  <2>. QED  BY <2>1, UpToNat
<1>2. 0 \in S
  BY <1>1
<1>3. ASSUME NEW k \in 0 .. (n - 1), k \in S
      PROVE  k + 1 \in S
  <2>1. k \in Nat /\ k + 1 <= Len(args) /\ k + 1 \in 0 .. n /\ k \in 0 .. n /\ i \in Nat
    OBVIOUS
  <2>2. U(k + 1) = U(k) + needed(args[k + 1]) /\ needed(args[k + 1]) \in Nat
    BY <2>1, UpToNext
  <2>3. PICK a \in Nat, b \in Nat, c \in Nat, d \in Nat :
          a = U(k) /\ b = U(k + 1) /\ c = U(i) /\ d = needed(args[k + 1])
    BY <1>1, <2>1, <2>2
  <2>. HIDE DEF U
  <2>4. a <= b
    BY <2>2, <2>3
  <2>5. k + 1 >= i => k >= i \/ k + 1 = i
    BY <2>1
  <2>. QED  BY <1>3, <2>1, <2>3, <2>4, <2>5
<1>4. 0 .. n \subseteq S
  <2>1. n \in Nat
    OBVIOUS
  <2>. HIDE DEF S
  <2>. QED  BY <1>2, <1>3, <2>1, UpTo
<1>5. n \in S /\ n >= i
  <2>1. n \in 0 .. n /\ n >= i
    OBVIOUS
  <2>. HIDE DEF S
  <2>. QED  BY <1>4, <2>1
<1>. QED  BY <1>5

-----------------------------------------------------------------------------
(***************************************************************************)
(* The decoder                                                             *)
(***************************************************************************)

\* The sequence r of at most n results starts with the argument whose header is
\* at res; as long as an argument can be decoded, the next one follows it.
Chained(r, res, n) ==
  /\ DOMAIN r = 1 .. Len(r) /\ Len(r) \in 1 .. n
  /\ r[Len(r)].ok => Len(r) = n
  /\ \E pos \in [1 .. Len(r) -> 0 .. DataSize] :
       /\ pos[1] = res
       /\ \A k \in 1 .. Len(r) : r[k] \in decodeArgument(pos[k])
       /\ \A k \in 1 .. (Len(r) - 1) : r[k].ok /\ pos[k + 1] = nextArgument(pos[k])

\* A decoder that gives up at the first argument, or has but one.
LEMMA ChainedOne ==
  ASSUME NEW res \in 0 .. DataSize, NEW d \in decodeArgument(res), NEW n \in Nat \ {0},
         d.ok => n = 1
  PROVE  Chained(<<d>>, res, n)
<1>. DEFINE r == <<d>>
            pos == [k \in 1 .. 1 |-> res]
<1>1. Len(r) = 1 /\ r[1] = d
  OBVIOUS
<1>2. pos \in [1 .. 1 -> 0 .. DataSize] /\ pos[1] = res
  OBVIOUS
<1>3. \A k \in 1 .. 1 : k = 1
  OBVIOUS
<1>4. 1 .. (1 - 1) = {} /\ 1 \in 1 .. n
  OBVIOUS
<1>. HIDE DEF r, pos
<1>5. Chained(r, res, n)
  BY <1>1, <1>2, <1>3, <1>4 DEF Chained
<1>. QED  BY <1>5 DEF r

\* One argument before a chain.
LEMMA ChainedMore ==
  ASSUME NEW res \in 0 .. DataSize, NEW d \in decodeArgument(res), d.ok, NEW n \in Nat \ {0},
         NEW R, d \in R, NEW rest \in Seq(R), Chained(rest, nextArgument(res), n)
  PROVE  Chained(<<d>> \o rest, res, n + 1)
<1>. DEFINE r == <<d>> \o rest
            l == Len(rest)
<1>1. PICK old \in [1 .. l -> 0 .. DataSize] :
        /\ old[1] = nextArgument(res)
        /\ \A k \in 1 .. l : rest[k] \in decodeArgument(old[k])
        /\ \A k \in 1 .. (l - 1) : rest[k].ok /\ old[k + 1] = nextArgument(old[k])
  BY Zenon DEF Chained
<1>2. l \in 1 .. n /\ (rest[l].ok => l = n) /\ l \in Nat
  <2>1. l \in 1 .. n /\ (rest[l].ok => l = n)
    BY Zenon DEF Chained
  <2>. QED  BY <2>1
<1>3. DOMAIN r = 1 .. Len(r) /\ Len(r) = l + 1 /\ r[1] = d /\ \A k \in 2 .. (l + 1) : r[k] = rest[k - 1]
  OBVIOUS
<1>. DEFINE pos == [k \in 1 .. (l + 1) |-> IF k = 1 THEN res ELSE old[k - 1]]
<1>. HIDE DEF r, l
<1>4. pos \in [1 .. (l + 1) -> 0 .. DataSize]
  <2>1. \A k \in 1 .. (l + 1) : k # 1 => k - 1 \in 1 .. l
    BY <1>2
  <2>. QED  BY <1>1, <2>1
<1>5. pos[1] = res /\ \A k \in 2 .. (l + 1) : pos[k] = old[k - 1]
  BY <1>2
<1>. HIDE DEF pos
<1>6. ASSUME NEW k \in 1 .. (l + 1)
      PROVE  r[k] \in decodeArgument(pos[k])
  <2>1. CASE k = 1
    BY <1>3, <1>5, <2>1
  <2>2. CASE k # 1
    <3>1. k \in 2 .. (l + 1) /\ k - 1 \in 1 .. l
      BY <1>2, <2>2
    <3>. QED  BY <1>1, <1>3, <1>5, <3>1
  <2>. QED  BY <2>1, <2>2
<1>7. ASSUME NEW k \in 1 .. l
      PROVE  r[k].ok /\ pos[k + 1] = nextArgument(pos[k])
  <2>0. k + 1 \in 2 .. (l + 1) /\ (k + 1) - 1 = k
    BY <1>2
  <2>1. CASE k = 1
    BY <1>1, <1>3, <1>5, <2>0, <2>1
  <2>2. CASE k # 1
    <3>1. k \in 2 .. (l + 1) /\ k - 1 \in 1 .. (l - 1) /\ (k - 1) + 1 = k
      BY <1>2, <2>2
    <3>. QED  BY <1>1, <1>3, <1>5, <2>0, <3>1
  <2>. QED  BY <2>1, <2>2
<1>8. l + 1 \in 1 .. (n + 1) /\ r[l + 1] = rest[l] /\ (l + 1) - 1 = l
      /\ (l = n => l + 1 = n + 1)
  <2>1. l + 1 \in 2 .. (l + 1) /\ (l + 1) - 1 = l /\ l + 1 \in 1 .. (n + 1)
    BY <1>2
  <2>2. r[l + 1] = rest[(l + 1) - 1]
    BY <1>3, <2>1
  <2>. QED  BY <2>1, <2>2
<1>9. Chained(r, res, n + 1)
  <2>1. \E q \in [1 .. Len(r) -> 0 .. DataSize] :
          /\ q[1] = res
          /\ \A k \in 1 .. Len(r) : r[k] \in decodeArgument(q[k])
          /\ \A k \in 1 .. (Len(r) - 1) : r[k].ok /\ q[k + 1] = nextArgument(q[k])
    <3>1. Len(r) = l + 1 /\ Len(r) - 1 = l
      BY <1>3, <1>8
    <3>2. pos \in [1 .. Len(r) -> 0 .. DataSize]
      BY <1>4, <3>1
    <3>3. \A k \in 1 .. Len(r) : r[k] \in decodeArgument(pos[k])
      BY <1>6, <3>1
    <3>4. \A k \in 1 .. (Len(r) - 1) : r[k].ok /\ pos[k + 1] = nextArgument(pos[k])
      BY <1>7, <3>1
    <3>. QED  BY <1>5, <3>2, <3>3, <3>4, Zenon
  <2>2. /\ DOMAIN r = 1 .. Len(r) /\ Len(r) \in 1 .. (n + 1)
        /\ r[Len(r)].ok => Len(r) = n + 1
    BY <1>2, <1>3, <1>8
  <2>. QED  BY <2>1, <2>2, Zenon DEF Chained
<1>. QED  BY <1>9 DEF r

\* The recursion of decodeArguments goes through a finite table, one row per
\* argument, whose entries are sets of sequences: such chains come out of it.
LEMMA DecodedChain ==
  ASSUME argCount \in Nat \ {0}, mem \in [Cells -> Nat], NEW r \in decodeArguments
  PROVE  Chained(r, 0, argCount)
<1>. USE DataSegmentAssumption
<1>. DEFINE D == 0 .. DataSize
            R == UNION {decodeArgument(res) : res \in D}
            V == [D -> SUBSET Seq(R)]
            n == argCount - 1
            row(g, left) ==
              [res \in D |->
                 UNION {IF d.ok /\ left > 0
                          THEN {<<d>> \o rest : rest \in g[nextArgument(res)]}
                          ELSE {<<d>>}
                        : d \in decodeArgument(res)}]
            base == [res \in D |-> UNION {{<<d>>} : d \in decodeArgument(res)}]
            step == [q \in V \X Nat |-> row(q[1], q[2])]
            from[left \in 0 .. (argCount - 1)] ==
              [res \in 0 .. DataSize |->
                 UNION {IF d.ok /\ left > 0
                          THEN {<<d>> \o rest : rest \in from[left - 1][nextArgument(res)]}
                          ELSE {<<d>>}
                        : d \in decodeArgument(res)}]
<1>1. \A res \in D : nextArgument(res) \in D
  <2>. SUFFICES ASSUME NEW res \in D
                PROVE  nextArgument(res) \in D
    OBVIOUS
  <2>1. CASE inCopy(res)
    <3>1. res + 2 \in Cells
      BY <2>1 DEF inCopy, Cells, HeaderSize
    <3>2. res + mem[res + 2] \in Nat
      BY <3>1
    <3>3. Min({DataSize, res + mem[res + 2]}) \in 0 .. DataSize
      BY <3>2 DEF Min
    <3>. QED  BY <2>1, <3>3 DEF nextArgument
  <2>2. CASE ~inCopy(res)
    BY <2>2 DEF nextArgument
  <2>. QED  BY <2>1, <2>2
<1>2. ASSUME NEW res \in D, NEW d \in decodeArgument(res)
      PROVE  <<d>> \in Seq(R) /\ \A rest \in Seq(R) : <<d>> \o rest \in Seq(R)
  <2>1. d \in R
    OBVIOUS
  <2>. HIDE DEF R
  <2>. QED  BY <2>1
<1>3. base \in V
  <2>. HIDE DEF R
  <2>1. ASSUME NEW res \in D
        PROVE  UNION {{<<d>>} : d \in decodeArgument(res)} \in SUBSET Seq(R)
    BY <1>2
  <2>. QED  BY <2>1
<1>4. ASSUME NEW g \in V, NEW left \in Nat
      PROVE  row(g, left) \in V
  <2>. HIDE DEF R
  <2>1. ASSUME NEW res \in D
        PROVE  UNION {IF d.ok /\ left > 0
                        THEN {<<d>> \o rest : rest \in g[nextArgument(res)]}
                        ELSE {<<d>>}
                      : d \in decodeArgument(res)} \in SUBSET Seq(R)
    <3>1. g[nextArgument(res)] \subseteq Seq(R)
      BY <1>1
    <3>. DEFINE part(d) == IF d.ok /\ left > 0
                             THEN {<<d>> \o rest : rest \in g[nextArgument(res)]}
                             ELSE {<<d>>}
    <3>2. ASSUME NEW d \in decodeArgument(res)
          PROVE  part(d) \subseteq Seq(R)
      BY <1>2, <3>1
    <3>3. UNION {part(d) : d \in decodeArgument(res)} \in SUBSET Seq(R)
      <4>. HIDE DEF part
      <4>. QED  BY <3>2
    <3>. QED  BY <3>3
  <2>. QED  BY <2>1
<1>5. step \in [V \X Nat -> V]
  <2>. HIDE DEF V, row
  <2>. QED  BY <1>4
<1>6. PICK f : IsRecursive(f, n, V, base, step)
  <2>1. n \in Nat
    OBVIOUS
  <2>. HIDE DEF V, base, step, n
  <2>. QED  BY <1>3, <1>5, <2>1, RecursiveFunction
<1>7. \A left \in 0 .. n : f[left] = row(f[left - 1], left)
  <2>. SUFFICES ASSUME NEW left \in 0 .. n
                PROVE  f[left] = row(f[left - 1], left)
    OBVIOUS
  <2>1. CASE left = 0
    <3>1. f[left] = base
      BY <1>6, <2>1 DEF IsRecursive
    <3>2. base = row(f[left - 1], left)
      BY <2>1
    <3>. QED  BY <3>1, <3>2
  <2>2. CASE left # 0
    <3>1. left \in 1 .. n /\ left - 1 \in 0 .. n /\ left \in Nat
      BY <2>2
    <3>2. f[left] = step[<<f[left - 1], left>>] /\ f[left - 1] \in V
      <4>. HIDE DEF V, base, step, n
      <4>. QED  BY <1>6, <3>1 DEF IsRecursive
    <3>3. step[<<f[left - 1], left>>] = row(f[left - 1], left)
      <4>. HIDE DEF V, row, n
      <4>. QED  BY <3>1, <3>2
    <3>. QED  BY <3>2, <3>3
  <2>. QED  BY <2>1, <2>2
<1>8. f = [left \in 0 .. (argCount - 1) |-> row(f[left - 1], left)]
  <2>. HIDE DEF V, row, base, step
  <2>1. f \in [0 .. n -> V]
    BY <1>6 DEF IsRecursive
  <2>. QED  BY <1>7, <2>1
<1>9. from = [left \in 0 .. (argCount - 1) |-> row(from[left - 1], left)]
  BY <1>8, ZenonT(60)
<1>10. \A left \in 0 .. n : from[left] = row(from[left - 1], left)
  BY <1>9
<1>. HIDE DEF from, R
<1>. DEFINE short(left) == \A res \in D : \A s \in from[left][res] :
                             s \in Seq(R) /\ Chained(s, res, left + 1)
            S == {left \in 0 .. n : short(left)}
<1>11. ASSUME NEW left \in 0 .. n, left > 0 => short(left - 1)
       PROVE  short(left)
  <2>. SUFFICES ASSUME NEW res \in D, NEW s \in from[left][res]
                PROVE  s \in Seq(R) /\ Chained(s, res, left + 1)
    OBVIOUS
  <2>. DEFINE part(d) == IF d.ok /\ left > 0
                           THEN {<<d>> \o rest : rest \in from[left - 1][nextArgument(res)]}
                           ELSE {<<d>>}
  <2>1. from[left][res] = UNION {part(d) : d \in decodeArgument(res)}
    <3>1. from[left] = row(from[left - 1], left)
      <4>. HIDE DEF row
      <4>. QED  BY <1>10
    <3>2. row(from[left - 1], left)[res] = UNION {part(d) : d \in decodeArgument(res)}
      OBVIOUS
    <3>. HIDE DEF row, part
    <3>. QED  BY <3>1, <3>2
  <2>2. PICK d \in decodeArgument(res) : s \in part(d)
    <3>. HIDE DEF part
    <3>. QED  BY <2>1
  <2>3. d \in R
    BY DEF R
  <2>4. CASE d.ok /\ left > 0
    <3>1. PICK rest \in from[left - 1][nextArgument(res)] : s = <<d>> \o rest
      BY <2>2, <2>4
    <3>2. rest \in Seq(R) /\ Chained(rest, nextArgument(res), left)
      <4>1. short(left - 1) /\ nextArgument(res) \in D /\ (left - 1) + 1 = left
        BY <1>1, <1>11, <2>4
      <4>. QED  BY <3>1, <4>1
    <3>3. left \in Nat \ {0}
      BY <2>4
    <3>4. <<d>> \o rest \in Seq(R)
      BY <2>3, <3>2
    <3>. QED  BY <2>3, <2>4, <3>1, <3>2, <3>3, <3>4, ChainedMore
  <2>5. CASE ~(d.ok /\ left > 0)
    <3>1. s = <<d>> /\ s \in Seq(R)
      <4>1. s = <<d>>
        BY <2>2, <2>5
      <4>. QED  BY <2>3, <4>1
    <3>2. left + 1 \in Nat \ {0} /\ (d.ok => left + 1 = 1)
      BY <2>5
    <3>. QED  BY <3>1, <3>2, ChainedOne
  <2>. QED  BY <2>4, <2>5
<1>. HIDE DEF short
<1>12. 0 .. n \subseteq S
  <2>1. 0 \in S /\ n \in Nat
    BY <1>11
  <2>2. ASSUME NEW i \in 0 .. (n - 1), i \in S
        PROVE  i + 1 \in S
    <3>1. i + 1 \in 0 .. n /\ (i + 1) - 1 = i
      OBVIOUS
    <3>2. short(i + 1)
      BY <1>11, <2>2, <3>1
    <3>. QED  BY <3>1, <3>2
  <2>. HIDE DEF S, n
  <2>. QED  BY <2>1, <2>2, UpTo
<1>13. r \in from[n][0]
  BY DEF decodeArguments, from
<1>14. n \in 0 .. n /\ n + 1 = argCount /\ 0 \in D
  OBVIOUS
<1>15. short(n)
  BY <1>12, <1>14
<1>. QED  BY <1>13, <1>14, <1>15 DEF short

\* No more results than arguments.
LEMMA DecodedCount ==
  ASSUME argCount \in Nat \ {0}, mem \in [Cells -> Nat], NEW r \in decodeArguments
  PROVE  Len(r) \in 0 .. argCount
BY DecodedChain DEF Chained

-----------------------------------------------------------------------------
(***************************************************************************)
(* The invariant                                                           *)
(***************************************************************************)

\* While the JIT'd code runs, it is at the argument behind the complete ones,
\* which it has begun unless it is about to; the first one starts at the base of
\* the segment.
Progress ==
  /\ stored \in Seq(Seq(Nat))
  /\ pc = "magic" => Len(stored) = complete /\ complete < argCount
  /\ pc \in {"cookie", "size", "body", "end", "written"}
       => Len(stored) = complete + 1 /\ complete < argCount
  /\ pc \in {"magic", "cookie", "size", "body", "end", "written"} /\ complete = 0
       => dataBase = 0

SegInv == TypeOK /\ Progress /\ WritesInSegment

\* What a store leaves of the memory: numbers, and what lies behind it.
LEMMA StoredCells ==
  ASSUME mem \in [Cells -> Nat], NEW base \in Nat, NEW cells \in Seq(Nat)
  PROVE  /\ stores(base, cells) \in [Cells -> Nat]
         /\ \A c \in Cells : c >= base + Len(cells) => stores(base, cells)[c] = mem[c]
<1>. USE DataSegmentAssumption
<1>1. Cells \subseteq Nat /\ Len(cells) \in Nat /\ DOMAIN cells = 1 .. Len(cells)
  BY DEF Cells
<1>2. \A i \in 1 .. Len(cells) : cells[i] \in Nat
  OBVIOUS
<1>. QED  BY <1>1, <1>2 DEF stores

\* A store, made or not, leaves the cells behind it, and the JIT'd code goes on
\* or has faulted.
LEMMA StoreEffect ==
  ASSUME mem \in [Cells -> Nat], NEW base \in Nat, NEW cells \in Seq(Nat), NEW next,
         storesOrFaults(base, cells, next)
  PROVE  /\ mem' \in [Cells -> Nat]
         /\ \A c \in Cells : c >= base + Len(cells) => mem'[c] = mem[c]
         /\ pc' \in {next, "fault"}
<1>1. CASE mapped(base .. (base + Len(cells) - 1))
  BY <1>1, StoredCells DEF storesOrFaults
<1>2. CASE ~mapped(base .. (base + Len(cells) - 1))
  BY <1>2 DEF storesOrFaults
<1>. QED  BY <1>1, <1>2

\* StoreData leaves the cells behind the segment, if the argument starts at its
\* base; the offset goes on even so.
LEMMA StoreDataEffect ==
  ASSUME mem \in [Cells -> Nat], dataBase \in Nat, offset \in Nat, NEW val \in Nat,
         NEW next, StoreData(val, next)
  PROVE  /\ mem' \in [Cells -> Nat]
         /\ dataBase = 0 => \A c \in Cells : c >= DataSize => mem'[c] = mem[c]
         /\ pc' \in {next, "fault"}
         /\ offset' \in Nat
<1>. USE DataSegmentAssumption
<1>1. /\ EncodeVarint[val] \in Seq(Nat) /\ EncodeVarintSize[val] \in Nat
      /\ Len(EncodeVarint[val]) = EncodeVarintSize[val]
  BY EncodeVarintDef, EncodeVarintSizeDef, VarintSize
<1>2. offset' \in Nat
  BY <1>1 DEF StoreData
<1>3. CASE fits(EncodeVarintSize[val], offset)
  <2>1. storesOrFaults(dataBase + offset, EncodeVarint[val], next)
    BY <1>3 DEF StoreData
  <2>2. dataBase + offset \in Nat
    OBVIOUS
  <2>3. /\ mem' \in [Cells -> Nat]
        /\ \A c \in Cells : c >= (dataBase + offset) + Len(EncodeVarint[val])
             => mem'[c] = mem[c]
        /\ pc' \in {next, "fault"}
    BY <1>1, <2>1, <2>2, StoreEffect
  <2>4. \A c \in Cells : c >= DataSize /\ dataBase = 0
          => c >= (dataBase + offset) + Len(EncodeVarint[val])
    BY <1>1, <1>3 DEF fits, Cells
  <2>. QED  BY <1>2, <2>3, <2>4
<1>4. CASE ~fits(EncodeVarintSize[val], offset)
  BY <1>2, <1>4 DEF StoreData
<1>. QED  BY <1>3, <1>4

\* The invariant holds initially.
LEMMA SegInit == Init => SegInv
<1>. SUFFICES ASSUME Init PROVE SegInv
  OBVIOUS
<1>. USE DataSegmentAssumption DEF Init
<1>1. Foreign \in Nat /\ Cells \subseteq Nat
  BY DEF Foreign, Cells
<1>2. argCount \in Nat \ {0}
  OBVIOUS
<1>3. mem \in [Cells -> Nat]
  BY <1>1
<1>4. TypeOK
  BY <1>2, <1>3 DEF TypeOK, PCs
<1>5. Progress
  BY DEF Progress
<1>6. WritesInSegment
  BY <1>1 DEF WritesInSegment
<1>. QED  BY <1>4, <1>5, <1>6 DEF SegInv

\* Every step keeps it.  A probe with one argument is at its first, whose base
\* is 0: its header lies in the segment, and what StoreData writes does.
LEMMA SegStep == SegInv /\ [Next]_vars => SegInv'
<1>. SUFFICES ASSUME SegInv, [Next]_vars
              PROVE  SegInv'
  OBVIOUS
<1>. USE DataSegmentAssumption
<1>0. /\ TypeOK /\ Progress /\ WritesInSegment
      /\ argCount \in Nat \ {0} /\ complete \in Nat /\ Len(stored) \in Nat
      /\ mem \in [Cells -> Nat] /\ dataBase \in Nat /\ offset \in Nat
  <2>1. TypeOK /\ Progress /\ WritesInSegment
    BY DEF SegInv
  <2>2. argCount \in Nat \ {0}
    BY <2>1 DEF TypeOK
  <2>. QED  BY <2>1, <2>2 DEF TypeOK, Progress
<1>. DEFINE Behind == argCount = 1 => \A c \in Cells : c >= DataSize => mem'[c] = mem[c]
<1>a. ASSUME Behind, argCount' = argCount
      PROVE  WritesInSegment'
  BY <1>0, <1>a DEF WritesInSegment
<1>1. CASE StartProbe
  <2>1. TypeOK'
    BY <1>0, <1>1 DEF StartProbe, TypeOK, PCs
  <2>2. Progress'
    BY <1>0, <1>1 DEF StartProbe, Progress
  <2>. QED  BY <1>1, <1>a, <2>1, <2>2 DEF StartProbe, SegInv
<1>2. CASE WriteMagic
  <2>1. oidMagicId \in Nat /\ <<oidMagicId>> \in Seq(Nat) /\ Len(<<oidMagicId>>) = 1
    BY DEF oidMagicId
  <2>2. /\ mem' \in [Cells -> Nat]
        /\ \A c \in Cells : c >= dataBase + Len(<<oidMagicId>>) => mem'[c] = mem[c]
        /\ pc' \in {"cookie", "fault"}
    <3>1. storesOrFaults(dataBase, <<oidMagicId>>, "cookie")
      BY <1>2 DEF WriteMagic
    <3>. HIDE DEF oidMagicId
    <3>. QED  BY <1>0, <2>1, <3>1, StoreEffect
  <2>3. /\ stored' \in Seq(Seq(Nat)) /\ Len(stored') = Len(stored) + 1
        /\ Len(stored) = complete /\ complete < argCount
    BY <1>0, <1>2 DEF WriteMagic, Progress
  <2>4. TypeOK'
    BY <1>0, <1>2, <2>2, <2>3 DEF WriteMagic, TypeOK, PCs
  <2>5. Progress'
    BY <1>0, <1>2, <2>2, <2>3 DEF WriteMagic, Progress
  <2>6. Behind
    <3>. SUFFICES ASSUME argCount = 1, NEW c \in Cells, c >= DataSize
                  PROVE  mem'[c] = mem[c]
      OBVIOUS
    <3>1. dataBase = 0
      BY <1>0, <1>2, <2>3 DEF WriteMagic, Progress
    <3>2. c >= dataBase + Len(<<oidMagicId>>)
      BY <2>1, <3>1 DEF HeaderSize, Cells
    <3>. QED  BY <2>2, <3>2
  <2>. QED  BY <1>2, <1>a, <2>4, <2>5, <2>6 DEF WriteMagic, SegInv
<1>3. CASE WriteCookie
  <2>1. cookieOf(run) \in Nat /\ <<cookieOf(run)>> \in Seq(Nat) /\ Len(<<cookieOf(run)>>) = 1
    BY <1>0 DEF cookieOf, TypeOK
  <2>2. /\ mem' \in [Cells -> Nat]
        /\ \A c \in Cells : c >= (dataBase + 1) + Len(<<cookieOf(run)>>) => mem'[c] = mem[c]
        /\ pc' \in {"size", "fault"}
    <3>1. storesOrFaults(dataBase + 1, <<cookieOf(run)>>, "size") /\ dataBase + 1 \in Nat
      BY <1>0, <1>3 DEF WriteCookie
    <3>. HIDE DEF cookieOf
    <3>. QED  BY <1>0, <2>1, <3>1, StoreEffect
  <2>3. TypeOK'
    BY <1>0, <1>3, <2>2 DEF WriteCookie, TypeOK, PCs
  <2>4. Progress'
    BY <1>0, <1>3, <2>2 DEF WriteCookie, Progress
  <2>5. Behind
    <3>. SUFFICES ASSUME argCount = 1, NEW c \in Cells, c >= DataSize
                  PROVE  mem'[c] = mem[c]
      OBVIOUS
    <3>1. dataBase = 0
      BY <1>0, <1>3 DEF WriteCookie, Progress
    <3>2. c >= (dataBase + 1) + Len(<<cookieOf(run)>>)
      BY <2>1, <3>1 DEF HeaderSize, Cells
    <3>. QED  BY <2>2, <3>2
  <2>. QED  BY <1>3, <1>a, <2>3, <2>4, <2>5 DEF WriteCookie, SegInv
<1>4. CASE ResetSize
  <2>1. <<0>> \in Seq(Nat) /\ Len(<<0>>) = 1
    OBVIOUS
  <2>2. /\ mem' \in [Cells -> Nat]
        /\ \A c \in Cells : c >= (dataBase + 2) + Len(<<0>>) => mem'[c] = mem[c]
        /\ pc' \in {"body", "fault"}
    <3>1. storesOrFaults(dataBase + 2, <<0>>, "body") /\ dataBase + 2 \in Nat
      BY <1>0, <1>4 DEF ResetSize
    <3>. QED  BY <1>0, <2>1, <3>1, StoreEffect
  <2>3. TypeOK'
    BY <1>0, <1>4, <2>2 DEF ResetSize, TypeOK, PCs, HeaderSize
  <2>4. Progress'
    BY <1>0, <1>4, <2>2 DEF ResetSize, Progress
  <2>5. Behind
    <3>. SUFFICES ASSUME argCount = 1, NEW c \in Cells, c >= DataSize
                  PROVE  mem'[c] = mem[c]
      OBVIOUS
    <3>1. dataBase = 0
      BY <1>0, <1>4 DEF ResetSize, Progress
    <3>2. c >= (dataBase + 2) + Len(<<0>>)
      BY <2>1, <3>1 DEF HeaderSize, Cells
    <3>. QED  BY <2>2, <3>2
  <2>. QED  BY <1>4, <1>a, <2>3, <2>4, <2>5 DEF ResetSize, SegInv
<1>5. ASSUME NEW val \in Values, StoreValue(val)
      PROVE  SegInv'
  <2>1. /\ mem' \in [Cells -> Nat]
        /\ dataBase = 0 => \A c \in Cells : c >= DataSize => mem'[c] = mem[c]
        /\ pc' \in {"body", "fault"} /\ offset' \in Nat
    <3>1. val \in Nat /\ StoreData(val, "body")
      BY <1>5 DEF StoreValue
    <3>. QED  BY <1>0, <3>1, StoreDataEffect
  <2>2. stored' \in Seq(Seq(Nat)) /\ Len(stored') = Len(stored)
    <3>1. Len(stored) \in 1 .. Len(stored) /\ val \in Nat
      BY <1>0, <1>5 DEF StoreValue, Progress
    <3>2. stored[Len(stored)] \in Seq(Nat)
      BY <1>0, <3>1 DEF Progress
    <3>3. Append(stored[Len(stored)], val) \in Seq(Nat)
      BY <3>1, <3>2
    <3>. QED  BY <1>0, <1>5, <3>1, <3>3 DEF StoreValue, Progress
  <2>3. TypeOK'
    BY <1>0, <1>5, <2>1, <2>2 DEF StoreValue, TypeOK, PCs
  <2>4. Progress'
    BY <1>0, <1>5, <2>1, <2>2 DEF StoreValue, Progress
  <2>5. Behind
    BY <1>0, <1>5, <2>1 DEF StoreValue, Progress
  <2>. QED  BY <1>5, <1>a, <2>3, <2>4, <2>5 DEF StoreValue, SegInv
<1>6. CASE StoreSentinel
  <2>1. /\ mem' \in [Cells -> Nat]
        /\ dataBase = 0 => \A c \in Cells : c >= DataSize => mem'[c] = mem[c]
        /\ pc' \in {IF pc = "body" THEN "end" ELSE "written", "fault"} /\ offset' \in Nat
    <3>1. StoreData(Sentinel, IF pc = "body" THEN "end" ELSE "written")
      BY <1>6 DEF StoreSentinel
    <3>. QED  BY <1>0, <3>1, StoreDataEffect
  <2>2. TypeOK'
    BY <1>0, <1>6, <2>1 DEF StoreSentinel, TypeOK, PCs
  <2>3. Progress'
    BY <1>0, <1>6, <2>1 DEF StoreSentinel, Progress
  <2>4. Behind
    BY <1>0, <1>6, <2>1 DEF StoreSentinel, Progress
  <2>. QED  BY <1>6, <1>a, <2>2, <2>3, <2>4 DEF StoreSentinel, SegInv
<1>7. CASE WriteSize
  <2>1. <<offset>> \in Seq(Nat) /\ Len(<<offset>>) = 1 /\ dataBase + 2 \in Nat
    BY <1>0
  <2>2. /\ mem' \in [Cells -> Nat]
        /\ \A c \in Cells : c >= (dataBase + 2) + Len(<<offset>>) => mem'[c] = mem[c]
    <3>1. mem' = stores(dataBase + 2, <<offset>>) /\ mem \in [Cells -> Nat]
      BY <1>0, <1>7 DEF WriteSize
    <3>. QED  BY <2>1, <3>1, StoredCells
  <2>3. TypeOK'
    <3>1. Len(stored) = complete + 1 /\ complete < argCount
      BY <1>0, <1>7 DEF WriteSize, Progress
    <3>2. pc' \in PCs /\ dataBase' \in Nat
      BY <1>0, <1>7 DEF WriteSize, PCs
    <3>3. /\ complete' \in 0 .. argCount
          /\ Len(stored) \in (complete') .. (complete' + 1) \cap 0 .. argCount
      BY <1>0, <1>7, <3>1 DEF WriteSize
    <3>. QED  BY <1>0, <1>7, <2>2, <3>2, <3>3 DEF WriteSize, TypeOK
  <2>4. Progress'
    BY <1>0, <1>7, <2>2 DEF WriteSize, Progress
  <2>5. Behind
    <3>. SUFFICES ASSUME argCount = 1, NEW c \in Cells, c >= DataSize
                  PROVE  mem'[c] = mem[c]
      OBVIOUS
    <3>1. dataBase = 0
      BY <1>0, <1>7 DEF WriteSize, Progress
    <3>2. c >= (dataBase + 2) + Len(<<offset>>)
      BY <2>1, <3>1 DEF HeaderSize, Cells
    <3>. QED  BY <2>2, <3>2
  <2>. QED  BY <1>7, <1>a, <2>3, <2>4, <2>5 DEF WriteSize, SegInv
<1>8. CASE JitFault
  <2>1. TypeOK' /\ Progress'
    BY <1>0, <1>8 DEF JitFault, TypeOK, PCs, Progress
  <2>. QED  BY <1>8, <1>a, <2>1 DEF JitFault, SegInv
<1>9. CASE processTargetData
  <2>1. Len(result') \in 0 .. argCount
    <3>1. result' \in decodeArguments
      BY <1>9 DEF processTargetData
    <3>. QED  BY <1>0, <3>1, DecodedCount
  <2>2. TypeOK' /\ Progress'
    BY <1>0, <1>9, <2>1 DEF processTargetData, TypeOK, PCs, Progress
  <2>. QED  BY <1>9, <1>a, <2>2 DEF processTargetData, SegInv
<1>10. CASE UNCHANGED vars
  BY <1>0, <1>10 DEF vars, SegInv, TypeOK, Progress, WritesInSegment
<1>. QED  BY <1>1, <1>2, <1>3, <1>4, <1>5, <1>6, <1>7, <1>8, <1>9, <1>10 DEF Next

\* SegInv is an invariant.
LEMMA SegInvariance == Spec => []SegInv
BY SegInit, SegStep, PTL DEF Spec

-----------------------------------------------------------------------------
(***************************************************************************)
(* What the decoder reads of the memory                                    *)
(***************************************************************************)

\* The loop of the decoder behind the n cells of an argument whose header is at b.
loopAt(m, b, n) == decodeVarints(m, b + HeaderSize, n - HeaderSize)

\* It reads nothing but the cells between the header and the n-th.
LEMMA LoopAtLocal ==
  ASSUME NEW m \in [Cells -> Nat], NEW o, NEW b \in Nat, NEW n \in Nat, n >= HeaderSize,
         b + n <= DataSize + Beyond,
         \A c \in Cells : b + HeaderSize <= c /\ c < b + n => o[c] = m[c]
  PROVE  /\ NumbersAt(m, b + HeaderSize, n - HeaderSize)
         /\ loopAt(o, b, n) = loopAt(m, b, n) /\ loopAt(m, b, n) \in LoopStates
<1>. USE DataSegmentAssumption
<1>1. PICK p \in Nat, k \in Nat : p = b + HeaderSize /\ k = n - HeaderSize
  BY DEF HeaderSize
<1>2. \A i \in 1 .. k : p + i - 1 \in Cells /\ b + HeaderSize <= p + i - 1 /\ p + i - 1 < b + n
  BY <1>1 DEF Cells, HeaderSize
<1>3. NumbersAt(m, p, k) /\ SameCells(m, o, p, k)
  BY <1>2 DEF NumbersAt, SameCells
<1>4. decodeVarints(o, p, k) = decodeVarints(m, p, k) /\ decodeVarints(m, p, k) \in LoopStates
  BY <1>3, LoopLocal
<1>. QED  BY <1>1, <1>3, <1>4 DEF loopAt

\* The loop over the varint of a value that has been stored behind what it has
\* read.
LEMMA LoopAtStored ==
  ASSUME NEW m \in [Cells -> Nat], NEW b \in Nat, NEW off \in Nat, off >= HeaderSize,
         NEW val \in Nat, b + (off + EncodeVarintSize[val]) <= DataSize + Beyond,
         HoldsVarint(m, b + off, val)
  PROVE  LET s == loopAt(m, b, off)
             r == loopAt(m, b, off + EncodeVarintSize[val])
         IN  /\ s \in LoopStates /\ (s.done => r = s)
             /\ AtVarint(s) => Ends(s, r, val)
<1>. USE DataSegmentAssumption
<1>1. PICK z \in Nat : z = EncodeVarintSize[val]
  BY EncodeVarintSizeDef
<1>2. PICK p \in Nat, k \in Nat :
        /\ p = b + HeaderSize /\ k = off - HeaderSize /\ p + k = b + off
        /\ k + z = (off + z) - HeaderSize
  <2>1. b + HeaderSize \in Nat /\ off - HeaderSize \in Nat
    BY DEF HeaderSize
  <2>2. (b + HeaderSize) + (off - HeaderSize) = b + off
        /\ (off - HeaderSize) + z = (off + z) - HeaderSize
    BY DEF HeaderSize
  <2>. QED  BY <2>1, <2>2
<1>3. NumbersAt(m, p, k + z) /\ SameCells(m, m, p, k) /\ NumbersAt(m, p, k)
  <2>1. off + z \in Nat /\ off + z >= HeaderSize /\ b + (off + z) <= DataSize + Beyond
    BY <1>1 DEF HeaderSize
  <2>2. NumbersAt(m, b + HeaderSize, (off + z) - HeaderSize)
    BY <2>1, LoopAtLocal
  <2>3. \A i \in 1 .. k : i \in 1 .. (k + z)
    OBVIOUS
  <2>4. NumbersAt(m, p, k + z)
    BY <1>2, <2>2
  <2>. QED  BY <2>3, <2>4 DEF NumbersAt, SameCells
<1>4. PICK s, r : s = decodeVarints(m, p, k) /\ r = decodeVarints(m, p, k + z)
  OBVIOUS
<1>5. s = loopAt(m, b, off) /\ r = loopAt(m, b, off + EncodeVarintSize[val])
  BY <1>1, <1>2, <1>4 DEF loopAt
<1>6. s \in LoopStates
  BY <1>3, <1>4, LoopLocal
<1>7. s.done => r = s
  <2>1. ASSUME decodeVarints(m, p, k).done
        PROVE  decodeVarints(m, p, k + z) = decodeVarints(m, p, k)
    <3>1. PICK l \in Nat : l = k + z /\ k <= l
      OBVIOUS
    <3>2. NumbersAt(m, p, l)
      BY <1>3, <3>1
    <3>3. decodeVarints(m, p, l) = decodeVarints(m, p, k)
      BY <2>1, <3>1, <3>2, DoneStays
    <3>. QED  BY <3>1, <3>3
  <2>. QED  BY <1>4, <2>1
<1>8. AtVarint(s) => Ends(s, r, val)
  <2>. SUFFICES ASSUME AtVarint(s)
                PROVE  Ends(s, r, val)
    OBVIOUS
  <2>1. ~s.done /\ s.val + val * s.place = val
    BY DEF AtVarint
  <2>2. HoldsVarint(m, p + k, val) /\ NumbersAt(m, p, k + EncodeVarintSize[val])
    BY <1>1, <1>2, <1>3
  <2>3. Ends(decodeVarints(m, p, k), decodeVarints(m, p, k + EncodeVarintSize[val]),
             decodeVarints(m, p, k).val + val * decodeVarints(m, p, k).place)
    BY <1>4, <2>1, <2>2, VarintRead
  <2>. QED  BY <1>1, <1>4, <2>1, <2>3
<1>. QED  BY <1>5, <1>6, <1>7, <1>8

\* Where the decoder is when it has read what the JIT'd code has stored so far of
\* an argument with the values vals.
Reads(at, s, vals) ==
  /\ at = "body" => s.done \/ AtVarint(s)
  /\ at = "end" => s.done \/ (AtVarint(s) /\ s.prev = Sentinel)
  /\ at = "written" => s.done
  /\ Sentinel \notin Values =>
       /\ s.vals = vals
       /\ at = "body" => ~s.done /\ s.prev # Sentinel
       /\ at = "end" => ~s.done

\* Before it has read anything it has read the empty body.
LEMMA ReadsStart == Reads("body", LoopStart, << >>)
BY DataSegmentAssumption DEF Reads, LoopStart, AtVarint

\* A value behind the others.
LEMMA ReadsValue ==
  ASSUME NEW s \in LoopStates, NEW r, NEW vals, NEW val \in Values, Reads("body", s, vals),
         s.done => r = s, AtVarint(s) => Ends(s, r, val)
  PROVE  Reads("body", r, Append(vals, val))
<1>1. CASE s.done
  BY <1>1 DEF Reads
<1>2. CASE ~s.done
  <2>1. AtVarint(s)
    BY <1>2 DEF Reads
  <2>2. Ends(s, r, val)
    BY <2>1
  <2>3. CASE val = Sentinel
    BY <2>2, <2>3 DEF Reads, Ends
  <2>4. CASE val # Sentinel
    <3>1. AtVarint(r) /\ r.prev = val /\ r.vals = Append(s.vals, val)
      BY <2>2, <2>4 DEF Ends
    <3>2. ~r.done
      BY <3>1 DEF AtVarint
    <3>3. Sentinel \notin Values => s.vals = vals
      BY DEF Reads
    <3>. QED  BY <2>4, <3>1, <3>2, <3>3 DEF Reads
  <2>. QED  BY <2>3, <2>4
<1>. QED  BY <1>1, <1>2

\* The first sentinel ends the values, the second the argument.
LEMMA ReadsSentinel ==
  ASSUME NEW s \in LoopStates, NEW r, NEW vals,
         s.done => r = s, AtVarint(s) => Ends(s, r, Sentinel)
  PROVE  /\ Reads("body", s, vals) => Reads("end", r, vals)
         /\ Reads("end", s, vals) => Reads("written", r, vals)
<1>1. ASSUME Reads("body", s, vals)
      PROVE  Reads("end", r, vals)
  <2>1. CASE s.done
    BY <1>1, <2>1 DEF Reads
  <2>2. CASE ~s.done
    <3>1. AtVarint(s) /\ Ends(s, r, Sentinel)
      BY <1>1, <2>2 DEF Reads
    <3>2. CASE s.prev = Sentinel
      BY <1>1, <3>1, <3>2 DEF Reads, Ends
    <3>3. CASE s.prev # Sentinel
      <4>1. AtVarint(r) /\ r.prev = Sentinel /\ r.vals = s.vals /\ ~r.done
        BY <3>1, <3>3 DEF Ends, AtVarint
      <4>. QED  BY <1>1, <4>1 DEF Reads
    <3>. QED  BY <3>2, <3>3
  <2>. QED  BY <2>1, <2>2
<1>2. ASSUME Reads("end", s, vals)
      PROVE  Reads("written", r, vals)
  <2>1. CASE s.done
    BY <1>2, <2>1 DEF Reads
  <2>2. CASE ~s.done
    <3>1. AtVarint(s) /\ s.prev = Sentinel
      BY <1>2, <2>2 DEF Reads
    <3>2. r.done /\ r.vals = s.vals
      BY <3>1 DEF Ends
    <3>. QED  BY <1>2, <3>2 DEF Reads
  <2>. QED  BY <2>1, <2>2
<1>. QED  BY <1>1, <1>2

\* With the last sentinel cut off: if the decoder is done nevertheless, it has
\* read the values.
ReadsIfDone(s, vals) == Sentinel \notin Values /\ s.done => s.vals = vals

\* The argument that fills the segment: its second sentinel is missing from what
\* the decoder reads, and what the segment holds of it does not end the loop
\* with other values.
LEMMA ReadsCut ==
  ASSUME NEW m \in [Cells -> Nat], NEW off \in Nat, off >= HeaderSize,
         off + EncodeVarintSize[Sentinel] = DataSize, NEW vals,
         Reads("end", loopAt(m, 0, off), vals)
  PROVE  ReadsIfDone(loopAt(m, 0, DataSize), vals)
<1>. USE DataSegmentAssumption
<1>. SUFFICES ASSUME Sentinel \notin Values, loopAt(m, 0, DataSize).done
              PROVE  loopAt(m, 0, DataSize).vals = vals
  BY DEF ReadsIfDone
<1>1. PICK z \in Nat : z = EncodeVarintSize[Sentinel]
  BY SentinelSize
<1>2. PICK p \in Nat, k \in Nat : p = 0 + HeaderSize /\ k = off - HeaderSize
                                  /\ k + z = DataSize - HeaderSize
  <2>1. 0 + HeaderSize \in Nat /\ off - HeaderSize \in Nat
        /\ (off - HeaderSize) + z = DataSize - HeaderSize
    BY <1>1 DEF HeaderSize
  <2>. QED  BY <2>1
<1>3. NumbersAt(m, p, k + z)
  <2>1. 0 + DataSize <= DataSize + Beyond /\ 0 \in Nat /\ DataSize >= HeaderSize /\ DataSize \in Nat
    OBVIOUS
  <2>2. NumbersAt(m, 0 + HeaderSize, DataSize - HeaderSize)
    BY <2>1, LoopAtLocal
  <2>. QED  BY <1>2, <2>2
<1>4. loopAt(m, 0, off) = decodeVarints(m, p, k)
      /\ loopAt(m, 0, DataSize) = decodeVarints(m, p, k + z)
  BY <1>2 DEF loopAt
<1>5. /\ AtVarint(decodeVarints(m, p, k)) /\ decodeVarints(m, p, k).prev = Sentinel
      /\ decodeVarints(m, p, k).vals = vals
  BY <1>4 DEF Reads
<1>6. decodeVarints(m, p, k + z).vals = decodeVarints(m, p, k).vals
  BY <1>1, <1>3, <1>4, <1>5, CutSentinel
<1>. QED  BY <1>4, <1>5, <1>6

\* The data of an ended argument, as they lie in the memory m: the header at b,
\* and n cells that the decoder makes the values vals of, if they fit.
ArgumentAt(m, cookie, b, n, vals) ==
  /\ b + 2 \in Cells
  /\ m[b] = oidMagicId /\ m[b + 1] = cookie /\ m[b + 2] = n
  /\ n < DataSize => /\ b + n <= DataSize + Beyond
                     /\ Reads("written", loopAt(m, b, n), vals)
  /\ n = DataSize /\ b = 0 => ReadsIfDone(loopAt(m, 0, DataSize), vals)

\* An argument stays where no cell of it is written.
LEMMA ArgumentKept ==
  ASSUME NEW m \in [Cells -> Nat], NEW o \in [Cells -> Nat], NEW cookie,
         NEW b \in Nat, NEW n \in Nat, n >= HeaderSize, NEW vals,
         ArgumentAt(m, cookie, b, n, vals), \A c \in Cells : c < b + n => o[c] = m[c]
  PROVE  ArgumentAt(o, cookie, b, n, vals)
<1>. USE DataSegmentAssumption
<1>1. b + 2 \in Cells /\ b \in Cells /\ b + 1 \in Cells /\ b < b + n /\ b + 1 < b + n /\ b + 2 < b + n
  BY DEF ArgumentAt, Cells, HeaderSize
<1>2. o[b] = m[b] /\ o[b + 1] = m[b + 1] /\ o[b + 2] = m[b + 2]
  BY <1>1
<1>3. b + n <= DataSize + Beyond => loopAt(o, b, n) = loopAt(m, b, n)
  BY LoopAtLocal
<1>4. n = DataSize /\ b = 0 => loopAt(o, 0, DataSize) = loopAt(m, 0, DataSize)
  BY <1>3
<1>. QED  BY <1>2, <1>3, <1>4 DEF ArgumentAt

\* The first n arguments.
ArgumentsAt(m, cookie, args, n) ==
  \A i \in 1 .. n : ArgumentAt(m, cookie, neededUpTo(args, i - 1), needed(args[i]), args[i])

\* So do the arguments before the one that is being written.
LEMMA ArgumentsKept ==
  ASSUME NEW m \in [Cells -> Nat], NEW o \in [Cells -> Nat], NEW cookie,
         NEW args \in Seq(Seq(Nat)), NEW more, NEW n \in 0 .. Len(args),
         \A k \in 1 .. n : more[k] = args[k],
         ArgumentsAt(m, cookie, args, n),
         \A c \in Cells : c < neededUpTo(args, n) => o[c] = m[c]
  PROVE  ArgumentsAt(o, cookie, more, n)
<1>. USE DataSegmentAssumption
<1>. SUFFICES ASSUME NEW i \in 1 .. n
              PROVE  ArgumentAt(o, cookie, neededUpTo(more, i - 1), needed(more[i]), more[i])
  BY DEF ArgumentsAt
<1>1. PICK j \in Nat : j = i - 1 /\ i = j + 1 /\ j + 1 <= Len(args)
  OBVIOUS
<1>2. neededUpTo(more, j) = neededUpTo(args, j) /\ more[i] = args[i]
  <2>1. \A k \in 1 .. j : more[k] = args[k]
    BY <1>1
  <2>. QED  BY <2>1, UpToSame
<1>3. /\ neededUpTo(args, i) = neededUpTo(args, j) + needed(args[i])
      /\ neededUpTo(args, j) \in Nat /\ needed(args[i]) \in Nat
      /\ needed(args[i]) >= HeaderSize
  BY <1>1, UpToNext
<1>4. neededUpTo(args, i) <= neededUpTo(args, n) /\ neededUpTo(args, n) \in Nat
  <2>1. i \in 0 .. n
    OBVIOUS
  <2>. QED  BY <2>1, UpToGrows, UpToNat
<1>5. PICK b \in Nat, l \in Nat, e \in Nat :
        /\ b = neededUpTo(args, j) /\ l = needed(args[i]) /\ e = neededUpTo(args, n)
        /\ b + l <= e /\ l >= HeaderSize
  BY <1>3, <1>4
<1>6. \A c \in Cells : c < b + l => o[c] = m[c]
  BY <1>5 DEF Cells
<1>7. ArgumentAt(m, cookie, b, l, args[i])
  BY <1>1, <1>5 DEF ArgumentsAt
<1>8. ArgumentAt(o, cookie, b, l, args[i])
  BY <1>5, <1>6, <1>7, ArgumentKept
<1>. QED  BY <1>1, <1>2, <1>5, <1>8

-----------------------------------------------------------------------------
(***************************************************************************)
(* The invariant of the data                                               *)
(***************************************************************************)

Writing == {"body", "end", "written"}

\* The arguments lie one behind the other, and the offset follows what has been
\* stored of the current one.
Cursors ==
  /\ dataBase = neededUpTo(stored, complete)
  /\ pc \in {"cookie", "size"} => stored[complete + 1] = << >>
  /\ pc = "body" => offset = bodySize(stored[complete + 1])
  /\ pc = "end" => offset = bodySize(stored[complete + 1]) + EncodeVarintSize[Sentinel]
  /\ pc = "written" => offset = needed(stored[complete + 1])
  /\ complete >= 1 => offset >= HeaderSize
  /\ pc = "fault" => Len(stored) = complete + 1 /\ complete < argCount
  /\ pc = "read" => complete = argCount

\* The header of the current argument has a size of 0 until its data are all there.
Header ==
  /\ pc \in {"cookie", "size"} \cup Writing
       => dataBase \in Cells /\ mem[dataBase] = oidMagicId
  /\ pc \in {"size"} \cup Writing
       => dataBase + 1 \in Cells /\ mem[dataBase + 1] = cookieOf(run)
  /\ pc \in Writing => dataBase + 2 \in Cells /\ mem[dataBase + 2] = 0
  /\ pc = "fault" /\ dataBase + HeaderSize <= DataSize => mem[dataBase + 2] = 0

\* The cookie in the first header is that of an earlier run until it is written.
OldCookie ==
  /\ mem[1] <= cookieOf(run)
  /\ pc = "magic" /\ complete = 0 => mem[1] < cookieOf(run)

\* What the decoder would read of the current argument.
Here ==
  /\ pc \in Writing /\ offset < DataSize =>
       /\ dataBase + offset <= DataSize + Beyond
       /\ Reads(pc, loopAt(mem, dataBase, offset), stored[complete + 1])
  /\ pc = "written" /\ offset = DataSize /\ complete = 0 =>
       ReadsIfDone(loopAt(mem, 0, DataSize), stored[complete + 1])

\* What it reads of the arguments before it.
Past == ArgumentsAt(mem, cookieOf(run), stored, complete)

\* What it has read.
Results ==
  /\ pc # "idle" => result = << >>
  /\ Sentinel \notin Values => DecodedIsStored
  /\ DecodedOrReported

DecodeInv == SegInv /\ Cursors /\ Header /\ OldCookie /\ Here /\ Past /\ Results

\* A store of the JIT'd code, exactly.
LEMMA StoredExactly ==
  ASSUME mem \in [Cells -> Nat], NEW base \in Nat, NEW cells \in Seq(Nat), NEW next,
         next # "fault", storesOrFaults(base, cells, next)
  PROVE  /\ mem' \in [Cells -> Nat]
         /\ \A c \in Cells : c < base => mem'[c] = mem[c]
         /\ pc' = "fault" => mem' = mem /\ ~mapped(base .. (base + Len(cells) - 1))
         /\ pc' # "fault" =>
              /\ pc' = next
              /\ \A j \in 1 .. Len(cells) :
                   base + j - 1 \in Cells /\ mem'[base + j - 1] = cells[j]
<1>. USE DataSegmentAssumption
<1>1. Cells \subseteq Nat /\ Len(cells) \in Nat /\ DOMAIN cells = 1 .. Len(cells)
  BY DEF Cells
<1>2. CASE mapped(base .. (base + Len(cells) - 1))
  <2>1. mem' = stores(base, cells) /\ pc' = next
    BY <1>2 DEF storesOrFaults
  <2>2. mem' \in [Cells -> Nat]
    BY <2>1, StoredCells
  <2>3. ASSUME NEW c \in Cells, c < base
        PROVE  mem'[c] = mem[c]
    <3>1. c \in Nat /\ c - base + 1 \notin DOMAIN cells
      BY <1>1, <2>3
    <3>. QED  BY <2>1, <3>1 DEF stores
  <2>4. ASSUME NEW j \in 1 .. Len(cells)
        PROVE  base + j - 1 \in Cells /\ mem'[base + j - 1] = cells[j]
    <3>1. base + j - 1 \in base .. (base + Len(cells) - 1)
      BY <1>1
    <3>2. base + j - 1 \in Cells
      BY <1>2, <3>1 DEF mapped
    <3>3. (base + j - 1) - base + 1 = j
      BY <1>1
    <3>4. stores(base, cells)[base + j - 1] = cells[j]
      BY <1>1, <3>2, <3>3 DEF stores
    <3>. QED  BY <2>1, <3>2, <3>4
  <2>. QED  BY <2>1, <2>2, <2>3, <2>4
<1>3. CASE ~mapped(base .. (base + Len(cells) - 1))
  BY <1>3 DEF storesOrFaults
<1>. QED  BY <1>2, <1>3

\* StoreData: the varint is in the memory behind the offset, or the offset has
\* reached the size of the segment, or the JIT'd code has faulted.
LEMMA StoreDataExactly ==
  ASSUME mem \in [Cells -> Nat], dataBase \in Nat, offset \in Nat, NEW val \in Nat,
         NEW next, next # "fault", StoreData(val, next)
  PROVE  /\ mem' \in [Cells -> Nat]
         /\ \A c \in Cells : c < dataBase + offset => mem'[c] = mem[c]
         /\ offset' = offset + EncodeVarintSize[val] /\ EncodeVarintSize[val] \in Nat \ {0}
         /\ pc' \in {next, "fault"}
         /\ pc' = next /\ offset' < DataSize =>
              /\ HoldsVarint(mem', dataBase + offset, val)
              /\ dataBase + offset' <= DataSize + Beyond
<1>. USE DataSegmentAssumption
<1>1. /\ EncodeVarint[val] \in Seq(Nat) /\ EncodeVarintSize[val] \in Nat
      /\ Len(EncodeVarint[val]) = EncodeVarintSize[val]
  BY EncodeVarintDef, EncodeVarintSizeDef, VarintSize
<1>2. EncodeVarintSize[val] # 0
  <2>1. EncodeVarintSize[val] = IF val < Radix THEN 1 ELSE 1 + EncodeVarintSize[High(val)]
    BY EncodeVarintSizeDef
  <2>2. EncodeVarintSize[High(val)] \in Nat
    BY Digits, EncodeVarintSizeDef
  <2>. QED  BY <2>1, <2>2
<1>3. offset' = offset + EncodeVarintSize[val]
  BY DEF StoreData
<1>4. PICK z \in Nat : z = EncodeVarintSize[val]
  BY <1>1
<1>5. CASE fits(EncodeVarintSize[val], offset)
  <2>1. storesOrFaults(dataBase + offset, EncodeVarint[val], next) /\ dataBase + offset \in Nat
    BY <1>5 DEF StoreData
  <2>2. /\ mem' \in [Cells -> Nat]
        /\ \A c \in Cells : c < dataBase + offset => mem'[c] = mem[c]
        /\ pc' # "fault" =>
             /\ pc' = next
             /\ \A j \in 1 .. Len(EncodeVarint[val]) :
                  /\ (dataBase + offset) + j - 1 \in Cells
                  /\ mem'[(dataBase + offset) + j - 1] = EncodeVarint[val][j]
    BY <1>1, <2>1, StoredExactly
  <2>3. ASSUME pc' = next
        PROVE  HoldsVarint(mem', dataBase + offset, val) /\ dataBase + offset' <= DataSize + Beyond
    <3>1. \A j \in 1 .. z : /\ (dataBase + offset) + j - 1 \in Cells
                            /\ mem'[(dataBase + offset) + j - 1] = EncodeVarint[val][j]
      BY <1>1, <1>4, <2>2, <2>3
    <3>2. z \in 1 .. z
      BY <1>2, <1>4
    <3>3. (dataBase + offset) + z - 1 \in Cells
      BY <3>1, <3>2
    <3>4. dataBase + (offset + z) <= DataSize + Beyond
      BY <3>3 DEF Cells
    <3>. QED  BY <1>3, <1>4, <3>1, <3>4 DEF HoldsVarint
  <2>. QED  BY <1>1, <1>2, <1>3, <2>2, <2>3
<1>6. CASE ~fits(EncodeVarintSize[val], offset)
  <2>1. mem' = mem /\ pc' = next
    BY <1>6 DEF StoreData
  <2>2. ~(offset' < DataSize)
    BY <1>3, <1>4, <1>6 DEF fits
  <2>. QED  BY <1>1, <1>2, <1>3, <2>1, <2>2
<1>. QED  BY <1>5, <1>6

\* The types of the state.
LEMMA StateTypes ==
  ASSUME SegInv
  PROVE  /\ argCount \in Nat \ {0} /\ mem \in [Cells -> Nat] /\ run \in Nat
         /\ dataBase \in Nat /\ offset \in Nat
         /\ complete \in Nat /\ complete <= argCount
         /\ stored \in Seq(Seq(Nat)) /\ Len(stored) \in Nat
         /\ complete <= Len(stored) /\ Len(stored) <= complete + 1
         /\ cookieOf(run) \in Nat /\ oidMagicId \in Nat
         /\ {0, 1, 2} \subseteq Cells
<1>. USE DataSegmentAssumption
<1>1. TypeOK /\ Progress
  BY DEF SegInv
<1>2. argCount \in Nat \ {0}
  BY <1>1 DEF TypeOK
<1>3. stored \in Seq(Seq(Nat)) /\ Len(stored) \in Nat
  BY <1>1 DEF Progress
<1>4. complete \in 0 .. argCount /\ Len(stored) \in complete .. (complete + 1)
  BY <1>1 DEF TypeOK
<1>5. complete \in Nat /\ complete <= argCount /\ complete <= Len(stored) /\ Len(stored) <= complete + 1
  BY <1>2, <1>3, <1>4
<1>6. mem \in [Cells -> Nat] /\ run \in Nat /\ dataBase \in Nat /\ offset \in Nat
  BY <1>1 DEF TypeOK
<1>7. {0, 1, 2} \subseteq Cells
  BY DEF Cells, HeaderSize
<1>. QED  BY <1>2, <1>3, <1>5, <1>6, <1>7 DEF cookieOf, oidMagicId

\* The second argument starts behind the header of the first.
LEMMA BehindFirst ==
  ASSUME NEW args \in Seq(Seq(Nat)), NEW n \in 1 .. Len(args)
  PROVE  /\ neededUpTo(args, 1) = needed(args[1]) /\ needed(args[1]) \in Nat
         /\ needed(args[1]) >= HeaderSize
         /\ needed(args[1]) <= neededUpTo(args, n)
<1>1. 0 \in Nat /\ 0 + 1 <= Len(args) /\ 0 + 1 = 1
  OBVIOUS
<1>2. neededUpTo(args, 1) = neededUpTo(args, 0) + needed(args[1])
      /\ needed(args[1]) \in Nat /\ needed(args[1]) >= HeaderSize
  BY <1>1, UpToNext
<1>3. neededUpTo(args, 1) <= neededUpTo(args, n)
  <2>1. n \in 0 .. Len(args) /\ 1 \in 0 .. n
    OBVIOUS
  <2>. QED  BY <2>1, UpToGrows
<1>. QED  BY <1>2, <1>3, UpToNone

\* Without a result there is nothing to say about it.
LEMMA NoResult == result' = << >> => Results'
<1>. SUFFICES ASSUME result' = << >>
              PROVE  Results'
  OBVIOUS
<1>1. DOMAIN result' = {}
  OBVIOUS
<1>2. DecodedIsStored'
  BY <1>1 DEF DecodedIsStored
<1>3. DecodedOrReported'
  BY DEF DecodedOrReported
<1>. QED  BY <1>2, <1>3 DEF Results

\* The segment is created by ftruncate and holds zeros.
LEMMA DecodeInit == Init => DecodeInv
<1>. SUFFICES ASSUME Init
              PROVE  DecodeInv
  OBVIOUS
<1>. USE DataSegmentAssumption
<1>0. SegInv
  BY SegInit
<1>1. pc = "idle" /\ complete = 0 /\ dataBase = 0 /\ stored = << >> /\ result = << >> /\ run = 0
  BY DEF Init
<1>2. Cursors
  BY <1>1, UpToNone DEF Cursors
<1>3. Header /\ Here
  BY <1>1 DEF Header, Here, Writing
<1>4. mem[1] = 0 /\ cookieOf(run) \in Nat
  BY <1>0, <1>1, StateTypes DEF Init, HeaderSize
<1>5. OldCookie
  BY <1>1, <1>4 DEF OldCookie
<1>6. Past
  BY <1>1 DEF Past, ArgumentsAt
<1>7. DOMAIN result = {}
  BY <1>1
<1>8. Results
  BY <1>1, <1>7 DEF Results, DecodedIsStored, DecodedOrReported
<1>. QED  BY <1>0, <1>2, <1>3, <1>5, <1>6, <1>8 DEF DecodeInv

\* A new run: no argument has been written, and the cookie of the last one is in
\* the segment still.
LEMMA StepStartProbe ==
  ASSUME DecodeInv, SegInv', StartProbe
  PROVE  DecodeInv'
<1>. USE DataSegmentAssumption
<1>1. /\ pc' = "magic" /\ complete' = 0 /\ dataBase' = 0 /\ stored' = << >> /\ result' = << >>
      /\ run' = run + 1 /\ mem' = mem
  BY DEF StartProbe
<1>2. Cursors'
  BY <1>1, UpToNone DEF Cursors
<1>3. Header' /\ Here'
  BY <1>1 DEF Header, Here, Writing
<1>4. OldCookie'
  <2>1. mem[1] <= cookieOf(run) /\ mem[1] \in Nat /\ run \in Nat
    BY StateTypes DEF DecodeInv, OldCookie
  <2>. QED  BY <1>1, <2>1 DEF OldCookie, cookieOf
<1>5. Past'
  BY <1>1 DEF Past, ArgumentsAt
<1>6. Results'
  BY <1>1, NoResult
<1>. QED  BY <1>2, <1>3, <1>4, <1>5, <1>6 DEF DecodeInv

\* The arguments that are ended stay as they are while the JIT'd code writes the
\* next one.
LEMMA PastKept ==
  ASSUME DecodeInv, mem' \in [Cells -> Nat], run' = run, complete' = complete,
         \A k \in 1 .. complete : stored'[k] = stored[k],
         \A c \in Cells : c < dataBase => mem'[c] = mem[c]
  PROVE  Past' /\ neededUpTo(stored', complete) = dataBase
<1>1. /\ mem \in [Cells -> Nat] /\ stored \in Seq(Seq(Nat)) /\ complete \in 0 .. Len(stored)
      /\ complete \in Nat
  BY StateTypes DEF DecodeInv
<1>2. dataBase = neededUpTo(stored, complete) /\ ArgumentsAt(mem, cookieOf(run), stored, complete)
  BY DEF DecodeInv, Cursors, Past
<1>3. PICK o, more : o = mem' /\ more = stored'
  OBVIOUS
<1>4. ArgumentsAt(o, cookieOf(run), more, complete)
  BY <1>1, <1>2, <1>3, ArgumentsKept
<1>5. neededUpTo(more, complete) = neededUpTo(stored, complete)
  BY <1>1, <1>3, UpToSame
<1>6. ArgumentsAt(mem', cookieOf(run'), stored', complete')
  BY <1>3, <1>4
<1>. QED  BY <1>2, <1>3, <1>5, <1>6 DEF Past

\* The cookie of the first header is that of an earlier run, or written by this one.
LEMMA CookieKept ==
  ASSUME DecodeInv, mem' \in [Cells -> Nat], run' = run, pc' # "magic" \/ complete' # 0,
         mem'[1] = mem[1] \/ mem'[1] = cookieOf(run)
  PROVE  OldCookie'
<1>1. mem[1] <= cookieOf(run) /\ cookieOf(run) \in Nat
  BY StateTypes DEF DecodeInv, OldCookie
<1>2. mem'[1] <= cookieOf(run')
  BY <1>1 DEF cookieOf
<1>. QED  BY <1>2 DEF OldCookie

\* The first argument is at the start, another one behind it.
LEMMA BaseZero ==
  ASSUME DecodeInv
  PROVE  dataBase = 0 \/ (complete >= 1 /\ dataBase >= HeaderSize)
<1>1. stored \in Seq(Seq(Nat)) /\ complete \in Nat /\ complete <= Len(stored) /\ Len(stored) \in Nat
      /\ dataBase = neededUpTo(stored, complete)
  BY StateTypes DEF DecodeInv, Cursors
<1>2. CASE complete = 0
  BY <1>1, <1>2, UpToNone
<1>3. CASE complete # 0
  <2>1. complete \in 1 .. Len(stored)
    BY <1>1, <1>3
  <2>2. needed(stored[1]) \in Nat /\ needed(stored[1]) >= HeaderSize /\ needed(stored[1]) <= dataBase
    BY <1>1, <2>1, BehindFirst
  <2>3. dataBase \in Nat
    BY StateTypes DEF DecodeInv
  <2>. QED  BY <1>1, <1>3, <2>2, <2>3 DEF HeaderSize
<1>. QED  BY <1>2, <1>3

\* The magic id of an argument.
LEMMA StepWriteMagic ==
  ASSUME DecodeInv, SegInv', WriteMagic
  PROVE  DecodeInv'
<1>. USE DataSegmentAssumption
<1>0. /\ SegInv /\ mem \in [Cells -> Nat] /\ dataBase \in Nat /\ oidMagicId \in Nat
      /\ stored \in Seq(Seq(Nat)) /\ complete \in Nat /\ run \in Nat
      /\ {0, 1, 2} \subseteq Cells
  BY StateTypes DEF DecodeInv
<1>1. /\ storesOrFaults(dataBase, <<oidMagicId>>, "cookie") /\ stored' = Append(stored, << >>)
      /\ dataBase' = dataBase /\ complete' = complete /\ run' = run /\ result' = result
      /\ offset' = offset /\ argCount' = argCount /\ pc = "magic"
  BY DEF WriteMagic
<1>2. Len(stored) = complete /\ complete < argCount
  BY <1>0, <1>1 DEF SegInv, Progress
<1>3. <<oidMagicId>> \in Seq(Nat) /\ Len(<<oidMagicId>>) = 1 /\ <<oidMagicId>>[1] = oidMagicId
  BY <1>0
<1>. HIDE DEF oidMagicId
<1>4. /\ mem' \in [Cells -> Nat]
      /\ \A c \in Cells : c < dataBase => mem'[c] = mem[c]
      /\ pc' = "fault" => mem' = mem /\ ~mapped(dataBase .. (dataBase + 1 - 1))
      /\ pc' # "fault" =>
           /\ pc' = "cookie"
           /\ \A j \in 1 .. 1 :
                dataBase + j - 1 \in Cells /\ mem'[dataBase + j - 1] = <<oidMagicId>>[j]
  BY <1>0, <1>1, <1>3, StoredExactly
<1>5. \A c \in Cells : c >= dataBase + 1 => mem'[c] = mem[c]
  <2>1. \A c \in Cells : c >= dataBase + Len(<<oidMagicId>>) => mem'[c] = mem[c]
    BY <1>0, <1>1, <1>3, StoreEffect
  <2>. QED  BY <1>3, <2>1
<1>6. pc' # "fault" => dataBase \in Cells /\ mem'[dataBase] = oidMagicId
  <2>1. 1 \in 1 .. 1 /\ dataBase + 1 - 1 = dataBase
    BY <1>0
  <2>. QED  BY <1>3, <1>4, <2>1
<1>7. /\ \A k \in 1 .. complete : stored'[k] = stored[k]
      /\ stored'[complete + 1] = << >> /\ Len(stored') = complete + 1
  BY <1>0, <1>1, <1>2
<1>8. Past' /\ neededUpTo(stored', complete) = dataBase
  BY <1>1, <1>4, <1>7, PastKept
<1>9. Cursors'
  BY <1>1, <1>2, <1>4, <1>7, <1>8 DEF Cursors, DecodeInv
<1>10. Header'
  <2>1. pc' = "fault" => ~(dataBase + HeaderSize <= DataSize)
    <3>1. dataBase + 1 - 1 = dataBase /\ dataBase .. dataBase = {dataBase}
      BY <1>0
    <3>2. pc' = "fault" => dataBase \notin Cells
      BY <1>4, <3>1 DEF mapped
    <3>. QED  BY <1>0, <3>2 DEF Cells, HeaderSize
  <2>. QED  BY <1>1, <1>4, <1>6, <2>1 DEF Header, Writing
<1>11. mem'[1] = mem[1]
  BY <1>0, <1>4, <1>5, BaseZero DEF HeaderSize
<1>12. OldCookie' /\ Here' /\ Results'
  <2>1. OldCookie'
    BY <1>1, <1>4, <1>11, CookieKept
  <2>2. Here'
    BY <1>4 DEF Here, Writing
  <2>3. result' = << >>
    BY <1>1 DEF DecodeInv, Results
  <2>. QED  BY <2>1, <2>2, <2>3, NoResult
<1>. QED  BY <1>8, <1>9, <1>10, <1>12 DEF DecodeInv

\* Its cookie.
LEMMA StepWriteCookie ==
  ASSUME DecodeInv, SegInv', WriteCookie
  PROVE  DecodeInv'
<1>. USE DataSegmentAssumption
<1>0. /\ SegInv /\ mem \in [Cells -> Nat] /\ dataBase \in Nat /\ cookieOf(run) \in Nat
      /\ stored \in Seq(Seq(Nat)) /\ complete \in Nat /\ run \in Nat
      /\ {0, 1, 2} \subseteq Cells
  BY StateTypes DEF DecodeInv
<1>1. /\ storesOrFaults(dataBase + 1, <<cookieOf(run)>>, "size") /\ stored' = stored
      /\ dataBase' = dataBase /\ complete' = complete /\ run' = run /\ result' = result
      /\ offset' = offset /\ argCount' = argCount /\ pc = "cookie"
  BY DEF WriteCookie
<1>2. Len(stored) = complete + 1 /\ complete < argCount
  BY <1>0, <1>1 DEF SegInv, Progress
<1>3. <<cookieOf(run)>> \in Seq(Nat) /\ Len(<<cookieOf(run)>>) = 1
      /\ <<cookieOf(run)>>[1] = cookieOf(run) /\ dataBase + 1 \in Nat
  BY <1>0
<1>4. /\ mem' \in [Cells -> Nat]
      /\ \A c \in Cells : c < dataBase + 1 => mem'[c] = mem[c]
      /\ pc' = "fault" => mem' = mem /\ ~mapped(dataBase + 1 .. (dataBase + 1 + 1 - 1))
      /\ pc' # "fault" =>
           /\ pc' = "size"
           /\ \A j \in 1 .. 1 :
                dataBase + 1 + j - 1 \in Cells /\ mem'[dataBase + 1 + j - 1] = <<cookieOf(run)>>[j]
  BY <1>0, <1>1, <1>3, StoredExactly
<1>6. pc' # "fault" => dataBase + 1 \in Cells /\ mem'[dataBase + 1] = cookieOf(run)
  <2>1. 1 \in 1 .. 1 /\ dataBase + 1 + 1 - 1 = dataBase + 1
    BY <1>0
  <2>. QED  BY <1>3, <1>4, <2>1
<1>7. dataBase \in Cells /\ mem'[dataBase] = oidMagicId /\ \A c \in Cells : c < dataBase => mem'[c] = mem[c]
  <2>1. dataBase \in Cells /\ mem[dataBase] = oidMagicId
    BY <1>1 DEF DecodeInv, Header
  <2>. QED  BY <1>0, <1>4, <2>1 DEF Cells
<1>8. Past' /\ neededUpTo(stored', complete) = dataBase
  BY <1>1, <1>4, <1>7, PastKept
<1>9. Cursors'
  BY <1>1, <1>2, <1>4, <1>8 DEF Cursors, DecodeInv
<1>10. Header'
  <2>1. pc' = "fault" => ~(dataBase + HeaderSize <= DataSize)
    <3>1. dataBase + 1 + 1 - 1 = dataBase + 1 /\ (dataBase + 1) .. (dataBase + 1) = {dataBase + 1}
      BY <1>0
    <3>2. pc' = "fault" => dataBase + 1 \notin Cells
      BY <1>4, <3>1 DEF mapped
    <3>. QED  BY <1>0, <3>2 DEF Cells, HeaderSize
  <2>. QED  BY <1>1, <1>4, <1>6, <1>7, <2>1 DEF Header, Writing
<1>11. mem'[1] = mem[1] \/ mem'[1] = cookieOf(run)
  <2>1. CASE dataBase = 0
    BY <1>4, <1>6, <2>1
  <2>2. CASE dataBase # 0
    BY <1>0, <1>4, <2>2, BaseZero DEF HeaderSize
  <2>. QED  BY <2>1, <2>2
<1>12. OldCookie' /\ Here' /\ Results'
  <2>1. OldCookie'
    BY <1>1, <1>4, <1>11, CookieKept
  <2>2. Here'
    BY <1>4 DEF Here, Writing
  <2>3. result' = << >>
    BY <1>1 DEF DecodeInv, Results
  <2>. QED  BY <2>1, <2>2, <2>3, NoResult
<1>. QED  BY <1>8, <1>9, <1>10, <1>12 DEF DecodeInv

\* Its size, zero until it is complete.
LEMMA StepResetSize ==
  ASSUME DecodeInv, SegInv', ResetSize
  PROVE  DecodeInv'
<1>. USE DataSegmentAssumption
<1>0. /\ SegInv /\ mem \in [Cells -> Nat] /\ dataBase \in Nat /\ cookieOf(run) \in Nat
      /\ stored \in Seq(Seq(Nat)) /\ complete \in Nat /\ run \in Nat
      /\ {0, 1, 2} \subseteq Cells
  BY StateTypes DEF DecodeInv
<1>1. /\ storesOrFaults(dataBase + 2, <<0>>, "body") /\ stored' = stored
      /\ dataBase' = dataBase /\ complete' = complete /\ run' = run /\ result' = result
      /\ offset' = HeaderSize /\ argCount' = argCount /\ pc = "size"
  BY DEF ResetSize
<1>2. Len(stored) = complete + 1 /\ complete < argCount
  BY <1>0, <1>1 DEF SegInv, Progress
<1>3. <<0>> \in Seq(Nat) /\ Len(<<0>>) = 1 /\ <<0>>[1] = 0 /\ dataBase + 2 \in Nat
  BY <1>0
<1>4. /\ mem' \in [Cells -> Nat]
      /\ \A c \in Cells : c < dataBase + 2 => mem'[c] = mem[c]
      /\ pc' = "fault" => mem' = mem /\ ~mapped(dataBase + 2 .. (dataBase + 2 + 1 - 1))
      /\ pc' # "fault" =>
           /\ pc' = "body"
           /\ \A j \in 1 .. 1 : dataBase + 2 + j - 1 \in Cells /\ mem'[dataBase + 2 + j - 1] = <<0>>[j]
  BY <1>0, <1>1, <1>3, StoredExactly
<1>6. pc' # "fault" => dataBase + 2 \in Cells /\ mem'[dataBase + 2] = 0
  <2>1. 1 \in 1 .. 1 /\ dataBase + 2 + 1 - 1 = dataBase + 2
    BY <1>0
  <2>. QED  BY <1>3, <1>4, <2>1
<1>7. /\ dataBase \in Cells /\ mem'[dataBase] = oidMagicId
      /\ dataBase + 1 \in Cells /\ mem'[dataBase + 1] = cookieOf(run)
      /\ \A c \in Cells : c < dataBase => mem'[c] = mem[c]
  <2>1. /\ dataBase \in Cells /\ mem[dataBase] = oidMagicId
        /\ dataBase + 1 \in Cells /\ mem[dataBase + 1] = cookieOf(run)
    BY <1>1 DEF DecodeInv, Header
  <2>2. dataBase < dataBase + 2 /\ dataBase + 1 < dataBase + 2 /\ \A c \in Cells : c < dataBase => c < dataBase + 2
    BY <1>0 DEF Cells
  <2>. QED  BY <1>4, <2>1, <2>2
<1>8. Past' /\ neededUpTo(stored', complete) = dataBase
  BY <1>1, <1>4, <1>7, PastKept
<1>9. stored[complete + 1] = << >>
  BY <1>1 DEF DecodeInv, Cursors
<1>10. Cursors'
  <2>1. offset' = bodySize(stored[complete + 1])
    BY <1>1, <1>9, BodySizeEmpty
  <2>2. HeaderSize >= HeaderSize
    BY DEF HeaderSize
  <2>. QED  BY <1>1, <1>2, <1>4, <1>8, <2>1, <2>2 DEF Cursors
<1>11. Header'
  <2>1. pc' = "fault" => ~(dataBase + HeaderSize <= DataSize)
    <3>1. dataBase + 2 + 1 - 1 = dataBase + 2 /\ (dataBase + 2) .. (dataBase + 2) = {dataBase + 2}
      BY <1>0
    <3>2. pc' = "fault" => dataBase + 2 \notin Cells
      BY <1>4, <3>1 DEF mapped
    <3>. QED  BY <1>0, <3>2 DEF Cells, HeaderSize
  <2>. QED  BY <1>1, <1>4, <1>6, <1>7, <2>1 DEF Header, Writing
<1>12. OldCookie'
  <2>1. mem'[1] = mem[1]
    BY <1>0, <1>4
  <2>. QED  BY <1>1, <1>4, <2>1, CookieKept
<1>13. Here'
  <2>1. CASE pc' = "fault"
    BY <2>1 DEF Here, Writing
  <2>2. CASE pc' # "fault"
    <3>1. pc' = "body" /\ dataBase + 2 \in Cells
      BY <1>4, <1>6, <2>2
    <3>2. dataBase + HeaderSize <= DataSize + Beyond
      BY <1>0, <3>1 DEF Cells, HeaderSize
    <3>3. loopAt(mem', dataBase, HeaderSize) = LoopStart
      <4>1. HeaderSize - HeaderSize = 0 /\ dataBase + HeaderSize \in Nat
        BY <1>0 DEF HeaderSize
      <4>. QED  BY <4>1, LoopEmpty DEF loopAt
    <3>4. Reads(pc', loopAt(mem', dataBase', offset'), stored'[complete' + 1])
      BY <1>1, <1>9, <3>1, <3>3, ReadsStart
    <3>5. dataBase' + offset' <= DataSize + Beyond
      BY <1>1, <3>2
    <3>. QED  BY <3>1, <3>4, <3>5 DEF Here
  <2>. QED  BY <2>1, <2>2
<1>14. Results'
  <2>1. result' = << >>
    BY <1>1 DEF DecodeInv, Results
  <2>. QED  BY <2>1, NoResult
<1>. QED  BY <1>8, <1>10, <1>11, <1>12, <1>13, <1>14 DEF DecodeInv

\* What a store of the JIT'd code behind the header leaves of the current argument.
LEMMA StoreDataKeeps ==
  ASSUME DecodeInv, pc \in {"body", "end"}, NEW val \in Nat, NEW next, next # "fault",
         next # "magic", StoreData(val, next), run' = run, complete' = complete,
         dataBase' = dataBase, \A k \in 1 .. complete : stored'[k] = stored[k]
  PROVE  /\ Past' /\ neededUpTo(stored', complete) = dataBase /\ OldCookie'
         /\ dataBase \in Cells /\ mem'[dataBase] = oidMagicId
         /\ dataBase + 1 \in Cells /\ mem'[dataBase + 1] = cookieOf(run)
         /\ dataBase + 2 \in Cells /\ mem'[dataBase + 2] = 0
         /\ offset \in Nat /\ offset >= HeaderSize
         /\ offset' = offset + EncodeVarintSize[val] /\ EncodeVarintSize[val] \in Nat \ {0}
         /\ pc' \in {next, "fault"} /\ mem' \in [Cells -> Nat]
         /\ offset < DataSize =>
              Reads(pc, loopAt(mem', dataBase, offset), stored[complete + 1])
         /\ pc' = next /\ offset' < DataSize =>
              /\ HoldsVarint(mem', dataBase + offset, val)
              /\ dataBase + offset' <= DataSize + Beyond
<1>. USE DataSegmentAssumption
<1>0. /\ mem \in [Cells -> Nat] /\ dataBase \in Nat /\ offset \in Nat /\ SegInv
      /\ stored \in Seq(Seq(Nat)) /\ complete \in Nat /\ Len(stored) = complete + 1
      /\ {0, 1, 2} \subseteq Cells
  <2>1. SegInv
    BY DEF DecodeInv
  <2>2. Len(stored) = complete + 1
    BY <2>1 DEF SegInv, Progress
  <2>. QED  BY <2>1, <2>2, StateTypes
<1>1. offset >= HeaderSize
  <2>1. stored[complete + 1] \in Seq(Nat)
    <3>1. complete + 1 \in 1 .. Len(stored)
      BY <1>0
    <3>. QED  BY <1>0, <3>1
  <2>2. bodySize(stored[complete + 1]) \in Nat /\ bodySize(stored[complete + 1]) >= HeaderSize
    BY <2>1, BodySizeNat
  <2>3. EncodeVarintSize[Sentinel] \in Nat
    BY SentinelSize
  <2>4. \/ offset = bodySize(stored[complete + 1])
        \/ offset = bodySize(stored[complete + 1]) + EncodeVarintSize[Sentinel]
    BY DEF DecodeInv, Cursors
  <2>5. PICK a \in Nat, e \in Nat : a = bodySize(stored[complete + 1]) /\ e = EncodeVarintSize[Sentinel]
    BY <2>2, <2>3
  <2>6. a >= HeaderSize /\ (offset = a \/ offset = a + e)
    BY <2>2, <2>4, <2>5
  <2>. QED  BY <2>6 DEF HeaderSize
<1>2. /\ mem' \in [Cells -> Nat]
      /\ \A c \in Cells : c < dataBase + offset => mem'[c] = mem[c]
      /\ offset' = offset + EncodeVarintSize[val] /\ EncodeVarintSize[val] \in Nat \ {0}
      /\ pc' \in {next, "fault"}
      /\ pc' = next /\ offset' < DataSize =>
           /\ HoldsVarint(mem', dataBase + offset, val)
           /\ dataBase + offset' <= DataSize + Beyond
  BY <1>0, StoreDataExactly
<1>3. /\ dataBase \in Cells /\ mem[dataBase] = oidMagicId
      /\ dataBase + 1 \in Cells /\ mem[dataBase + 1] = cookieOf(run)
      /\ dataBase + 2 \in Cells /\ mem[dataBase + 2] = 0
  BY DEF DecodeInv, Header, Writing
<1>4. /\ dataBase < dataBase + offset /\ dataBase + 1 < dataBase + offset
      /\ dataBase + 2 < dataBase + offset /\ 1 < dataBase + offset
      /\ \A c \in Cells : c < dataBase => c < dataBase + offset
  BY <1>0, <1>1 DEF HeaderSize, Cells
<1>5. Past' /\ neededUpTo(stored', complete) = dataBase
  <2>1. \A c \in Cells : c < dataBase => mem'[c] = mem[c]
    BY <1>2, <1>4
  <2>. QED  BY <1>2, <2>1, PastKept
<1>6. OldCookie'
  <2>1. mem'[1] = mem[1]
    BY <1>0, <1>2, <1>4
  <2>2. pc' # "magic"
    BY <1>2
  <2>. QED  BY <1>2, <2>1, <2>2, CookieKept
<1>7. ASSUME offset < DataSize
      PROVE  Reads(pc, loopAt(mem', dataBase, offset), stored[complete + 1])
  <2>1. /\ dataBase + offset <= DataSize + Beyond
        /\ Reads(pc, loopAt(mem, dataBase, offset), stored[complete + 1])
    BY <1>7 DEF DecodeInv, Here, Writing
  <2>2. PICK o \in [Cells -> Nat] : o = mem'
    BY <1>2
  <2>3. ASSUME NEW c \in Cells, dataBase + HeaderSize <= c /\ c < dataBase + offset
        PROVE  o[c] = mem[c]
    BY <1>2, <2>2, <2>3
  <2>4. loopAt(o, dataBase, offset) = loopAt(mem, dataBase, offset)
    <3>1. mem \in [Cells -> Nat] /\ dataBase \in Nat /\ offset \in Nat
      BY <1>0
    <3>2. dataBase + offset <= DataSize + Beyond
      BY <2>1
    <3>. QED  BY <1>1, <2>3, <3>1, <3>2, LoopAtLocal
  <2>. QED  BY <2>1, <2>2, <2>4
<1>. QED  BY <1>0, <1>1, <1>2, <1>3, <1>4, <1>5, <1>6, <1>7

\* A value, or its size alone where there is no room for it.
LEMMA StepStoreValue ==
  ASSUME DecodeInv, SegInv', NEW val \in Values, StoreValue(val)
  PROVE  DecodeInv'
<1>. USE DataSegmentAssumption
<1>0. /\ SegInv /\ mem \in [Cells -> Nat] /\ dataBase \in Nat /\ offset \in Nat
      /\ stored \in Seq(Seq(Nat)) /\ complete \in Nat /\ val \in Nat
  BY StateTypes DEF DecodeInv
<1>1. /\ StoreData(val, "body") /\ stored' = [stored EXCEPT ![Len(stored)] = Append(@, val)]
      /\ dataBase' = dataBase /\ complete' = complete /\ run' = run /\ result' = result
      /\ argCount' = argCount /\ pc = "body"
  BY DEF StoreValue
<1>2. Len(stored) = complete + 1 /\ complete < argCount
  BY <1>0, <1>1 DEF SegInv, Progress
<1>3. /\ \A k \in 1 .. complete : stored'[k] = stored[k]
      /\ stored'[complete + 1] = Append(stored[complete + 1], val)
      /\ Len(stored') = complete + 1 /\ stored[complete + 1] \in Seq(Nat)
  <2>1. complete + 1 \in 1 .. Len(stored) /\ \A k \in 1 .. complete : k \in 1 .. Len(stored) /\ k # complete + 1
    BY <1>0, <1>2
  <2>2. stored' = [stored EXCEPT ![complete + 1] = Append(stored[complete + 1], val)]
    BY <1>1, <1>2
  <2>. QED  BY <1>0, <1>2, <2>1, <2>2
<1>4. /\ Past' /\ neededUpTo(stored', complete) = dataBase /\ OldCookie'
      /\ dataBase \in Cells /\ mem'[dataBase] = oidMagicId
      /\ dataBase + 1 \in Cells /\ mem'[dataBase + 1] = cookieOf(run)
      /\ dataBase + 2 \in Cells /\ mem'[dataBase + 2] = 0
      /\ offset \in Nat /\ offset >= HeaderSize
      /\ offset' = offset + EncodeVarintSize[val] /\ EncodeVarintSize[val] \in Nat \ {0}
      /\ pc' \in {"body", "fault"} /\ mem' \in [Cells -> Nat]
      /\ offset < DataSize =>
           Reads("body", loopAt(mem', dataBase, offset), stored[complete + 1])
      /\ pc' = "body" /\ offset' < DataSize =>
           /\ HoldsVarint(mem', dataBase + offset, val)
           /\ dataBase + offset' <= DataSize + Beyond
  BY <1>0, <1>1, <1>3, StoreDataKeeps
<1>5. Cursors'
  <2>1. offset = bodySize(stored[complete + 1])
    BY <1>1 DEF DecodeInv, Cursors
  <2>2. offset' = bodySize(stored'[complete + 1])
    <3>1. PICK vals \in Seq(Nat) : vals = stored[complete + 1]
      BY <1>3
    <3>2. bodySize(Append(vals, val)) = bodySize(vals) + EncodeVarintSize[val]
      BY <1>0, <3>1, BodySizeAppend
    <3>3. stored'[complete + 1] = Append(vals, val)
      BY <1>3, <3>1
    <3>. QED  BY <1>4, <2>1, <3>1, <3>2, <3>3
  <2>3. offset' >= HeaderSize
    BY <1>4 DEF HeaderSize
  <2>. QED  BY <1>1, <1>2, <1>3, <1>4, <2>2, <2>3 DEF Cursors
<1>6. Header'
  BY <1>1, <1>4 DEF Header, Writing
<1>7. Here'
  <2>. SUFFICES ASSUME pc' = "body", offset' < DataSize
                PROVE  /\ dataBase' + offset' <= DataSize + Beyond
                       /\ Reads(pc', loopAt(mem', dataBase', offset'), stored'[complete' + 1])
    BY <1>4 DEF Here, Writing
  <2>1. offset < DataSize
    BY <1>4
  <2>2. PICK o \in [Cells -> Nat] : o = mem'
    BY <1>4
  <2>3. PICK s, r : s = loopAt(o, dataBase, offset) /\ r = loopAt(o, dataBase, offset + EncodeVarintSize[val])
    OBVIOUS
  <2>4. s \in LoopStates /\ (s.done => r = s) /\ (AtVarint(s) => Ends(s, r, val))
    <3>1. HoldsVarint(o, dataBase + offset, val)
      BY <1>4, <2>2
    <3>2. dataBase + (offset + EncodeVarintSize[val]) <= DataSize + Beyond
      BY <1>4
    <3>3. dataBase \in Nat /\ offset \in Nat /\ offset >= HeaderSize /\ val \in Nat
      BY <1>0, <1>4
    <3>. QED  BY <2>3, <3>1, <3>2, <3>3, LoopAtStored
  <2>5. Reads("body", s, stored[complete + 1])
    BY <1>4, <2>1, <2>2, <2>3
  <2>6. Reads("body", r, Append(stored[complete + 1], val))
    BY <2>4, <2>5, ReadsValue
  <2>. QED  BY <1>1, <1>3, <1>4, <2>2, <2>3, <2>6
<1>8. Results'
  <2>1. result' = << >>
    BY <1>1 DEF DecodeInv, Results
  <2>. QED  BY <2>1, NoResult
<1>. QED  BY <1>4, <1>5, <1>6, <1>7, <1>8 DEF DecodeInv

\* One of the two sentinels.
LEMMA StepStoreSentinel ==
  ASSUME DecodeInv, SegInv', StoreSentinel
  PROVE  DecodeInv'
<1>. USE DataSegmentAssumption
<1>0. /\ SegInv /\ mem \in [Cells -> Nat] /\ dataBase \in Nat /\ offset \in Nat
      /\ stored \in Seq(Seq(Nat)) /\ complete \in Nat /\ Sentinel \in Nat
  BY StateTypes DEF DecodeInv
<1>1. PICK next \in {"end", "written"} :
      /\ next = IF pc = "body" THEN "end" ELSE "written"
      /\ StoreData(Sentinel, next) /\ stored' = stored
      /\ dataBase' = dataBase /\ complete' = complete /\ run' = run /\ result' = result
      /\ argCount' = argCount /\ pc \in {"body", "end"}
  BY DEF StoreSentinel
<1>2. Len(stored) = complete + 1 /\ complete < argCount
  BY <1>0, <1>1 DEF SegInv, Progress
<1>3. stored[complete + 1] \in Seq(Nat)
  <2>1. complete + 1 \in 1 .. Len(stored)
    BY <1>0, <1>2
  <2>. QED  BY <1>0, <2>1
<1>4. /\ Past' /\ neededUpTo(stored', complete) = dataBase /\ OldCookie'
      /\ dataBase \in Cells /\ mem'[dataBase] = oidMagicId
      /\ dataBase + 1 \in Cells /\ mem'[dataBase + 1] = cookieOf(run)
      /\ dataBase + 2 \in Cells /\ mem'[dataBase + 2] = 0
      /\ offset \in Nat /\ offset >= HeaderSize
      /\ offset' = offset + EncodeVarintSize[Sentinel] /\ EncodeVarintSize[Sentinel] \in Nat \ {0}
      /\ pc' \in {next, "fault"} /\ mem' \in [Cells -> Nat]
      /\ offset < DataSize =>
           Reads(pc, loopAt(mem', dataBase, offset), stored[complete + 1])
      /\ pc' = next /\ offset' < DataSize =>
           /\ HoldsVarint(mem', dataBase + offset, Sentinel)
           /\ dataBase + offset' <= DataSize + Beyond
  BY <1>0, <1>1, StoreDataKeeps
<1>5. Cursors'
  <2>1. /\ next = "end" => offset' = bodySize(stored[complete + 1]) + EncodeVarintSize[Sentinel]
        /\ next = "written" => offset' = needed(stored[complete + 1])
    <3>1. pc = "body" => offset = bodySize(stored[complete + 1])
      BY DEF DecodeInv, Cursors
    <3>2. pc = "end" => offset = bodySize(stored[complete + 1]) + EncodeVarintSize[Sentinel]
      BY DEF DecodeInv, Cursors
    <3>3. needed(stored[complete + 1]) = (bodySize(stored[complete + 1]) + EncodeVarintSize[Sentinel])
                                           + EncodeVarintSize[Sentinel]
      BY <1>3, BodySizeNat
    <3>. QED  BY <1>1, <1>4, <3>1, <3>2, <3>3
  <2>2. offset' >= HeaderSize
    BY <1>4 DEF HeaderSize
  <2>. QED  BY <1>1, <1>2, <1>4, <2>1, <2>2 DEF Cursors
<1>6. Header'
  BY <1>1, <1>4 DEF Header, Writing
<1>7. ASSUME pc' # "fault", offset' < DataSize
      PROVE  /\ dataBase' + offset' <= DataSize + Beyond
             /\ Reads(pc', loopAt(mem', dataBase', offset'), stored'[complete' + 1])
  <2>1. offset < DataSize /\ pc' = next
    BY <1>4, <1>7
  <2>2. PICK o \in [Cells -> Nat] : o = mem'
    BY <1>4
  <2>3. PICK s, r : /\ s = loopAt(o, dataBase, offset)
                    /\ r = loopAt(o, dataBase, offset + EncodeVarintSize[Sentinel])
    OBVIOUS
  <2>4. s \in LoopStates /\ (s.done => r = s) /\ (AtVarint(s) => Ends(s, r, Sentinel))
    <3>1. HoldsVarint(o, dataBase + offset, Sentinel)
      BY <1>4, <1>7, <2>1, <2>2
    <3>2. dataBase + (offset + EncodeVarintSize[Sentinel]) <= DataSize + Beyond
      BY <1>4, <1>7, <2>1
    <3>3. dataBase \in Nat /\ offset \in Nat /\ offset >= HeaderSize /\ Sentinel \in Nat
      BY <1>0, <1>4
    <3>. QED  BY <2>3, <3>1, <3>2, <3>3, LoopAtStored
  <2>5. Reads(pc, s, stored[complete + 1])
    BY <1>4, <2>1, <2>2, <2>3
  <2>6. Reads(next, r, stored[complete + 1])
    BY <1>1, <2>4, <2>5, ReadsSentinel
  <2>. QED  BY <1>1, <1>4, <1>7, <2>1, <2>2, <2>3, <2>6
<1>8. ASSUME pc' = "written", offset' = DataSize, complete = 0
      PROVE  ReadsIfDone(loopAt(mem', 0, DataSize), stored'[complete' + 1])
  <2>1. next = "written" /\ pc = "end" /\ offset < DataSize /\ dataBase = 0
    BY <1>1, <1>4, <1>8, BaseZero
  <2>2. PICK o \in [Cells -> Nat] : o = mem'
    BY <1>4
  <2>3. Reads("end", loopAt(o, 0, offset), stored[complete + 1])
    BY <1>4, <2>1, <2>2
  <2>4. ReadsIfDone(loopAt(o, 0, DataSize), stored[complete + 1])
    BY <1>4, <1>8, <2>3, ReadsCut
  <2>. QED  BY <1>1, <2>2, <2>4
<1>9. Here'
  <2>1. pc' \in Writing => pc' # "fault"
    BY DEF Writing
  <2>. QED  BY <1>1, <1>7, <1>8, <2>1 DEF Here
<1>10. Results'
  <2>1. result' = << >>
    BY <1>1 DEF DecodeInv, Results
  <2>. QED  BY <2>1, NoResult
<1>. QED  BY <1>4, <1>5, <1>6, <1>9, <1>10 DEF DecodeInv

\* The size that makes the argument complete, and the move to the next one.
LEMMA StepWriteSize ==
  ASSUME DecodeInv, SegInv', WriteSize
  PROVE  DecodeInv'
<1>. USE DataSegmentAssumption
<1>0. /\ SegInv /\ mem \in [Cells -> Nat] /\ dataBase \in Nat /\ offset \in Nat
      /\ stored \in Seq(Seq(Nat)) /\ complete \in Nat /\ run \in Nat
      /\ {0, 1, 2} \subseteq Cells
  BY StateTypes DEF DecodeInv
<1>1. /\ mem' = stores(dataBase + 2, <<offset>>) /\ stored' = stored
      /\ dataBase' = dataBase + offset /\ complete' = complete + 1 /\ run' = run /\ result' = result
      /\ offset' = offset /\ argCount' = argCount /\ pc = "written"
      /\ pc' = IF complete + 1 = argCount THEN "read" ELSE "magic"
  BY DEF WriteSize
<1>2. Len(stored) = complete + 1 /\ complete < argCount
  BY <1>0, <1>1 DEF SegInv, Progress
<1>3. /\ dataBase \in Cells /\ mem[dataBase] = oidMagicId
      /\ dataBase + 1 \in Cells /\ mem[dataBase + 1] = cookieOf(run)
      /\ dataBase + 2 \in Cells
  BY <1>1 DEF DecodeInv, Header, Writing
<1>4. /\ \A c \in Cells : c # dataBase + 2 => mem'[c] = mem[c]
      /\ mem'[dataBase + 2] = offset /\ mem' \in [Cells -> Nat]
  <2>1. Len(<<offset>>) = 1 /\ <<offset>>[1] = offset /\ DOMAIN <<offset>> = {1} /\ <<offset>> \in Seq(Nat)
    BY <1>0
  <2>2. ASSUME NEW c \in Cells, c # dataBase + 2
        PROVE  mem'[c] = mem[c]
    <3>1. c - (dataBase + 2) + 1 # 1
      BY <1>0, <2>2 DEF Cells
    <3>. QED  BY <1>1, <2>1, <3>1 DEF stores
  <2>3. mem'[dataBase + 2] = offset
    <3>1. (dataBase + 2) - (dataBase + 2) + 1 = 1
      BY <1>0
    <3>. QED  BY <1>1, <1>3, <2>1, <3>1 DEF stores
  <2>4. dataBase + 2 \in Nat
    BY <1>0
  <2>. QED  BY <1>0, <1>1, <2>1, <2>2, <2>3, <2>4, StoredCells
<1>5. /\ offset = needed(stored[complete + 1]) /\ offset >= HeaderSize
      /\ dataBase = neededUpTo(stored, complete)
      /\ neededUpTo(stored, complete + 1) = dataBase + offset
  <2>1. offset = needed(stored[complete + 1]) /\ dataBase = neededUpTo(stored, complete)
    BY <1>1 DEF DecodeInv, Cursors
  <2>2. complete + 1 <= Len(stored)
    BY <1>0, <1>2
  <2>. QED  BY <1>0, <2>1, <2>2, UpToNext
<1>6. Cursors'
  BY <1>1, <1>5 DEF Cursors
<1>7. Header' /\ Here'
  BY <1>1 DEF Header, Here, Writing
<1>8. OldCookie'
  <2>1. mem'[1] = mem[1]
    BY <1>0, <1>4
  <2>2. complete' # 0
    BY <1>0, <1>1
  <2>. QED  BY <1>1, <1>4, <2>1, <2>2, CookieKept
<1>9. PICK o \in [Cells -> Nat], ck \in Nat : o = mem' /\ ck = cookieOf(run)
  BY <1>4, StateTypes DEF DecodeInv
<1>10. ArgumentsAt(o, ck, stored, complete)
  <2>1. complete \in 0 .. Len(stored)
    BY <1>0, <1>2
  <2>2. \A c \in Cells : c < neededUpTo(stored, complete) => o[c] = mem[c]
    <3>1. \A c \in Cells : c < dataBase => c # dataBase + 2
      BY <1>0 DEF Cells
    <3>. QED  BY <1>4, <1>5, <1>9, <3>1
  <2>3. ArgumentsAt(mem, ck, stored, complete)
    BY <1>9 DEF DecodeInv, Past
  <2>. QED  BY <1>0, <2>1, <2>2, <2>3, ArgumentsKept
<1>11. ArgumentAt(o, ck, dataBase, offset, stored[complete + 1])
  <2>1. dataBase # dataBase + 2 /\ dataBase + 1 # dataBase + 2
    BY <1>0
  <2>2. o[dataBase] = oidMagicId /\ o[dataBase + 1] = ck /\ o[dataBase + 2] = offset
    BY <1>3, <1>4, <1>9, <2>1
  <2>3. ASSUME dataBase + offset <= DataSize + Beyond
        PROVE  loopAt(o, dataBase, offset) = loopAt(mem, dataBase, offset)
    <3>1. ASSUME NEW c \in Cells, dataBase + HeaderSize <= c /\ c < dataBase + offset
          PROVE  o[c] = mem[c]
      <4>1. c # dataBase + 2
        BY <1>0, <3>1 DEF Cells, HeaderSize
      <4>. QED  BY <1>4, <1>9, <4>1
    <3>2. mem \in [Cells -> Nat] /\ dataBase \in Nat /\ offset \in Nat /\ offset >= HeaderSize
      BY <1>0, <1>5
    <3>. QED  BY <2>3, <3>1, <3>2, LoopAtLocal
  <2>4. ASSUME offset < DataSize
        PROVE  /\ dataBase + offset <= DataSize + Beyond
               /\ Reads("written", loopAt(o, dataBase, offset), stored[complete + 1])
    BY <1>1, <2>3, <2>4 DEF DecodeInv, Here, Writing
  <2>5. ASSUME offset = DataSize, dataBase = 0
        PROVE  ReadsIfDone(loopAt(o, 0, DataSize), stored[complete + 1])
    <3>1. complete = 0
      <4>1. ASSUME complete # 0
            PROVE  FALSE
        <5>1. complete \in 1 .. Len(stored)
          BY <1>0, <1>2, <4>1
        <5>2. needed(stored[1]) \in Nat /\ needed(stored[1]) >= HeaderSize
              /\ needed(stored[1]) <= neededUpTo(stored, complete)
          BY <1>0, <5>1, BehindFirst
        <5>. QED  BY <1>5, <2>5, <5>2 DEF HeaderSize
      <4>. QED  BY <4>1
    <3>2. ReadsIfDone(loopAt(mem, 0, DataSize), stored[complete + 1])
      BY <1>1, <2>5, <3>1 DEF DecodeInv, Here
    <3>3. loopAt(o, 0, DataSize) = loopAt(mem, 0, DataSize)
      BY <1>0, <2>3, <2>5
    <3>. QED  BY <3>2, <3>3
  <2>. QED  BY <1>3, <2>2, <2>4, <2>5 DEF ArgumentAt
<1>12. ArgumentsAt(o, ck, stored, complete + 1)
  <2>. SUFFICES ASSUME NEW i \in 1 .. (complete + 1)
                PROVE  ArgumentAt(o, ck, neededUpTo(stored, i - 1), needed(stored[i]), stored[i])
    BY DEF ArgumentsAt
  <2>1. CASE i = complete + 1
    <3>1. i - 1 = complete
      BY <1>0, <2>1
    <3>. QED  BY <1>5, <1>11, <2>1, <3>1
  <2>2. CASE i # complete + 1
    <3>1. i \in 1 .. complete
      BY <1>0, <2>2
    <3>. QED  BY <1>10, <3>1 DEF ArgumentsAt
  <2>. QED  BY <2>1, <2>2
<1>13. Past'
  <2>1. ArgumentsAt(mem', cookieOf(run'), stored', complete')
    BY <1>1, <1>9, <1>12
  <2>. QED  BY <2>1 DEF Past
<1>14. Results'
  <2>1. result' = << >>
    BY <1>1 DEF DecodeInv, Results
  <2>. QED  BY <2>1, NoResult
<1>. QED  BY <1>6, <1>7, <1>8, <1>13, <1>14 DEF DecodeInv

\* A fault of the JIT code leaves the data as they are.
LEMMA StepJitFault ==
  ASSUME DecodeInv, SegInv', JitFault
  PROVE  DecodeInv'
<1>1. /\ pc = "body" /\ pc' = "fault" /\ argCount' = argCount /\ mem' = mem /\ run' = run
      /\ dataBase' = dataBase /\ offset' = offset /\ stored' = stored
      /\ complete' = complete /\ result' = result
  BY DEF JitFault
<1>2. Len(stored) = complete + 1 /\ complete < argCount
  BY <1>1 DEF DecodeInv, SegInv, Progress
<1>3. Cursors'
  BY <1>1, <1>2 DEF DecodeInv, Cursors
<1>4. Header' /\ Here'
  BY <1>1 DEF DecodeInv, Header, Here, Writing
<1>5. OldCookie' /\ Past'
  BY <1>1 DEF DecodeInv, OldCookie, Past, cookieOf
<1>6. Results'
  <2>1. result' = << >>
    BY <1>1 DEF DecodeInv, Results
  <2>. QED  BY <2>1, NoResult
<1>. QED  BY <1>3, <1>4, <1>5, <1>6 DEF DecodeInv

\* A step that leaves everything as it is.
LEMMA StepUnchanged ==
  ASSUME DecodeInv, SegInv', UNCHANGED vars
  PROVE  DecodeInv'
<1>1. /\ env' = env /\ argCount' = argCount /\ mem' = mem /\ run' = run
      /\ dataBase' = dataBase /\ offset' = offset /\ stored' = stored
      /\ complete' = complete /\ result' = result /\ pc' = pc
  BY DEF vars
<1>2. Cursors' /\ Header' /\ Here'
  BY <1>1 DEF DecodeInv, Cursors, Header, Here
<1>3. OldCookie' /\ Past'
  BY <1>1 DEF DecodeInv, OldCookie, Past, cookieOf
<1>4. DecodedIsStored' = DecodedIsStored
  BY <1>1 DEF DecodedIsStored, overrun
<1>5. DecodedOrReported' = DecodedOrReported
  BY <1>1 DEF DecodedOrReported
<1>6. Results'
  BY <1>1, <1>4, <1>5 DEF DecodeInv, Results
<1>. QED  BY <1>2, <1>3, <1>6 DEF DecodeInv

-----------------------------------------------------------------------------
(***************************************************************************)
(* What oid decodes                                                        *)
(***************************************************************************)

\* An ended argument whose data are in the segment, all of them, is decoded; the
\* next one is looked for behind it.
LEMMA DecodesEnded ==
  ASSUME DecodeInv, NEW i \in 1 .. complete, neededUpTo(stored, i) <= DataSize,
         NEW d \in decodeArgument(neededUpTo(stored, i - 1))
  PROVE  /\ nextArgument(neededUpTo(stored, i - 1)) = neededUpTo(stored, i)
         /\ neededUpTo(stored, i) < DataSize => d.ok
         /\ d.ok /\ Sentinel \notin Values => d.values = stored[i]
<1>. USE DataSegmentAssumption
<1>0. stored \in Seq(Seq(Nat)) /\ complete \in Nat /\ complete <= Len(stored) /\ Len(stored) \in Nat
  BY StateTypes DEF DecodeInv
<1>1. PICK j \in Nat : j = i - 1 /\ i = j + 1 /\ j + 1 <= Len(stored)
  BY <1>0
<1>2. PICK b \in Nat, n \in Nat :
        /\ b = neededUpTo(stored, j) /\ n = needed(stored[i])
        /\ neededUpTo(stored, i) = b + n /\ n >= HeaderSize
  BY <1>0, <1>1, UpToNext
<1>3. ArgumentAt(mem, cookieOf(run), b, n, stored[i])
  BY <1>1, <1>2 DEF DecodeInv, Past, ArgumentsAt
<1>4. mem[b] = oidMagicId /\ mem[b + 1] = cookieOf(run) /\ mem[b + 2] = n
  BY <1>3 DEF ArgumentAt
<1>5. inCopy(b) /\ b + n <= DataSize /\ n <= DataSize
  BY <1>2 DEF inCopy, HeaderSize
<1>6. nextArgument(b) = b + n
  <2>1. Min({DataSize, b + n}) = b + n
    BY <1>5 DEF Min
  <2>. QED  BY <1>4, <1>5, <2>1 DEF nextArgument
<1>7. PICK loop : loop = loopAt(mem, b, n)
  OBVIOUS
<1>8. d \in IF loop.done THEN {Decoded(loop.vals)} ELSE {Error("varint")}
  <2>1. d \in decodeTargetData(b)
    BY <1>1, <1>2, <1>5 DEF decodeArgument
  <2>2. validHeader(b)
    BY <1>4 DEF validHeader
  <2>3. ~(n = 0) /\ ~(DataSize < n) /\ ~(DataSize < b + n) /\ ~(n < HeaderSize)
    BY <1>2, <1>5 DEF HeaderSize
  <2>4. loop = decodeVarints(mem, b + HeaderSize, n - HeaderSize)
    BY <1>7 DEF loopAt
  <2>. QED  BY <1>4, <2>1, <2>2, <2>3, <2>4 DEF decodeTargetData
<1>9. (d.ok => loop.done /\ d.values = loop.vals) /\ (loop.done => d.ok)
  BY <1>8 DEF Decoded, Error
<1>10. CASE n < DataSize
  <2>1. Reads("written", loop, stored[i])
    BY <1>3, <1>7, <1>10 DEF ArgumentAt
  <2>2. loop.done /\ (Sentinel \notin Values => loop.vals = stored[i])
    BY <2>1 DEF Reads
  <2>. QED  BY <1>1, <1>2, <1>6, <1>9, <2>2
<1>11. CASE n = DataSize
  <2>1. b = 0
    BY <1>5, <1>11
  <2>2. ReadsIfDone(loop, stored[i])
    BY <1>3, <1>7, <1>11, <2>1 DEF ArgumentAt
  <2>3. ~(b + n < DataSize)
    BY <1>11
  <2>. QED  BY <1>1, <1>2, <1>6, <1>9, <2>2, <2>3 DEF ReadsIfDone
<1>. QED  BY <1>5, <1>10, <1>11

\* A first argument that needs more than the segment is reported.
LEMMA ReportsTooSmall ==
  ASSUME DecodeInv, complete >= 1, needed(stored[1]) > DataSize, NEW d \in decodeArgument(0)
  PROVE  d = Error("too_small")
<1>. USE DataSegmentAssumption
<1>0. complete \in Nat /\ stored \in Seq(Seq(Nat)) /\ 1 <= Len(stored)
  BY StateTypes DEF DecodeInv
<1>1. ArgumentAt(mem, cookieOf(run), 0, needed(stored[1]), stored[1])
  <2>1. 1 \in 1 .. complete /\ 1 - 1 = 0
    BY <1>0
  <2>. QED  BY <2>1, UpToNone DEF DecodeInv, Past, ArgumentsAt
<1>2. mem[0] = oidMagicId /\ mem[0 + 1] = cookieOf(run) /\ mem[0 + 2] = needed(stored[1])
  BY <1>1 DEF ArgumentAt
<1>3. needed(stored[1]) \in Nat
  <2>1. stored[1] \in Seq(Nat)
    BY <1>0
  <2>. QED  BY <2>1, BodySizeNat
<1>4. validHeader(0) /\ inCopy(0)
  BY <1>2 DEF validHeader, inCopy, HeaderSize
<1>5. PICK n \in Nat : n = mem[0 + 2] /\ n > DataSize
  BY <1>2, <1>3
<1>6. n # 0 /\ DataSize < n
  BY <1>5
<1>. QED  BY <1>4, <1>5, <1>6 DEF decodeArgument, decodeTargetData

\* Of the argument at which the JIT'd code has stopped nothing is decoded: its size
\* is 0, or its cookie old.
LEMMA NothingOfRest ==
  ASSUME DecodeInv, pc = "fault" \/ (pc = "magic" /\ stored = << >>), ~overrun,
         NEW d \in decodeArgument(dataBase)
  PROVE  ~d.ok
<1>. USE DataSegmentAssumption
<1>0. /\ mem \in [Cells -> Nat] /\ argCount \in Nat \ {0} /\ complete \in Nat
      /\ dataBase \in Nat /\ offset \in Nat /\ Len(stored) \in Nat /\ complete <= Len(stored)
      /\ run \in Nat /\ {0, 1, 2} \subseteq Cells
  BY StateTypes DEF DecodeInv
<1>1. CASE pc = "fault"
  <2>1. Len(stored) = complete + 1 /\ complete < argCount /\ (complete >= 1 => offset >= HeaderSize)
    BY <1>1 DEF DecodeInv, Cursors
  <2>2. dataBase + HeaderSize <= DataSize
    <3>1. CASE complete >= 1
      <4>1. argCount > 1 /\ Len(stored) > complete
        BY <1>0, <2>1, <3>1
      <4>2. dataBase + offset <= DataSize
        BY <1>0, <4>1 DEF overrun
      <4>. QED  BY <1>0, <2>1, <3>1, <4>2 DEF HeaderSize
    <3>2. CASE ~(complete >= 1)
      BY <1>0, <3>2, BaseZero DEF HeaderSize
    <3>. QED  BY <3>1, <3>2
  <2>3. mem[dataBase + 2] = 0
    BY <1>1, <2>2 DEF DecodeInv, Header
  <2>4. d \in {Error("header"), Error("empty")}
    BY <2>2, <2>3 DEF decodeArgument, inCopy, decodeTargetData
  <2>. QED  BY <2>4 DEF Error
<1>2. CASE pc = "magic" /\ stored = << >>
  <2>1. complete = 0
    BY <1>0, <1>2
  <2>2. dataBase = 0 /\ mem[1] < cookieOf(run)
    BY <1>0, <1>2, <2>1, BaseZero DEF DecodeInv, OldCookie
  <2>3. ~validHeader(0) /\ inCopy(0)
    <3>1. cookieOf(run) \in Nat /\ mem[1] \in Nat /\ 0 + 1 = 1
      BY <1>0 DEF cookieOf
    <3>2. mem[0 + 1] # cookieOf(run)
      BY <2>2, <3>1
    <3>. QED  BY <3>2 DEF validHeader, inCopy, HeaderSize
  <2>4. d = Error("header")
    BY <2>2, <2>3 DEF decodeArgument, decodeTargetData
  <2>. QED  BY <2>4 DEF Error
<1>. QED  BY <1>1, <1>2

\* What oid decodes, once the JIT'd code has ended or faulted or was never
\* entered.
LEMMA DecodesStored ==
  ASSUME DecodeInv, NEW r \in decodeArguments, Sentinel \notin Values, ~overrun,
         pc \in {"fault", "read"} \/ (pc = "magic" /\ stored = << >>),
         NEW i \in 1 .. Len(r), r[i].ok
  PROVE  i <= complete /\ r[i].values = stored[i]
<1>. USE DataSegmentAssumption
<1>0. /\ mem \in [Cells -> Nat] /\ argCount \in Nat \ {0} /\ complete \in Nat
      /\ dataBase \in Nat /\ stored \in Seq(Seq(Nat)) /\ Len(stored) \in Nat
      /\ complete <= Len(stored) /\ complete <= argCount
      /\ dataBase = neededUpTo(stored, complete) /\ (pc = "read" => complete = argCount)
  BY StateTypes DEF DecodeInv, Cursors
<1>1. Chained(r, 0, argCount)
  BY <1>0, DecodedChain
<1>2. PICK pos \in [1 .. Len(r) -> 0 .. DataSize] :
        /\ pos[1] = 0
        /\ \A k \in 1 .. Len(r) : r[k] \in decodeArgument(pos[k])
        /\ \A k \in 1 .. (Len(r) - 1) : r[k].ok /\ pos[k + 1] = nextArgument(pos[k])
  BY <1>1 DEF Chained
<1>3. PICK l \in Nat : l = Len(r) /\ l >= 1 /\ l <= argCount
  <2>1. Len(r) \in 1 .. argCount
    BY <1>1 DEF Chained
  <2>. QED  BY <1>0, <2>1
<1>4. ASSUME NEW k \in 1 .. l, pos[k] = neededUpTo(stored, k - 1), k - 1 <= complete, r[k].ok
      PROVE  k <= complete
  <2>. SUFFICES ASSUME ~(k <= complete)
                PROVE  FALSE
    OBVIOUS
  <2>1. k - 1 = complete
    BY <1>0, <1>4
  <2>2. pc # "read"
    BY <1>0, <1>3, <2>1
  <2>3. r[k] \in decodeArgument(dataBase)
    BY <1>0, <1>2, <1>3, <1>4, <2>1
  <2>4. pc = "fault" \/ (pc = "magic" /\ stored = << >>)
    BY <2>2
  <2>5. ~r[k].ok
    BY <2>3, <2>4, NothingOfRest
  <2>. QED  BY <1>4, <2>5
<1>5. ASSUME NEW k \in 1 .. complete, argCount > 1
      PROVE  neededUpTo(stored, k) <= DataSize
  <2>1. neededUpTo(stored, k) <= dataBase /\ neededUpTo(stored, k) \in Nat
    <3>1. complete \in 0 .. Len(stored) /\ k \in 0 .. complete /\ k \in 0 .. Len(stored)
      BY <1>0
    <3>. QED  BY <1>0, <3>1, UpToGrows, UpToNat
  <2>2. dataBase <= DataSize
    <3>1. offset \in Nat
      BY StateTypes DEF DecodeInv
    <3>2. ~(dataBase + (IF Len(stored) > complete THEN offset ELSE 0) > DataSize)
      BY <1>5 DEF overrun
    <3>. QED  BY <1>0, <3>1, <3>2
  <2>3. PICK u \in Nat : u = neededUpTo(stored, k)
    BY <2>1
  <2>. QED  BY <1>0, <2>1, <2>2, <2>3
<1>. DEFINE S == {k \in 0 .. (l - 1) : k <= complete /\ pos[k + 1] = neededUpTo(stored, k)}
<1>6. 0 \in S
  BY <1>0, <1>2, <1>3, UpToNone
<1>7. ASSUME NEW k \in 0 .. ((l - 1) - 1), k \in S
      PROVE  k + 1 \in S
  <2>1. k + 1 \in 1 .. (l - 1) /\ k + 1 \in 1 .. l /\ (k + 1) - 1 = k /\ argCount > 1
        /\ k + 1 \in 0 .. (l - 1)
    BY <1>0, <1>3
  <2>2. pos[k + 1] = neededUpTo(stored, k) /\ k <= complete
    BY <1>7
  <2>3. r[k + 1].ok /\ pos[(k + 1) + 1] = nextArgument(pos[k + 1])
        /\ r[k + 1] \in decodeArgument(pos[k + 1])
    BY <1>2, <1>3, <2>1
  <2>4. k + 1 <= complete
    BY <1>4, <2>1, <2>2, <2>3
  <2>5. k + 1 \in 1 .. complete
    BY <1>0, <2>1, <2>4
  <2>6. nextArgument(neededUpTo(stored, k)) = neededUpTo(stored, k + 1)
    BY <1>5, <2>1, <2>2, <2>3, <2>5, DecodesEnded
  <2>. QED  BY <2>1, <2>2, <2>3, <2>4, <2>6
<1>8. 0 .. (l - 1) \subseteq S
  <2>1. l - 1 \in Nat
    BY <1>3
  <2>. HIDE DEF S
  <2>. QED  BY <1>6, <1>7, <2>1, UpTo
<1>9. i \in 1 .. l /\ i - 1 \in 0 .. (l - 1) /\ (i - 1) + 1 = i
  BY <1>3
<1>10. pos[i] = neededUpTo(stored, i - 1) /\ i - 1 <= complete
  <2>1. i - 1 \in S
    <3>. HIDE DEF S
    <3>. QED  BY <1>8, <1>9
  <2>. QED  BY <1>9, <2>1
<1>11. i <= complete
  BY <1>4, <1>9, <1>10
<1>12. i \in 1 .. complete /\ r[i] \in decodeArgument(neededUpTo(stored, i - 1))
  BY <1>0, <1>2, <1>9, <1>10, <1>11
<1>13. neededUpTo(stored, i) <= DataSize
  <2>1. CASE argCount > 1
    BY <1>5, <1>12, <2>1
  <2>2. CASE ~(argCount > 1)
    <3>1. i = 1 /\ complete >= 1
      BY <1>0, <1>11, <1>12, <2>2
    <3>2. neededUpTo(stored, 1) = needed(stored[1]) /\ needed(stored[1]) \in Nat
      <4>1. 1 \in 1 .. Len(stored)
        BY <1>0, <3>1
      <4>. QED  BY <1>0, <4>1, BehindFirst
    <3>3. r[i] \in decodeArgument(0)
      BY <1>2, <1>3, <1>9, <3>1
    <3>4. ~(needed(stored[1]) > DataSize)
      <4>1. Error("too_small").ok = FALSE
        BY DEF Error
      <4>. QED  BY <3>1, <3>3, <4>1, ReportsTooSmall
    <3>. QED  BY <3>1, <3>2, <3>4
  <2>. QED  BY <2>1, <2>2
<1>. QED  BY <1>11, <1>12, <1>13, DecodesEnded

\* What oid decodes or reports, whenever it reads.
LEMMA DecodesFitting ==
  ASSUME DecodeInv, NEW r \in decodeArguments, NEW i \in 1 .. complete,
         neededUpTo(stored, i) < DataSize
  PROVE  i <= Len(r) /\ r[i].ok
<1>. USE DataSegmentAssumption
<1>0. /\ mem \in [Cells -> Nat] /\ argCount \in Nat \ {0} /\ complete \in Nat
      /\ stored \in Seq(Seq(Nat)) /\ Len(stored) \in Nat
      /\ complete <= Len(stored) /\ complete <= argCount
  BY StateTypes DEF DecodeInv
<1>1. Chained(r, 0, argCount)
  BY <1>0, DecodedChain
<1>2. PICK pos \in [1 .. Len(r) -> 0 .. DataSize] :
        /\ pos[1] = 0
        /\ \A k \in 1 .. Len(r) : r[k] \in decodeArgument(pos[k])
        /\ \A k \in 1 .. (Len(r) - 1) : r[k].ok /\ pos[k + 1] = nextArgument(pos[k])
  BY <1>1 DEF Chained
<1>3. PICK l \in Nat : l = Len(r) /\ l >= 1 /\ l <= argCount /\ (r[l].ok => l = argCount)
  <2>1. Len(r) \in 1 .. argCount /\ (r[Len(r)].ok => Len(r) = argCount)
    BY <1>1 DEF Chained
  <2>. QED  BY <1>0, <2>1
<1>4. ASSUME NEW k \in 1 .. i
      PROVE  k \in 1 .. complete /\ neededUpTo(stored, k) < DataSize /\ neededUpTo(stored, k) <= DataSize
  <2>1. k \in 1 .. complete /\ i \in 0 .. Len(stored) /\ k \in 0 .. i /\ k \in 0 .. Len(stored)
    BY <1>0
  <2>2. PICK u \in Nat, w \in Nat : u = neededUpTo(stored, k) /\ w = neededUpTo(stored, i) /\ u <= w
    BY <1>0, <2>1, UpToGrows, UpToNat
  <2>. QED  BY <2>1, <2>2
<1>. DEFINE S == {k \in 0 .. i :
                    k >= 1 => k <= l /\ r[k].ok /\ pos[k] = neededUpTo(stored, k - 1)}
<1>5. 0 \in S
  OBVIOUS
<1>6. ASSUME NEW k \in 0 .. (i - 1), k \in S
      PROVE  k + 1 \in S
  <2>1. k + 1 \in 1 .. i /\ (k + 1) - 1 = k /\ k + 1 \in 0 .. i /\ k \in Nat
    OBVIOUS
  <2>2. k + 1 <= l /\ pos[k + 1] = neededUpTo(stored, k)
    <3>1. CASE k = 0
      BY <1>2, <1>3, <3>1, UpToNone
    <3>2. CASE k # 0
      <4>1. k \in 1 .. i /\ k <= l /\ r[k].ok /\ pos[k] = neededUpTo(stored, k - 1) /\ k >= 1
        BY <1>6, <2>1, <3>2
      <4>2. k # l
        <5>1. k + 1 \in 1 .. complete
          BY <1>4, <2>1
        <5>. QED  BY <1>0, <1>3, <4>1, <5>1
      <4>3. k \in 1 .. (l - 1) /\ k \in 1 .. l
        BY <1>3, <2>1, <4>1, <4>2
      <4>4. pos[k + 1] = nextArgument(pos[k]) /\ r[k] \in decodeArgument(pos[k])
        BY <1>2, <1>3, <4>3
      <4>5. nextArgument(neededUpTo(stored, k - 1)) = neededUpTo(stored, k)
        BY <1>4, <4>1, <4>4, DecodesEnded
      <4>. QED  BY <1>3, <2>1, <4>1, <4>3, <4>4, <4>5
    <3>. QED  BY <3>1, <3>2
  <2>3. r[k + 1].ok
    <3>1. k + 1 \in 1 .. l
      BY <1>3, <2>1, <2>2
    <3>2. r[k + 1] \in decodeArgument(neededUpTo(stored, (k + 1) - 1))
      BY <1>2, <1>3, <2>1, <2>2, <3>1
    <3>3. /\ k + 1 \in 1 .. complete /\ neededUpTo(stored, k + 1) < DataSize
          /\ neededUpTo(stored, k + 1) <= DataSize
      BY <1>4, <2>1
    <3>. QED  BY <3>2, <3>3, DecodesEnded
  <2>. QED  BY <2>1, <2>2, <2>3
<1>7. 0 .. i \subseteq S
  <2>1. i \in Nat
    OBVIOUS
  <2>. HIDE DEF S
  <2>. QED  BY <1>5, <1>6, <2>1, UpTo
<1>8. i \in S /\ i >= 1
  <2>1. i \in 0 .. i /\ i >= 1
    OBVIOUS
  <2>. HIDE DEF S
  <2>. QED  BY <1>7, <2>1
<1>. QED  BY <1>3, <1>8

\* What oid makes of the segment: the results of the decoder follow from what the
\* arguments, the one cut short and the old data behind them hold.
LEMMA StepProcessTargetData ==
  ASSUME DecodeInv, SegInv', processTargetData
  PROVE  DecodeInv'
<1>. USE DataSegmentAssumption
<1>0. /\ mem \in [Cells -> Nat] /\ argCount \in Nat \ {0}
  BY StateTypes DEF DecodeInv
<1>1. /\ env' = env /\ argCount' = argCount /\ mem' = mem /\ run' = run
      /\ dataBase' = dataBase /\ offset' = offset /\ stored' = stored
      /\ complete' = complete /\ result' \in decodeArguments /\ pc' = "idle"
      /\ "early_read" \notin env
           => pc \in {"fault", "read"} \/ (pc = "magic" /\ stored = << >>)
  BY DEF processTargetData
<1>2. Cursors' /\ Header' /\ Here'
  BY <1>1 DEF DecodeInv, Cursors, Header, Here, Writing
<1>3. OldCookie' /\ Past'
  BY <1>1 DEF DecodeInv, OldCookie, Past, cookieOf
<1>4. PICK r \in decodeArguments : r = result'
  BY <1>1
<1>5. Len(r) \in 1 .. argCount
  BY <1>0, DecodedChain DEF Chained
<1>6. ASSUME Sentinel \notin Values
      PROVE  DecodedIsStored'
  <2>1. DOMAIN r = 1 .. Len(r)
    BY <1>0, DecodedChain DEF Chained
  <2>2. ASSUME NEW i \in 1 .. Len(r), r[i].ok, ~overrun, "early_read" \notin env
        PROVE  i <= complete /\ r[i].values = stored[i]
    BY <1>1, <1>6, <2>2, DecodesStored
  <2>3. overrun' = overrun
    BY <1>1 DEF overrun
  <2>. QED  BY <1>1, <1>4, <2>1, <2>2, <2>3 DEF DecodedIsStored
<1>7. DecodedOrReported'
  <2>1. ASSUME NEW i \in 1 .. complete, neededUpTo(stored, i) < DataSize
        PROVE  i <= Len(r) /\ r[i].ok
    BY <2>1, DecodesFitting
  <2>2. ASSUME complete >= 1, needed(stored[1]) > DataSize
        PROVE  r[1].error = "too_small"
    <3>1. r[1] \in decodeArgument(0)
      <4>1. 1 \in 1 .. Len(r)
        BY <1>0, <1>5
      <4>. QED  BY <1>0, <4>1, DecodedChain DEF Chained
    <3>2. r[1] = Error("too_small")
      BY <2>2, <3>1, ReportsTooSmall
    <3>. QED  BY <3>2 DEF Error
  <2>. QED  BY <1>1, <1>4, <2>1, <2>2 DEF DecodedOrReported
<1>8. Results'
  BY <1>1, <1>6, <1>7 DEF Results
<1>. QED  BY <1>2, <1>3, <1>8 DEF DecodeInv

\* Every step keeps the invariant of the data.
LEMMA DecodeStep == DecodeInv /\ [Next]_vars => DecodeInv'
<1>. SUFFICES ASSUME DecodeInv, [Next]_vars
              PROVE  DecodeInv'
  OBVIOUS
<1>1. SegInv'
  BY SegStep DEF DecodeInv
<1>2. ASSUME NEW val \in Values, StoreValue(val)
      PROVE  DecodeInv'
  BY <1>1, <1>2, StepStoreValue
<1>3. CASE StartProbe
  BY <1>1, <1>3, StepStartProbe
<1>4. CASE WriteMagic
  BY <1>1, <1>4, StepWriteMagic
<1>5. CASE WriteCookie
  BY <1>1, <1>5, StepWriteCookie
<1>6. CASE ResetSize
  BY <1>1, <1>6, StepResetSize
<1>7. CASE StoreSentinel
  BY <1>1, <1>7, StepStoreSentinel
<1>8. CASE WriteSize
  BY <1>1, <1>8, StepWriteSize
<1>9. CASE JitFault
  BY <1>1, <1>9, StepJitFault
<1>10. CASE processTargetData
  BY <1>1, <1>10, StepProcessTargetData
<1>11. CASE UNCHANGED vars
  BY <1>1, <1>11, StepUnchanged
<1>. QED  BY <1>2, <1>3, <1>4, <1>5, <1>6, <1>7, <1>8, <1>9, <1>10, <1>11 DEF Next

\* DecodeInv is an invariant.
LEMMA DecodeInvariance == Spec => []DecodeInv
BY DecodeInit, DecodeStep, PTL DEF Spec

-----------------------------------------------------------------------------
(***************************************************************************)
(* Theorems                                                                *)
(***************************************************************************)

\* Whatever a run finds in the segment and whenever oid reads it, every variable
\* keeps its type: the arguments the JIT'd code has ended, those it has begun and
\* those oid has decoded are never more than the probe has.
THEOREM TypeCorrect == Spec => []TypeOK
<1>1. SegInv => TypeOK
  BY DEF SegInv
<1>. QED  BY <1>1, SegInvariance, PTL

\* The JIT'd code of a probe with one argument never writes behind the data
\* segment, whatever the values and however many they are: StoreData compares
\* the size of a varint with the room that is left before it writes it.
THEOREM NothingBehind == Spec => []WritesInSegment
<1>1. SegInv => WritesInSegment
  BY DEF SegInv
<1>. QED  BY <1>1, SegInvariance, PTL

\* processTargetData hands over every argument the JIT code completed whose data
\* end before the segment does, whatever an earlier run left behind them, and
\* reports "too small" for a first argument that needs more than the segment:
\* decodeTargetData in OIDebugger.cpp.
THEOREM DecodesOrReports == Spec => []DecodedOrReported
<1>1. DecodeInv => DecodedOrReported
  BY DEF DecodeInv, Results
<1>. QED  BY <1>1, DecodeInvariance, PTL

\* The varints decodeTargetData hands over for an argument are those the JIT code
\* stored for it in this run: never a part of them, never those of an earlier run
\* that the segment still holds.  Sentinel \notin Values: no value of the target is
\* taken for the end of the data.
THEOREM DecodesWhatWasStored ==
  ASSUME Sentinel \notin Values
  PROVE  Spec => []DecodedIsStored
<1>1. DecodeInv => DecodedIsStored
  BY DEF DecodeInv, Results
<1>. QED  BY <1>1, DecodeInvariance, PTL

=============================================================================
