-------------------------- MODULE OICompilerProofs --------------------------
(***************************************************************************)
(* The memory manager of the JIT compiler, for object files with any       *)
(* number of sections of any size: the reservation is enough for what is   *)
(* then allocated, no section of a slab is over another, and the slabs     *)
(* follow each other in the target page by page.                           *)
(***************************************************************************)
EXTENDS OICompiler, RecursionLemmas, FiniteSetTheorems, TLAPS

-----------------------------------------------------------------------------
(***************************************************************************)
(* Alignment, and the sizes that LLVM announces                            *)
(***************************************************************************)

\* An aligned address is the least multiple of the alignment that is not below.
LEMMA Aligned ==
  ASSUME NEW n \in Nat, NEW a \in Alignments \cup {256, 1024, 4096}
  PROVE  /\ alignTo(n, a) \in Nat /\ n <= alignTo(n, a) /\ alignTo(n, a) < n + a
         /\ alignTo(n, a) % a = 0
         /\ \A m \in Nat : n <= m /\ m % a = 0 => alignTo(n, a) <= m
<1>1. CASE a \in {1, 2, 4}
  BY <1>1 DEF alignTo
<1>2. CASE a \in {8, 16, 32}
  BY <1>2 DEF alignTo
<1>3. CASE a \in {64, 128}
  BY <1>3 DEF alignTo
<1>4. CASE a \in {256, 1024, 4096}
  BY <1>4 DEF alignTo
<1>. QED  BY <1>1, <1>2, <1>3, <1>4 DEF Alignments

\* Multiples: of a smaller alignment too, and closed under addition.
LEMMA Divides ==
  ASSUME NEW a \in Alignments, NEW b \in Alignments, a <= b, NEW m \in Nat, m % b = 0
  PROVE  m % a = 0 /\ (b - a) % a = 0
<1>1. CASE b = 128
  BY <1>1 DEF Alignments
<1>2. CASE b = 64
  BY <1>2 DEF Alignments
<1>3. CASE b = 32
  BY <1>3 DEF Alignments
<1>4. CASE b \in {16, 8}
  BY <1>4 DEF Alignments
<1>5. CASE b \in {4, 2, 1}
  BY <1>5 DEF Alignments
<1>. QED  BY <1>1, <1>2, <1>3, <1>4, <1>5 DEF Alignments

\* A sum of multiples is one.
LEMMA SumAligned ==
  ASSUME NEW a \in Alignments \cup {4096}, NEW m \in Nat, NEW n \in Nat, m % a = 0, n % a = 0
  PROVE  (m + n) % a = 0
BY DEF Alignments

\* From a multiple of a to the next multiple of a larger alignment.
LEMMA NextWider ==
  ASSUME NEW a \in Alignments, NEW b \in Alignments, a <= b, NEW n \in Nat, n % a = 0
  PROVE  alignTo(n, b) <= n + (b - a)
<1>1. CASE b = 128
  BY <1>1 DEF Alignments, alignTo
<1>2. CASE b = 64
  BY <1>2 DEF Alignments, alignTo
<1>3. CASE b = 32
  BY <1>3 DEF Alignments, alignTo
<1>4. CASE b \in {16, 8}
  BY <1>4 DEF Alignments, alignTo
<1>5. CASE b \in {4, 2, 1}
  BY <1>5 DEF Alignments, alignTo
<1>. QED  BY <1>1, <1>2, <1>3, <1>4, <1>5 DEF Alignments

\* The largest alignment of a kind.
LEMMA KindAlign ==
  ASSUME NEW obj, IsObject(obj), NEW kind
  PROVE  /\ kindAlign(obj.sections, kind) \in Alignments
         /\ \A s \in Range(obj.sections) : s.kind = kind =>
              s.align <= kindAlign(obj.sections, kind)
<1>. DEFINE S == {1} \cup {s.align : s \in {s \in Range(obj.sections) : s.kind = kind}}
<1>1. S \subseteq Alignments /\ S # {}
  BY DEF IsObject, Alignments
<1>2. Alignments \subseteq 1 .. 128
  BY DEF Alignments
<1>3. Max(S) \in S /\ \A y \in S : y <= Max(S)
  <2>. HIDE DEF S
  <2>1. 1 \in Int /\ 128 \in Int /\ S \subseteq 1 .. 128
    BY <1>1, <1>2
  <2>. QED  BY <1>1, <2>1, MaxInSet, Zenon
<1>. QED  BY <1>1, <1>3 DEF kindAlign

\* The sum that LLVM forms over the sections of a kind.
Totals(t, sections, kind) ==
  /\ t \in [0 .. Len(sections) -> Nat]
  /\ t[0] = 0
  /\ \A n \in 1 .. Len(sections) :
       t[n] = t[n - 1] + (IF sections[n].kind = kind
                            THEN alignTo(sections[n].size, kindAlign(sections, kind)) ELSE 0)

\* It is what allocSize returns.
LEMMA AllocSize ==
  ASSUME NEW obj, IsObject(obj), NEW kind
  PROVE  \E t : /\ Totals(t, obj.sections, kind)
                /\ allocSize(obj.sections, kind) = t[Len(obj.sections)]
<1>. DEFINE sections == obj.sections
            N == Len(sections)
            align == kindAlign(sections, kind)
            term(n) == IF sections[n].kind = kind THEN alignTo(sections[n].size, align) ELSE 0
            total[n \in 0 .. N] == IF n = 0 THEN 0 ELSE total[n - 1] + term(n)
            step == [p \in Nat \X Nat |-> IF p[2] \in 1 .. N THEN p[1] + term(p[2]) ELSE 0]
<1>1. N \in Nat /\ \A n \in 1 .. N : term(n) \in Nat
  <2>1. N \in Nat /\ DOMAIN sections = 1 .. N
    BY DEF IsObject
  <2>2. align \in Alignments
    BY KindAlign
  <2>3. ASSUME NEW n \in 1 .. N
        PROVE  term(n) \in Nat
    <3>1. sections[n].size \in Nat
      BY <2>1 DEF IsObject, Range
    <3>2. alignTo(sections[n].size, align) \in Nat
      <4>. HIDE DEF align, sections
      <4>. QED  BY <2>2, <3>1, Aligned
    <3>. QED  BY <3>2
  <2>. QED  BY <2>1, <2>3
<1>. HIDE DEF term
<1>2. step \in [Nat \X Nat -> Nat]
  BY <1>1
<1>. HIDE DEF N
<1>3. PICK f : IsRecursive(f, N, Nat, 0, step)
  <2>. HIDE DEF step
  <2>. QED  BY <1>1, <1>2, RecursiveFunction
<1>4. /\ f \in [0 .. N -> Nat] /\ f[0] = 0
      /\ \A n \in 1 .. N : f[n] = step[<<f[n - 1], n>>]
  <2>. HIDE DEF step
  <2>. QED  BY <1>3 DEF IsRecursive
<1>5. \A n \in 1 .. N : f[n - 1] \in Nat /\ f[n] = f[n - 1] + term(n)
  <2>. SUFFICES ASSUME NEW n \in 1 .. N
                PROVE  f[n - 1] \in Nat /\ f[n] = f[n - 1] + term(n)
    OBVIOUS
  <2>1. n - 1 \in 0 .. N /\ n \in Nat
    BY <1>1
  <2>2. f[n - 1] \in Nat
    BY <1>4, <2>1
  <2>. QED  BY <1>4, <2>1, <2>2
<1>. HIDE DEF step
<1>6. f = [n \in 0 .. N |-> IF n = 0 THEN 0 ELSE f[n - 1] + term(n)]
  <2>1. ASSUME NEW n \in 0 .. N
        PROVE  f[n] = IF n = 0 THEN 0 ELSE f[n - 1] + term(n)
    BY <1>1, <1>4, <1>5
  <2>. QED  BY <1>4, <2>1
<1>7. total = [n \in 0 .. N |-> IF n = 0 THEN 0 ELSE total[n - 1] + term(n)]
  BY <1>6, Zenon
<1>. HIDE DEF total
<1>8. ASSUME NEW n \in 0 .. N
      PROVE  total[n] = IF n = 0 THEN 0 ELSE total[n - 1] + term(n)
  BY <1>7
<1>9. \A n \in 0 .. N : total[n] \in Nat
  <2>. DEFINE S == {n \in 0 .. N : total[n] \in Nat}
  <2>1. 0 \in S
    BY <1>1, <1>8
  <2>2. ASSUME NEW n \in 0 .. (N - 1), n \in S
        PROVE  n + 1 \in S
    <3>1. n + 1 \in 0 .. N /\ n + 1 \in 1 .. N /\ n + 1 # 0 /\ (n + 1) - 1 = n
      BY <1>1
    <3>. QED  BY <1>1, <1>8, <2>2, <3>1
  <2>3. 0 .. N \subseteq S
    <3>. HIDE DEF S
    <3>. QED  BY <1>1, <2>1, <2>2, UpTo
  <2>. QED  BY <2>3
<1>10. Totals(total, sections, kind)
  <2>1. total \in [0 .. N -> Nat]
    BY <1>7, <1>9
  <2>2. \A n \in 1 .. N : n \in 0 .. N /\ n # 0
    BY <1>1
  <2>. QED  BY <1>1, <1>8, <2>1, <2>2 DEF Totals, term, N
<1>11. allocSize(sections, kind) = total[N]
  BY Zenon DEF allocSize, total, term, N
<1>. QED  BY <1>10, <1>11 DEF N

-----------------------------------------------------------------------------
(***************************************************************************)
(* The slab of an object file                                              *)
(***************************************************************************)

\* The slab after n of the sections.
Loads(f, n, obj) ==
  /\ f = [i \in 0 .. n |-> f[i]]
  /\ f[0] = reserveAllocationSpace(allocSize(obj.sections, "code"),
                                   allocSize(obj.sections, "ro"),
                                   allocSize(obj.sections, "rw"))
  /\ \A i \in 1 .. n : f[i] = allocate(f[i - 1], obj.sections[i])

\* There is such a function,
LEMMA LoadsExists ==
  ASSUME NEW obj, NEW n \in Nat
  PROVE  \E f : Loads(f, n, obj)
<1>. DEFINE S == {m \in Nat : \E f : Loads(f, m, obj)}
            first == reserveAllocationSpace(allocSize(obj.sections, "code"),
                                            allocSize(obj.sections, "ro"),
                                            allocSize(obj.sections, "rw"))
<1>1. 0 \in S
  <2>. DEFINE D == 0 .. 0
              g == [i \in D |-> first]
  <2>1. 0 \in D /\ 1 .. 0 = {}
    OBVIOUS
  <2>. HIDE DEF first
  <2>2. g = [i \in 0 .. 0 |-> g[i]] /\ g[0] = first
    BY <2>1
  <2>. HIDE DEF g
  <2>3. Loads(g, 0, obj)
    BY <2>1, <2>2 DEF Loads, first
  <2>. QED  BY <2>3
<1>2. ASSUME NEW m \in 0 .. (n - 1), m \in S
      PROVE  m + 1 \in S
  <2>1. PICK f : Loads(f, m, obj)
    BY <1>2
  <2>. DEFINE g == [i \in 0 .. (m + 1) |->
                      IF i = m + 1 THEN allocate(f[m], obj.sections[m + 1]) ELSE f[i]]
  <2>2. g[0] = first
    BY <2>1 DEF Loads
  <2>3. ASSUME NEW i \in 1 .. (m + 1)
        PROVE  g[i] = allocate(g[i - 1], obj.sections[i])
    <3>1. CASE i = m + 1
      <4>1. i - 1 = m /\ m \in 0 .. (m + 1) /\ m # m + 1
        BY <3>1
      <4>. QED  BY <3>1, <4>1
    <3>2. CASE i # m + 1
      <4>1. i \in 1 .. m /\ i - 1 \in 0 .. (m + 1) /\ i - 1 # m + 1
        BY <3>2
      <4>2. f[i] = allocate(f[i - 1], obj.sections[i])
        BY <2>1, <4>1 DEF Loads
      <4>3. g[i] = f[i] /\ g[i - 1] = f[i - 1]
        BY <3>2, <4>1
      <4>. HIDE DEF g
      <4>. QED  BY <4>2, <4>3
    <3>. QED  BY <3>1, <3>2
  <2>4. g = [i \in 0 .. (m + 1) |-> g[i]]
    OBVIOUS
  <2>. HIDE DEF g
  <2>5. Loads(g, m + 1, obj)
    BY <2>2, <2>3, <2>4 DEF Loads
  <2>. QED  BY <2>5
<1>3. 0 .. n \subseteq S
  <2>. HIDE DEF S
  <2>. QED  BY <1>1, <1>2, UpTo
<1>. QED  BY <1>3

\* loadObject returns the last of them.
LEMMA LoadedSlab ==
  ASSUME NEW obj, IsObject(obj)
  PROVE  \E f : Loads(f, Len(obj.sections), obj) /\ loadObject(obj) = f[Len(obj.sections)]
<1>. DEFINE N == Len(obj.sections)
            first == reserveAllocationSpace(allocSize(obj.sections, "code"),
                                            allocSize(obj.sections, "ro"),
                                            allocSize(obj.sections, "rw"))
            slab[n \in 0 .. N] ==
              IF n = 0 THEN first ELSE allocate(slab[n - 1], obj.sections[n])
<1>0. N \in Nat
  BY DEF IsObject
<1>1. PICK f : Loads(f, N, obj)
  BY <1>0, LoadsExists
<1>2. f = [n \in 0 .. N |-> IF n = 0 THEN first ELSE allocate(f[n - 1], obj.sections[n])]
  <2>1. ASSUME NEW n \in 0 .. N
        PROVE  f[n] = IF n = 0 THEN first ELSE allocate(f[n - 1], obj.sections[n])
    <3>. HIDE DEF N
    <3>1. n # 0 => n \in 1 .. N
      BY <1>0
    <3>. QED  BY <1>1, <3>1 DEF Loads
  <2>2. f = [n \in 0 .. N |-> f[n]]
    BY <1>1 DEF Loads
  <2>. QED  BY <2>1, <2>2, Zenon
<1>3. slab = [n \in 0 .. N |-> IF n = 0 THEN first ELSE allocate(slab[n - 1], obj.sections[n])]
  BY <1>2, Zenon
<1>4. loadObject(obj) = slab[N]
  BY Zenon DEF loadObject
<1>. HIDE DEF slab, first, N
<1>5. \A n \in 0 .. N :
        slab[n] = IF n = 0 THEN first ELSE allocate(slab[n - 1], obj.sections[n])
  BY <1>3, Zenon
<1>6. Loads(slab, N, obj)
  <2>1. slab[0] = first
    BY <1>0, <1>5
  <2>2. ASSUME NEW n \in 1 .. N
        PROVE  slab[n] = allocate(slab[n - 1], obj.sections[n])
    <3>1. n \in 0 .. N /\ n # 0
      BY <1>0
    <3>. QED  BY <1>5, <3>1
  <2>3. slab = [n \in 0 .. N |-> slab[n]]
    BY <1>3, <1>5, Zenon
  <2>. QED  BY <2>1, <2>2, <2>3 DEF Loads, first
<1>. QED  BY <1>4, <1>6 DEF N

\* A slab, with some of the sections of an object file.
Slots(obj) == [section : Range(obj.sections), addr : Nat]
Slabs(obj) ==
  [allocatedSize : Nat, textSegBase : Nat, textSegLimit : Nat, dataSegBase : Nat,
   dataSegLimit : Nat, sections : Seq(Slots(obj)), fatal : BOOLEAN]

\* Code is below the text segment's base so far, data below the data segment's, and
\* no section is over another.
InSlab(p, slab) ==
  /\ p.addr % p.section.align = 0
  /\ IF p.section.kind = "code" THEN p.addr + p.section.size <= slab.textSegBase
     ELSE /\ slab.textSegLimit <= p.addr
          /\ p.addr + p.section.size <= slab.dataSegBase
SlabOk(slab, obj) ==
  /\ slab \in Slabs(obj)
  /\ slab.textSegBase <= slab.textSegLimit /\ slab.textSegLimit <= slab.dataSegBase
  /\ slab.dataSegBase <= slab.dataSegLimit
  /\ \A k \in 1 .. Len(slab.sections) : InSlab(slab.sections[k], slab)
  /\ \A k, l \in 1 .. Len(slab.sections) :
       k # l => Disjoint(slab.sections[k], slab.sections[l])

\* What the memory manager returns for a section.
LEMMA Allocates ==
  ASSUME NEW obj, IsObject(obj), NEW slab \in Slabs(obj), NEW s \in Range(obj.sections)
  PROVE  LET textAddr == alignTo(slab.textSegBase, s.align)
             dataAddr == alignTo(slab.dataSegBase, s.align)
         IN /\ textAddr \in Nat /\ slab.textSegBase <= textAddr /\ textAddr % s.align = 0
            /\ dataAddr \in Nat /\ slab.dataSegBase <= dataAddr /\ dataAddr % s.align = 0
            /\ allocate(slab, s) =
                 IF s.kind = "code"
                   THEN IF slab.fatal \/ textAddr + s.size > slab.textSegLimit
                          THEN [slab EXCEPT !.fatal = TRUE]
                          ELSE [slab EXCEPT
                                  !.textSegBase = textAddr + s.size,
                                  !.sections = Append(@, [section |-> s, addr |-> textAddr])]
                   ELSE IF slab.fatal \/ dataAddr + s.size > slab.dataSegLimit
                          THEN [slab EXCEPT !.fatal = TRUE]
                          ELSE [slab EXCEPT
                                  !.dataSegBase = dataAddr + s.size,
                                  !.sections = Append(@, [section |-> s, addr |-> dataAddr])]
<1>1. s.align \in Alignments /\ slab.textSegBase \in Nat /\ slab.dataSegBase \in Nat
  BY DEF IsObject, Slabs
<1>. DEFINE textAddr == alignTo(slab.textSegBase, s.align)
            dataAddr == alignTo(slab.dataSegBase, s.align)
<1>2. /\ textAddr \in Nat /\ slab.textSegBase <= textAddr /\ textAddr % s.align = 0
      /\ dataAddr \in Nat /\ slab.dataSegBase <= dataAddr /\ dataAddr % s.align = 0
  BY <1>1, Aligned
<1>3. CASE s.kind = "code"
  BY <1>2, <1>3, Zenon DEF allocate
<1>4. CASE s.kind # "code"
  BY <1>2, <1>4, Zenon DEF allocate
<1>. QED  BY <1>3, <1>4, Zenon

\* A section more.
LEMMA OneMore ==
  ASSUME NEW obj, IsObject(obj), NEW slab, SlabOk(slab, obj), NEW s \in Range(obj.sections),
         NEW addr \in Nat, addr % s.align = 0, NEW new \in Slabs(obj),
         new.sections = Append(slab.sections, [section |-> s, addr |-> addr]),
         new.textSegLimit = slab.textSegLimit, new.dataSegLimit = slab.dataSegLimit,
         IF s.kind = "code"
           THEN /\ slab.textSegBase <= addr /\ new.textSegBase = addr + s.size
                /\ addr + s.size <= slab.textSegLimit /\ new.dataSegBase = slab.dataSegBase
           ELSE /\ slab.dataSegBase <= addr /\ new.dataSegBase = addr + s.size
                /\ addr + s.size <= slab.dataSegLimit /\ new.textSegBase = slab.textSegBase
  PROVE  SlabOk(new, obj)
<1>. DEFINE p == [section |-> s, addr |-> addr]
            q == slab.sections
            N == Len(q)
<1>1. /\ q \in Seq(Slots(obj)) /\ p \in Slots(obj) /\ s.size \in Nat
      /\ slab.textSegBase \in Nat /\ slab.textSegLimit \in Nat
      /\ slab.dataSegBase \in Nat /\ slab.dataSegLimit \in Nat
  BY DEF SlabOk, Slabs, Slots, IsObject
<1>2. /\ N \in Nat /\ Len(new.sections) = N + 1 /\ new.sections[N + 1] = p
      /\ \A k \in 1 .. N : new.sections[k] = q[k] /\ q[k] \in Slots(obj)
  <2>. HIDE DEF p
  <2>. QED  BY <1>1 DEF p
<1>3. /\ slab.textSegBase <= new.textSegBase /\ slab.dataSegBase <= new.dataSegBase
      /\ new.textSegBase <= new.textSegLimit /\ new.textSegLimit <= new.dataSegBase
      /\ new.dataSegBase <= new.dataSegLimit
      /\ new.textSegBase \in Nat /\ new.dataSegBase \in Nat
  BY <1>1 DEF SlabOk
<1>4. p.section = s /\ p.addr = addr
  OBVIOUS
<1>5. InSlab(p, new)
  BY <1>1, <1>3 DEF InSlab, SlabOk
<1>6. ASSUME NEW k \in 1 .. N
      PROVE  InSlab(q[k], new) /\ Disjoint(q[k], p) /\ Disjoint(p, q[k])
  <2>1. q[k].section.size \in Nat /\ q[k].addr \in Nat /\ InSlab(q[k], slab)
    BY <1>2 DEF Slots, IsObject, SlabOk
  <2>2. CASE q[k].section.kind = "code"
    <3>1. q[k].addr % q[k].section.align = 0 /\ q[k].addr + q[k].section.size <= slab.textSegBase
      BY <2>1, <2>2 DEF InSlab
    <3>2. InSlab(q[k], new)
      <4>0. q[k].addr + q[k].section.size <= slab.textSegBase
        BY <3>1
      <4>1. q[k].addr + q[k].section.size <= new.textSegBase
        <5>. HIDE DEF q
        <5>1. /\ slab.textSegBase <= new.textSegBase /\ slab.textSegBase \in Nat
              /\ new.textSegBase \in Nat
          BY <1>1, <1>3
        <5>. QED  BY ONLY <2>1, <4>0, <5>1
      <4>. QED  BY <2>2, <3>1, <4>1, Zenon DEF InSlab
    <3>3. q[k].addr + q[k].section.size <= p.addr
      <4>1. CASE s.kind = "code"
        BY <1>1, <1>4, <2>1, <3>1, <4>1, SMTT(30)
      <4>2. CASE s.kind # "code"
        <5>1. slab.textSegBase <= slab.textSegLimit /\ slab.textSegLimit <= slab.dataSegBase
          BY DEF SlabOk
        <5>2. slab.dataSegBase <= p.addr /\ p.addr \in Nat
          BY <1>1, <1>4, <4>2
        <5>. HIDE DEF q, p
        <5>. QED  BY ONLY <1>1, <2>1, <3>1, <5>1, <5>2
      <4>. QED  BY <4>1, <4>2
    <3>. QED  BY <3>2, <3>3 DEF Disjoint
  <2>3. CASE q[k].section.kind # "code"
    <3>1. /\ q[k].addr % q[k].section.align = 0 /\ slab.textSegLimit <= q[k].addr
          /\ q[k].addr + q[k].section.size <= slab.dataSegBase
      BY <2>1, <2>3 DEF InSlab
    <3>2. InSlab(q[k], new)
      <4>1. q[k].addr + q[k].section.size <= new.dataSegBase /\ new.textSegLimit <= q[k].addr
        <5>1. q[k].addr + q[k].section.size <= slab.dataSegBase /\ slab.textSegLimit <= q[k].addr
          BY <3>1
        <5>2. /\ slab.dataSegBase <= new.dataSegBase /\ slab.dataSegBase \in Nat
              /\ new.dataSegBase \in Nat /\ new.textSegLimit = slab.textSegLimit
          BY <1>1, <1>3
        <5>. HIDE DEF q
        <5>. QED  BY ONLY <2>1, <5>1, <5>2
      <4>. QED  BY <2>3, <3>1, <4>1, Zenon DEF InSlab
    <3>3. \/ q[k].addr + q[k].section.size <= p.addr
          \/ p.addr + s.size <= q[k].addr
      <4>1. CASE s.kind = "code"
        BY <1>1, <1>4, <2>1, <3>1, <4>1
      <4>2. CASE s.kind # "code"
        BY <1>1, <1>4, <2>1, <3>1, <4>2, SMTT(30)
      <4>. QED  BY <4>1, <4>2
    <3>. QED  BY <1>4, <3>2, <3>3 DEF Disjoint
  <2>. QED  BY <2>2, <2>3
<1>. HIDE DEF p, q, N
<1>7. ASSUME NEW k \in 1 .. Len(new.sections)
      PROVE  k \in 1 .. N \/ k = N + 1
  BY <1>2
<1>8. ASSUME NEW k \in 1 .. Len(new.sections)
      PROVE  InSlab(new.sections[k], new)
  BY <1>2, <1>5, <1>6, <1>7
<1>9. ASSUME NEW k \in 1 .. Len(new.sections), NEW l \in 1 .. Len(new.sections), k # l
      PROVE  Disjoint(new.sections[k], new.sections[l])
  <2>1. CASE k = N + 1
    BY <1>2, <1>6, <1>7, <1>9, <2>1
  <2>2. CASE l = N + 1
    BY <1>2, <1>6, <1>7, <1>9, <2>2
  <2>3. CASE k \in 1 .. N /\ l \in 1 .. N
    <3>1. Disjoint(q[k], q[l])
      BY <1>9, <2>3 DEF SlabOk, q, N
    <3>. QED  BY <1>2, <2>3, <3>1
  <2>. QED  BY <1>7, <2>1, <2>2, <2>3
<1>. QED  BY <1>3, <1>8, <1>9 DEF SlabOk

\* The slab before there are sections in it.  The assertion of its constructor holds:
\* the block is a whole number of pages, more than the kilobytes that were asked
\* for, and the segments need less than 384 bytes for their alignment.
LEMMA FirstSlab ==
  ASSUME NEW obj, NEW c \in Nat, NEW r \in Nat, NEW w \in Nat, NEW slab,
         slab = reserveAllocationSpace(c, r, w)
  PROVE  /\ SlabOk(slab, obj) /\ slabFits(slab) /\ ~slab.fatal
         /\ slab.allocatedSize % 4096 = 0
         /\ slab.textSegBase = 0 /\ c <= slab.textSegLimit /\ slab.textSegLimit % 128 = 0
         /\ slab.dataSegBase = slab.textSegLimit
         /\ slab.textSegLimit + r + w + 128 <= slab.dataSegLimit
<1>. DEFINE total == alignTo(c + r + w, 1024)
            block == alignTo(total + 256, 256)
            size == alignTo(block, Page)
            text == alignTo(c, 128)
            data == alignTo(text + (r + w + 128), 128)
<1>1. slab = [allocatedSize |-> size, textSegBase |-> 0, textSegLimit |-> text,
              dataSegBase |-> text, dataSegLimit |-> data, sections |-> <<>>, fatal |-> FALSE]
  BY Zenon DEF reserveAllocationSpace, Slab, allocateBlock, allocateMappedMemory
<1>2. total \in Nat /\ c + r + w <= total /\ total % 1024 = 0
  BY Aligned
<1>3. block \in Nat /\ total + 256 <= block
  <2>. HIDE DEF total
  <2>1. total + 256 \in Nat
    BY <1>2
  <2>. QED  BY <2>1, Aligned
<1>4. size \in Nat /\ block <= size /\ size % 4096 = 0
  <2>. HIDE DEF block
  <2>. QED  BY <1>3, Aligned DEF Page
<1>5. text \in Nat /\ c <= text /\ text < c + 128 /\ text % 128 = 0
  BY Aligned DEF Alignments
<1>6. data \in Nat /\ text + (r + w + 128) <= data /\ data < text + (r + w + 128) + 128
  <2>. HIDE DEF text
  <2>. DEFINE end == text + (r + w + 128)
  <2>1. end \in Nat /\ 128 \in Alignments
    BY <1>5 DEF Alignments
  <2>2. data = alignTo(end, 128)
    OBVIOUS
  <2>. HIDE DEF end, data
  <2>3. data \in Nat /\ end <= data /\ data < end + 128
    BY <2>1, <2>2, Aligned
  <2>. QED  BY <2>3 DEF end
<1>. HIDE DEF total, block, size, text, data
<1>7. data <= size
  <2>1. size >= total + 1024
    BY <1>2, <1>3, <1>4
  <2>. QED  BY <1>2, <1>4, <1>5, <1>6, <2>1
<1>8. <<>> \in Seq(Slots(obj)) /\ Len(<<>>) = 0 /\ 1 .. 0 = {}
  OBVIOUS
<1>9. slab \in Slabs(obj)
  BY <1>1, <1>4, <1>5, <1>6, <1>8 DEF Slabs
<1>10. SlabOk(slab, obj)
  BY <1>1, <1>5, <1>6, <1>8, <1>9 DEF SlabOk
<1>. QED  BY <1>1, <1>4, <1>5, <1>6, <1>7, <1>10 DEF slabFits

\* A slab stays in order, with the limits it had.
LEMMA AllocateKeeps ==
  ASSUME NEW obj, IsObject(obj), NEW slab, SlabOk(slab, obj), NEW s \in Range(obj.sections),
         NEW new, new = allocate(slab, s)
  PROVE  /\ SlabOk(new, obj) /\ new.allocatedSize = slab.allocatedSize
         /\ new.textSegLimit = slab.textSegLimit /\ new.dataSegLimit = slab.dataSegLimit
<1>. DEFINE textAddr == alignTo(slab.textSegBase, s.align)
            dataAddr == alignTo(slab.dataSegBase, s.align)
<1>1. slab \in Slabs(obj)
  BY DEF SlabOk
<1>2. /\ textAddr \in Nat /\ slab.textSegBase <= textAddr /\ textAddr % s.align = 0
      /\ dataAddr \in Nat /\ slab.dataSegBase <= dataAddr /\ dataAddr % s.align = 0
      /\ new =
           IF s.kind = "code"
             THEN IF slab.fatal \/ textAddr + s.size > slab.textSegLimit
                    THEN [slab EXCEPT !.fatal = TRUE]
                    ELSE [slab EXCEPT
                            !.textSegBase = textAddr + s.size,
                            !.sections = Append(@, [section |-> s, addr |-> textAddr])]
             ELSE IF slab.fatal \/ dataAddr + s.size > slab.dataSegLimit
                    THEN [slab EXCEPT !.fatal = TRUE]
                    ELSE [slab EXCEPT
                            !.dataSegBase = dataAddr + s.size,
                            !.sections = Append(@, [section |-> s, addr |-> dataAddr])]
  BY <1>1, Allocates, ZenonT(30)
<1>. HIDE DEF textAddr, dataAddr
<1>3. s.size \in Nat /\ slab.textSegLimit \in Nat /\ slab.dataSegLimit \in Nat
  BY <1>1 DEF IsObject, Slabs
<1>4. ASSUME new = [slab EXCEPT !.fatal = TRUE]
      PROVE  /\ SlabOk(new, obj) /\ new.allocatedSize = slab.allocatedSize
             /\ new.textSegLimit = slab.textSegLimit /\ new.dataSegLimit = slab.dataSegLimit
  <2>1. /\ new \in Slabs(obj) /\ new.allocatedSize = slab.allocatedSize
        /\ new.textSegLimit = slab.textSegLimit /\ new.dataSegLimit = slab.dataSegLimit
        /\ new.textSegBase = slab.textSegBase /\ new.dataSegBase = slab.dataSegBase
        /\ new.sections = slab.sections
    BY <1>1, <1>4 DEF Slabs
  <2>2. ASSUME NEW p, InSlab(p, slab)
        PROVE  InSlab(p, new)
    BY <2>1, <2>2, Zenon DEF InSlab
  <2>. QED  BY <2>1, <2>2 DEF SlabOk
<1>5. CASE s.kind = "code" /\ ~(slab.fatal \/ textAddr + s.size > slab.textSegLimit)
  <2>. DEFINE p == [section |-> s, addr |-> textAddr]
  <2>1. new = [slab EXCEPT !.textSegBase = textAddr + s.size, !.sections = Append(@, p)]
    BY <1>2, <1>5, Zenon
  <2>2. p \in Slots(obj) /\ slab.sections \in Seq(Slots(obj))
    BY <1>1, <1>2 DEF Slots, Slabs
  <2>3. textAddr + s.size \in Nat /\ textAddr + s.size <= slab.textSegLimit
    BY <1>2, <1>3, <1>5
  <2>. HIDE DEF p
  <2>. DEFINE q == Append(slab.sections, p)
  <2>4. q \in Seq(Slots(obj))
    BY <2>2
  <2>5. new = [slab EXCEPT !.textSegBase = textAddr + s.size, !.sections = q]
    BY <2>1
  <2>. HIDE DEF q
  <2>6. /\ new \in Slabs(obj) /\ new.allocatedSize = slab.allocatedSize
        /\ new.textSegLimit = slab.textSegLimit /\ new.dataSegLimit = slab.dataSegLimit
        /\ new.textSegBase = textAddr + s.size /\ new.dataSegBase = slab.dataSegBase
        /\ new.sections = q
    BY <1>1, <2>3, <2>4, <2>5 DEF Slabs
  <2>. QED  BY <1>2, <1>5, <2>3, <2>6, OneMore DEF p, q
<1>6. CASE s.kind # "code" /\ ~(slab.fatal \/ dataAddr + s.size > slab.dataSegLimit)
  <2>. DEFINE p == [section |-> s, addr |-> dataAddr]
  <2>1. new = [slab EXCEPT !.dataSegBase = dataAddr + s.size, !.sections = Append(@, p)]
    BY <1>2, <1>6, Zenon
  <2>2. p \in Slots(obj) /\ slab.sections \in Seq(Slots(obj))
    BY <1>1, <1>2 DEF Slots, Slabs
  <2>3. dataAddr + s.size \in Nat /\ dataAddr + s.size <= slab.dataSegLimit
    BY <1>2, <1>3, <1>6
  <2>. HIDE DEF p
  <2>. DEFINE q == Append(slab.sections, p)
  <2>4. q \in Seq(Slots(obj))
    BY <2>2
  <2>5. new = [slab EXCEPT !.dataSegBase = dataAddr + s.size, !.sections = q]
    BY <2>1
  <2>. HIDE DEF q
  <2>6. /\ new \in Slabs(obj) /\ new.allocatedSize = slab.allocatedSize
        /\ new.textSegLimit = slab.textSegLimit /\ new.dataSegLimit = slab.dataSegLimit
        /\ new.dataSegBase = dataAddr + s.size /\ new.textSegBase = slab.textSegBase
        /\ new.sections = q
    BY <1>1, <2>3, <2>4, <2>5 DEF Slabs
  <2>. QED  BY <1>2, <1>6, <2>3, <2>6, OneMore DEF p, q
<1>. QED  BY <1>2, <1>4, <1>5, <1>6

\* The slabs on the way to that of an object file.
LEMMA SlabsOnTheWay ==
  ASSUME NEW obj, IsObject(obj), NEW f, Loads(f, Len(obj.sections), obj),
         NEW n \in 0 .. Len(obj.sections)
  PROVE  /\ SlabOk(f[n], obj) /\ f[n].allocatedSize = f[0].allocatedSize
         /\ f[n].textSegLimit = f[0].textSegLimit /\ f[n].dataSegLimit = f[0].dataSegLimit
<1>. DEFINE N == Len(obj.sections)
            good(i) == /\ SlabOk(f[i], obj) /\ f[i].allocatedSize = f[0].allocatedSize
                       /\ f[i].textSegLimit = f[0].textSegLimit
                       /\ f[i].dataSegLimit = f[0].dataSegLimit
            S == {i \in 0 .. N : good(i)}
<1>0. N \in Nat /\ DOMAIN obj.sections = 1 .. N
  BY DEF IsObject
<1>1. good(0)
  <2>1. PICK c, r, w : /\ c \in Nat /\ r \in Nat /\ w \in Nat
                       /\ f[0] = reserveAllocationSpace(c, r, w)
    <3>1. ASSUME NEW kind
          PROVE  allocSize(obj.sections, kind) \in Nat
      <4>1. PICK t : /\ Totals(t, obj.sections, kind)
                     /\ allocSize(obj.sections, kind) = t[Len(obj.sections)]
        BY AllocSize
      <4>. QED  BY <1>0, <4>1 DEF Totals
    <3>. QED  BY <3>1 DEF Loads
  <2>. QED  BY <2>1, FirstSlab
<1>2. ASSUME NEW i \in 0 .. (N - 1), i \in S
      PROVE  i + 1 \in S
  <2>1. i + 1 \in 1 .. N /\ (i + 1) - 1 = i /\ i + 1 \in 0 .. N
    BY <1>0
  <2>2. f[i + 1] = allocate(f[i], obj.sections[i + 1])
    BY <2>1 DEF Loads
  <2>3. obj.sections[i + 1] \in Range(obj.sections)
    BY <1>0, <2>1 DEF Range
  <2>4. good(i + 1)
    BY <1>2, <2>2, <2>3, AllocateKeeps
  <2>. QED  BY <2>1, <2>4
<1>3. 0 .. N \subseteq S
  <2>1. 0 \in S
    BY <1>0, <1>1
  <2>. HIDE DEF S, N
  <2>. QED  BY <1>0, <1>2, <2>1, UpTo
<1>. QED  BY <1>3

\* The slab of an object file: its sections are in order, it is in its block, and the
\* block is a number of pages.
LEMMA SlabOfObject ==
  ASSUME NEW obj, IsObject(obj), NEW slab, slab = loadObject(obj)
  PROVE  /\ SlabOk(slab, obj) /\ slabFits(slab)
         /\ slab.allocatedSize \in Nat /\ slab.allocatedSize % 4096 = 0
<1>1. PICK f : Loads(f, Len(obj.sections), obj) /\ slab = f[Len(obj.sections)]
  BY LoadedSlab
<1>2. Len(obj.sections) \in 0 .. Len(obj.sections)
  BY DEF IsObject
<1>3. /\ SlabOk(slab, obj) /\ slab.allocatedSize = f[0].allocatedSize
      /\ slab.textSegLimit = f[0].textSegLimit /\ slab.dataSegLimit = f[0].dataSegLimit
  BY <1>1, <1>2, SlabsOnTheWay
<1>4. PICK c, r, w : /\ c \in Nat /\ r \in Nat /\ w \in Nat
                     /\ f[0] = reserveAllocationSpace(c, r, w)
  <2>1. ASSUME NEW kind
        PROVE  allocSize(obj.sections, kind) \in Nat
    <3>1. PICK t : /\ Totals(t, obj.sections, kind)
                   /\ allocSize(obj.sections, kind) = t[Len(obj.sections)]
      BY AllocSize
    <3>. QED  BY <1>2, <3>1 DEF Totals
  <2>. QED  BY <1>1, <2>1 DEF Loads
<1>5. SlabOk(f[0], obj) /\ f[0].allocatedSize % 4096 = 0 /\ slabFits(f[0])
  BY <1>4, FirstSlab
<1>. QED  BY <1>3, <1>5 DEF slabFits, SlabOk, Slabs

-----------------------------------------------------------------------------
(***************************************************************************)
(* The reservation is enough                                               *)
(***************************************************************************)

\* A sequence of numbers that does not fall is nowhere above its last.
LEMMA Grows ==
  ASSUME NEW n \in Nat, NEW g \in [0 .. n -> Nat], \A i \in 1 .. n : g[i - 1] <= g[i],
         NEW i \in 0 .. n
  PROVE  g[i] <= g[n]
<1>. DEFINE S == {k \in 0 .. n : g[n - k] <= g[n]}
<1>1. 0 \in S
  OBVIOUS
<1>2. ASSUME NEW k \in 0 .. (n - 1), k \in S
      PROVE  k + 1 \in S
  <2>1. n - k \in 1 .. n /\ (n - k) - 1 = n - (k + 1) /\ k + 1 \in 0 .. n
    OBVIOUS
  <2>2. n - (k + 1) \in 0 .. n /\ n - k \in 0 .. n
    OBVIOUS
  <2>3. g[n - (k + 1)] <= g[n - k]
    BY <2>1
  <2>4. g[n - (k + 1)] \in Nat /\ g[n - k] \in Nat /\ g[n] \in Nat
    BY <2>2
  <2>. QED  BY <1>2, <2>1, <2>3, <2>4
<1>3. 0 .. n \subseteq S
  <2>. HIDE DEF S
  <2>. QED  BY <1>1, <1>2, UpTo
<1>4. n - i \in 0 .. n /\ n - (n - i) = i
  OBVIOUS
<1>5. g[n - (n - i)] <= g[n]
  BY <1>3, <1>4
<1>. QED  BY <1>4, <1>5

\* The sums for a kind do not fall,
LEMMA TotalsRise ==
  ASSUME NEW obj, IsObject(obj), NEW kind, NEW t, Totals(t, obj.sections, kind),
         NEW i \in 1 .. Len(obj.sections)
  PROVE  /\ t[i - 1] \in Nat /\ t[i] \in Nat
         /\ obj.sections[i].kind = kind => t[i - 1] + obj.sections[i].size <= t[i]
         /\ obj.sections[i].kind # kind => t[i] = t[i - 1]
<1>. DEFINE N == Len(obj.sections)
            a == kindAlign(obj.sections, kind)
            u == alignTo(obj.sections[i].size, a)
<1>0. N \in Nat /\ DOMAIN obj.sections = 1 .. N /\ a \in Alignments
  BY KindAlign DEF IsObject
<1>1. i \in 0 .. N /\ i - 1 \in 0 .. N
  BY <1>0
<1>2. obj.sections[i].size \in Nat
  BY <1>0 DEF IsObject, Range
<1>. HIDE DEF a
<1>3. u \in Nat /\ u % a = 0 /\ obj.sections[i].size <= u
  BY <1>0, <1>2, Aligned
<1>4. /\ t[i - 1] \in Nat /\ t[i] \in Nat
      /\ t[i] = t[i - 1] + (IF obj.sections[i].kind = kind THEN u ELSE 0)
  BY <1>1 DEF Totals, a
<1>. HIDE DEF u
<1>5. /\ obj.sections[i].kind = kind => t[i - 1] + obj.sections[i].size <= t[i]
      /\ obj.sections[i].kind # kind => t[i] = t[i - 1]
  BY <1>2, <1>3, <1>4
<1>. QED  BY <1>4, <1>5

\* and are multiples of its alignment.
LEMMA TotalsAligned ==
  ASSUME NEW obj, IsObject(obj), NEW kind, NEW t, Totals(t, obj.sections, kind),
         NEW k \in 0 .. Len(obj.sections)
  PROVE  t[k] % kindAlign(obj.sections, kind) = 0
<1>. DEFINE N == Len(obj.sections)
            a == kindAlign(obj.sections, kind)
            S == {i \in 0 .. N : t[i] % a = 0}
<1>0. N \in Nat /\ DOMAIN obj.sections = 1 .. N /\ a \in Alignments
  BY KindAlign DEF IsObject
<1>2. 0 \in S
  BY <1>0 DEF Totals, Alignments
<1>3. ASSUME NEW i \in 0 .. (N - 1), i \in S
      PROVE  i + 1 \in S
  <2>1. i + 1 \in 1 .. N /\ (i + 1) - 1 = i /\ i + 1 \in 0 .. N
    BY <1>0
  <2>2. t[i] \in Nat /\ \E u \in Nat : u % a = 0 /\ t[i + 1] = t[i] + u
    <3>. DEFINE u == alignTo(obj.sections[i + 1].size, a)
    <3>1. obj.sections[i + 1].size \in Nat
      BY <1>0, <2>1 DEF IsObject, Range
    <3>2. t[i + 1] = t[i] + (IF obj.sections[i + 1].kind = kind THEN u ELSE 0) /\ t[i] \in Nat
      <4>1. t \in [0 .. N -> Nat] /\ i \in 0 .. N
        BY <1>0, <2>1 DEF Totals
      <4>2. t[i + 1] = t[(i + 1) - 1] + (IF obj.sections[i + 1].kind = kind THEN u ELSE 0)
        BY <2>1, Zenon DEF Totals
      <4>3. t[(i + 1) - 1] = t[i]
        BY <2>1, Zenon
      <4>. HIDE DEF u, N
      <4>. QED  BY <4>1, <4>2, <4>3
    <3>. HIDE DEF a
    <3>3. u \in Nat /\ u % a = 0
      BY <1>0, <3>1, Aligned, SMTT(30)
    <3>. HIDE DEF u
    <3>4. 0 \in Nat /\ 0 % a = 0
      BY <1>0 DEF Alignments
    <3>5. t[i + 1] = t[i] + u \/ t[i + 1] = t[i] + 0
      BY <3>2
    <3>. QED  BY <3>2, <3>3, <3>4, <3>5, Zenon
  <2>. HIDE DEF a
  <2>3. PICK u \in Nat, m \in Nat : u % a = 0 /\ m = t[i] /\ m % a = 0 /\ t[i + 1] = m + u
    BY <1>3, <2>2
  <2>4. (m + u) % a = 0
    <3>1. a \in Alignments \cup {4096}
      BY <1>0
    <3>2. u \in Nat /\ m \in Nat /\ u % a = 0 /\ m % a = 0
      BY <2>3
    <3>. QED  BY ONLY <3>1, <3>2, SumAligned
  <2>. QED  BY <2>1, <2>3, <2>4
<1>. HIDE DEF a
<1>4. 0 .. N \subseteq S
  <2>. HIDE DEF S, N
  <2>. QED  BY <1>0, <1>2, <1>3, UpTo
<1>. QED  BY <1>4 DEF a

\* Counting the sections of a kind one by one.
Count(sections, kind, n) == Cardinality({j \in 1 .. n : sections[j].kind = kind})

\* One section more is one of the kind or none.
LEMMA CountStep ==
  ASSUME NEW sections, NEW kind, NEW i \in Nat
  PROVE  /\ Count(sections, kind, i) \in Nat
         /\ Count(sections, kind, i + 1) =
              Count(sections, kind, i) + (IF sections[i + 1].kind = kind THEN 1 ELSE 0)
<1>. DEFINE C == {j \in 1 .. i : sections[j].kind = kind}
            D == {j \in 1 .. (i + 1) : sections[j].kind = kind}
<1>0. Count(sections, kind, i) = Cardinality(C) /\ Count(sections, kind, i + 1) = Cardinality(D)
  BY DEF Count
<1>1. IsFiniteSet(C)
  <2>1. IsFiniteSet(1 .. i)
    BY FS_Interval
  <2>. QED  BY <2>1, FS_Subset
<1>2. Cardinality(C) \in Nat
  BY <1>1, FS_CardinalityType
<1>3. CASE sections[i + 1].kind = kind
  <2>1. D = C \cup {i + 1} /\ i + 1 \notin C
    BY <1>3
  <2>2. Cardinality(C \cup {i + 1}) = Cardinality(C) + 1
    BY <1>1, <2>1, FS_AddElement
  <2>. QED  BY <1>0, <1>2, <1>3, <2>1, <2>2
<1>4. CASE sections[i + 1].kind # kind
  <2>1. D = C
    BY <1>4
  <2>2. Cardinality(D) = Cardinality(C) + 0
    <3>1. Cardinality(D) = Cardinality(C)
      BY <2>1
    <3>. QED  BY <1>2, <3>1
  <2>. QED  BY <1>0, <1>2, <1>4, <2>2
<1>. QED  BY <1>3, <1>4

\* One data section, at or above a place U that is a multiple of the smaller
\* alignment A: of the kind with that alignment,
LEMMA NarrowFits ==
  ASSUME NEW A \in Alignments, NEW a \in Alignments, a <= A, NEW base \in Nat,
         NEW U \in Nat, base <= U, U % A = 0
  PROVE  alignTo(base, a) <= U
<1>1. U % a = 0
  BY Divides
<1>. QED  BY <1>1, Aligned

\* or of the other.
LEMMA WideFits ==
  ASSUME NEW A \in Alignments, NEW B \in Alignments, A <= B, NEW a \in Alignments, a <= B,
         NEW base \in Nat, NEW U \in Nat, base <= U, U % A = 0
  PROVE  alignTo(base, a) <= U + (B - A)
<1>. DEFINE V == alignTo(U, B)
<1>1. V \in Nat /\ U <= V /\ V % B = 0
  BY Aligned
<1>2. V <= U + (B - A)
  BY NextWider
<1>. HIDE DEF V
<1>3. alignTo(base, a) <= V
  <2>1. base <= V
    BY <1>1
  <2>. QED  BY <1>1, <2>1, NarrowFits
<1>4. A \in Nat /\ B \in Nat
  BY DEF Alignments
<1>5. alignTo(base, a) \in Nat
  BY Aligned
<1>. HIDE DEF Alignments
<1>. QED  BY <1>1, <1>2, <1>3, <1>4, <1>5

\* The kinds of data, and the padding that sections of one may need.
DataKinds(narrow, wide) == <<narrow, wide>> \in {<<"ro", "rw">>, <<"rw", "ro">>}
PaddingOf(obj, wide, d) == Count(obj.sections, wide, Len(obj.sections)) * d

\* The reservation is enough when the padding for the sections of the kind with the
\* larger alignment is within the 128 bytes that reserveAllocationSpace adds: behind
\* i sections each segment has grown by no more than LLVM announced for them, and the
\* data segment by the padding of those of the wider kind.
LEMMA Reserved ==
  ASSUME NEW obj, IsObject(obj), NEW narrow, NEW wide, DataKinds(narrow, wide),
         NEW A, A = kindAlign(obj.sections, narrow), NEW B, B = kindAlign(obj.sections, wide),
         A <= B, PaddingOf(obj, wide, B - A) <= 128
  PROVE  ~loadObject(obj).fatal
<1>r. \A kind, t : Totals(t, obj.sections, kind) => \A i \in 1 .. Len(obj.sections) :
        /\ t[i - 1] \in Nat /\ t[i] \in Nat
        /\ obj.sections[i].kind = kind => t[i - 1] + obj.sections[i].size <= t[i]
        /\ obj.sections[i].kind # kind => t[i] = t[i - 1]
  BY TotalsRise
<1>. DEFINE q == obj.sections
            N == Len(q)
            C == kindAlign(q, "code")
            count(n) == Count(q, wide, n)
            P == [n \in 0 .. N |-> count(n) * (B - A)]
<1>0. N \in Nat /\ DOMAIN q = 1 .. N /\ A \in Alignments /\ B \in Alignments /\ C \in Alignments
      /\ A \in Nat /\ B \in Nat /\ B - A \in Nat
  <2>1. A \in Alignments /\ B \in Alignments /\ C \in Alignments
    BY KindAlign
  <2>2. A \in Nat /\ B \in Nat
    BY <2>1 DEF Alignments
  <2>. QED  BY <2>1, <2>2 DEF IsObject
<1>1. PICK f : Loads(f, N, obj) /\ loadObject(obj) = f[N]
  BY LoadedSlab
<1>2. PICK tc : Totals(tc, q, "code") /\ allocSize(q, "code") = tc[N]
  BY AllocSize
<1>3. PICK ta : Totals(ta, q, narrow) /\ allocSize(q, narrow) = ta[N]
  BY AllocSize
<1>4. PICK tb : Totals(tb, q, wide) /\ allocSize(q, wide) = tb[N]
  BY AllocSize
<1>5. /\ tc \in [0 .. N -> Nat] /\ tc[0] = 0 /\ ta \in [0 .. N -> Nat] /\ ta[0] = 0
      /\ tb \in [0 .. N -> Nat] /\ tb[0] = 0
  BY <1>2, <1>3, <1>4 DEF Totals
<1>a. ASSUME NEW i \in 0 .. N
      PROVE  tc[i] % C = 0 /\ ta[i] % A = 0 /\ tb[i] % B = 0
  BY <1>2, <1>3, <1>4, TotalsAligned
<1>b. ASSUME NEW i \in 1 .. N
      PROVE  /\ tc[i - 1] \in Nat /\ tc[i] \in Nat
             /\ q[i].kind = "code" => tc[i - 1] + q[i].size <= tc[i]
             /\ q[i].kind # "code" => tc[i] = tc[i - 1]
             /\ ta[i - 1] \in Nat /\ ta[i] \in Nat
             /\ q[i].kind = narrow => ta[i - 1] + q[i].size <= ta[i]
             /\ q[i].kind # narrow => ta[i] = ta[i - 1]
             /\ tb[i - 1] \in Nat /\ tb[i] \in Nat
             /\ q[i].kind = wide => tb[i - 1] + q[i].size <= tb[i]
             /\ q[i].kind # wide => tb[i] = tb[i - 1]
  <2>1. /\ tc[i - 1] \in Nat /\ tc[i] \in Nat
        /\ q[i].kind = "code" => tc[i - 1] + q[i].size <= tc[i]
        /\ q[i].kind # "code" => tc[i] = tc[i - 1]
    <3>1. IsObject(obj) /\ Totals(tc, obj.sections, "code") /\ i \in 1 .. Len(obj.sections)
      BY <1>2
    <3>. QED  BY <1>r, <3>1, Zenon
  <2>2. /\ ta[i - 1] \in Nat /\ ta[i] \in Nat
        /\ q[i].kind = narrow => ta[i - 1] + q[i].size <= ta[i]
        /\ q[i].kind # narrow => ta[i] = ta[i - 1]
    <3>1. IsObject(obj) /\ Totals(ta, obj.sections, narrow) /\ i \in 1 .. Len(obj.sections)
      BY <1>3
    <3>. QED  BY <1>r, <3>1, Zenon
  <2>3. /\ tb[i - 1] \in Nat /\ tb[i] \in Nat
        /\ q[i].kind = wide => tb[i - 1] + q[i].size <= tb[i]
        /\ q[i].kind # wide => tb[i] = tb[i - 1]
    <3>1. IsObject(obj) /\ Totals(tb, obj.sections, wide) /\ i \in 1 .. Len(obj.sections)
      BY <1>4
    <3>. QED  BY <1>r, <3>1, Zenon
  <2>. QED  BY <2>1, <2>2, <2>3
<1>6. /\ P \in [0 .. N -> Nat] /\ P[0] = 0 /\ P[N] <= 128
      /\ \A i \in 1 .. N :
           P[i] = P[i - 1] + (IF q[i].kind = wide THEN B - A ELSE 0)
  <2>1. B - A \in Nat
    BY <1>0 DEF Alignments
  <2>2. ASSUME NEW n \in Nat
        PROVE  count(n) \in Nat /\
               count(n + 1) = count(n) + (IF q[n + 1].kind = wide THEN 1 ELSE 0)
    <3>. HIDE DEF q
    <3>. QED  BY CountStep, Zenon
  <2>3. count(0) = 0
    <3>1. {j \in 1 .. 0 : q[j].kind = wide} = {}
      OBVIOUS
    <3>. QED  BY <3>1, FS_EmptySet DEF Count
  <2>4. count(N) * (B - A) <= 128
    BY Zenon DEF PaddingOf
  <2>. HIDE DEF count, N, q
  <2>5. ASSUME NEW n \in 0 .. N
        PROVE  count(n) * (B - A) \in Nat
    <3>0. n \in Nat
      BY <1>0
    <3>1. count(n) \in Nat
      BY <2>2, <3>0, Zenon
    <3>2. PICK k \in Nat, D \in Nat : k = count(n) /\ D = B - A
      BY <2>1, <3>1
    <3>3. k * D \in Nat
      OBVIOUS
    <3>. QED  BY <3>2, <3>3, Zenon
  <2>6. ASSUME NEW i \in 1 .. N
        PROVE  P[i] = P[i - 1] + (IF q[i].kind = wide THEN B - A ELSE 0)
    <3>1. i \in 0 .. N /\ i - 1 \in 0 .. N /\ i - 1 \in Nat /\ (i - 1) + 1 = i
      BY <1>0
    <3>2. count(i - 1) \in Nat /\ count(i) = count(i - 1) + (IF q[i].kind = wide THEN 1 ELSE 0)
      BY <2>2, <3>1
    <3>3. count(i) * (B - A) = count(i - 1) * (B - A) + (IF q[i].kind = wide THEN B - A ELSE 0)
      <4>. DEFINE k == count(i - 1)
                  D == B - A
      <4>1. k \in Nat /\ D \in Nat
        BY <2>1, <3>2
      <4>. HIDE DEF k, D
      <4>2. (k + 1) * D = k * D + D /\ (k + 0) * D = k * D + 0
        BY <4>1
      <4>3. CASE q[i].kind = wide
        BY <3>2, <4>2, <4>3 DEF k, D
      <4>4. CASE q[i].kind # wide
        BY <3>2, <4>2, <4>4 DEF k, D
      <4>. QED  BY <4>3, <4>4
    <3>4. P[i] = count(i) * (B - A) /\ P[i - 1] = count(i - 1) * (B - A)
      BY <3>1
    <3>. HIDE DEF P
    <3>. QED  BY <3>3, <3>4
  <2>7. 0 \in 0 .. N /\ N \in 0 .. N
    BY <1>0
  <2>8. P[0] = 0 * (B - A) /\ P[N] = count(N) * (B - A)
    BY <2>3, <2>7
  <2>9. P \in [0 .. N -> Nat]
    BY <2>5
  <2>. HIDE DEF P
  <2>10. 0 * (B - A) = 0
    BY <2>1
  <2>11. P[0] = 0 /\ P[N] <= 128
    BY <2>4, <2>8, <2>10, Zenon
  <2>. QED  BY <2>6, <2>9, <2>11
<1>. HIDE DEF P, N, count
<1>7. P[N] % A = 0 /\ \A i \in 0 .. N : P[i] % A = 0
  <2>. DEFINE S == {i \in 0 .. N : P[i] % A = 0}
  <2>1. 0 \in S
    BY <1>0, <1>6 DEF Alignments
  <2>2. ASSUME NEW i \in 0 .. (N - 1), i \in S
        PROVE  i + 1 \in S
    <3>1. i + 1 \in 1 .. N /\ (i + 1) - 1 = i /\ i + 1 \in 0 .. N /\ i \in 0 .. N
      BY <1>0
    <3>2. PICK m \in Nat : m = P[i] /\ m % A = 0
      BY <1>6, <2>2, <3>1
    <3>3. B - A \in Nat /\ (B - A) % A = 0 /\ A \in Alignments \cup {4096}
      <4>1. 0 \in Nat /\ 0 % B = 0
        BY <1>0 DEF Alignments
      <4>2. (B - A) % A = 0
        BY <1>0, <4>1, Divides
      <4>. QED  BY <1>0, <4>2 DEF Alignments
    <3>4. (m + (B - A)) % A = 0
      <4>1. PICK D \in Nat : D = B - A /\ D % A = 0
        BY <3>3
      <4>2. (m + D) % A = 0
        BY ONLY <3>2, <3>3, <4>1, SumAligned
      <4>. QED  BY <4>1, <4>2
    <3>5. P[i + 1] = m \/ P[i + 1] = m + (B - A)
      BY <1>6, <3>1, <3>2
    <3>6. P[i + 1] % A = 0
      BY <3>2, <3>4, <3>5, Zenon
    <3>. QED  BY <3>1, <3>6
  <2>3. 0 .. N \subseteq S
    <3>. HIDE DEF S
    <3>. QED  BY <1>0, <2>1, <2>2, UpTo
  <2>4. N \in 0 .. N
    BY <1>0
  <2>. QED  BY <2>3, <2>4
<1>. DEFINE Q == [n \in 0 .. N |-> ta[n] + tb[n] + P[n]]
            L0 == f[0].textSegLimit
            L1 == f[0].dataSegLimit
<1>8. /\ Q \in [0 .. N -> Nat] /\ Q[0] = 0 /\ Q[N] <= ta[N] + tb[N] + 128
      /\ \A i \in 0 .. N : Q[i] = ta[i] + tb[i] + P[i]
  <2>1. 0 \in 0 .. N /\ N \in 0 .. N
    BY <1>0
  <2>. QED  BY <1>5, <1>6, <2>1
<1>. HIDE DEF Q
<1>9. ASSUME NEW i \in 1 .. N
      PROVE  /\ q[i].size \in Nat /\ q[i].align \in Alignments
             /\ q[i].kind \in {"code", narrow, wide} /\ narrow # "code" /\ wide # "code"
             /\ q[i].kind = "code" => tc[i - 1] + q[i].size <= tc[i] /\ Q[i] = Q[i - 1]
             /\ q[i].kind # "code" => tc[i] = tc[i - 1]
             /\ q[i].kind = narrow => Q[i - 1] + q[i].size <= Q[i]
             /\ q[i].kind = wide => Q[i - 1] + (B - A) + q[i].size <= Q[i]
             /\ tc[i - 1] \in Nat /\ tc[i] \in Nat /\ Q[i - 1] \in Nat /\ Q[i] \in Nat
  <2>1. q[i].kind \in {"code", "ro", "rw"} /\ q[i].size \in Nat /\ q[i].align \in Alignments
    BY <1>0 DEF IsObject, Range
  <2>2. i \in 0 .. N /\ i - 1 \in 0 .. N
    BY <1>0
  <2>5. /\ tc[i - 1] \in Nat /\ tc[i] \in Nat
        /\ q[i].kind = "code" => tc[i - 1] + q[i].size <= tc[i]
        /\ q[i].kind # "code" => tc[i] = tc[i - 1]
        /\ ta[i - 1] \in Nat /\ ta[i] \in Nat
        /\ q[i].kind = narrow => ta[i - 1] + q[i].size <= ta[i]
        /\ q[i].kind # narrow => ta[i] = ta[i - 1]
        /\ tb[i - 1] \in Nat /\ tb[i] \in Nat
        /\ q[i].kind = wide => tb[i - 1] + q[i].size <= tb[i]
        /\ q[i].kind # wide => tb[i] = tb[i - 1]
    BY <1>b
  <2>6. /\ P[i - 1] \in Nat /\ P[i] \in Nat /\ B - A \in Nat
        /\ P[i] = P[i - 1] + (IF q[i].kind = wide THEN B - A ELSE 0)
    BY <1>0, <1>6, <2>2 DEF Alignments
  <2>7. Q[i] = ta[i] + tb[i] + P[i] /\ Q[i - 1] = ta[i - 1] + tb[i - 1] + P[i - 1]
    BY <1>8, <2>2
  <2>8. narrow # "code" /\ wide # "code" /\ narrow # wide /\ q[i].kind \in {"code", narrow, wide}
    BY <2>1 DEF DataKinds
  <2>. HIDE DEF q
  <2>a. Q[i] \in Nat /\ Q[i - 1] \in Nat
    BY <1>8, <2>2
  <2>9. CASE q[i].kind = "code"
    <3>1. ta[i] = ta[i - 1] /\ tb[i] = tb[i - 1] /\ P[i] = P[i - 1]
      BY <2>5, <2>6, <2>8, <2>9
    <3>2. Q[i] = Q[i - 1]
      BY <2>7, <3>1, Zenon
    <3>. QED  BY <2>1, <2>5, <2>8, <2>9, <2>a, <3>2
  <2>10. CASE q[i].kind = narrow
    <3>1. tb[i] = tb[i - 1] /\ P[i] = P[i - 1] /\ tc[i] = tc[i - 1]
      BY <2>5, <2>6, <2>8, <2>10
    <3>2. ta[i - 1] + q[i].size <= ta[i] /\ ta[i] \in Nat /\ ta[i - 1] \in Nat
      BY <2>5, <2>10
    <3>3. Q[i - 1] + q[i].size <= Q[i]
      BY <2>1, <2>5, <2>6, <2>7, <3>1, <3>2
    <3>. QED  BY <2>1, <2>5, <2>8, <2>10, <2>a, <3>1, <3>3
  <2>11. CASE q[i].kind = wide
    <3>1. ta[i] = ta[i - 1] /\ P[i] = P[i - 1] + (B - A) /\ tc[i] = tc[i - 1]
      BY <2>5, <2>6, <2>8, <2>11
    <3>2. tb[i - 1] + q[i].size <= tb[i] /\ tb[i] \in Nat /\ tb[i - 1] \in Nat
      BY <2>5, <2>11
    <3>3. Q[i - 1] + (B - A) + q[i].size <= Q[i]
      <4>1. PICK d \in Nat : d = B - A
        BY <2>6
      <4>2. P[i] = P[i - 1] + d
        BY <3>1, <4>1
      <4>3. Q[i - 1] + d + q[i].size <= Q[i]
        BY ONLY <2>1, <2>5, <2>6, <2>7, <3>1, <3>2, <4>1, <4>2
      <4>. QED  BY <4>1, <4>3
    <3>. QED  BY <2>1, <2>5, <2>8, <2>11, <2>a, <3>1, <3>3
  <2>. QED  BY <2>8, <2>9, <2>10, <2>11
<1>10. \A i \in 0 .. N : tc[i] <= tc[N] /\ Q[i] <= Q[N]
  <2>1. ASSUME NEW i \in 1 .. N
        PROVE  tc[i - 1] <= tc[i] /\ Q[i - 1] <= Q[i]
    <3>1. B - A \in Nat
      BY <1>0 DEF Alignments
    <3>. HIDE DEF q
    <3>2. /\ q[i].size \in Nat /\ q[i].kind \in {"code", narrow, wide}
          /\ narrow # "code" /\ wide # "code"
          /\ q[i].kind = "code" => tc[i - 1] + q[i].size <= tc[i] /\ Q[i] = Q[i - 1]
          /\ q[i].kind # "code" => tc[i] = tc[i - 1]
          /\ q[i].kind = narrow => Q[i - 1] + q[i].size <= Q[i]
          /\ q[i].kind = wide => Q[i - 1] + (B - A) + q[i].size <= Q[i]
          /\ tc[i - 1] \in Nat /\ tc[i] \in Nat /\ Q[i - 1] \in Nat /\ Q[i] \in Nat
      BY <1>9
    <3>3. CASE q[i].kind = "code"
      BY ONLY <3>2, <3>3
    <3>4. CASE q[i].kind = narrow
      BY ONLY <3>2, <3>4
    <3>5. CASE q[i].kind = wide
      BY ONLY <1>0, <3>2, <3>5
    <3>. QED  BY <3>2, <3>3, <3>4, <3>5
  <2>. QED  BY <1>0, <1>5, <1>8, <2>1, Grows
<1>11. /\ L0 \in Nat /\ L1 \in Nat /\ tc[N] <= L0 /\ L0 % 128 = 0 /\ f[0].textSegBase = 0
       /\ f[0].dataSegBase = L0 /\ L0 + Q[N] <= L1 /\ ~f[0].fatal
  <2>1. tc[N] \in Nat /\ ta[N] \in Nat /\ tb[N] \in Nat /\ Q[N] \in Nat
    <3>1. N \in 0 .. N
      BY <1>0
    <3>. QED  BY <1>5, <1>8, <3>1
  <2>2. \/ f[0] = reserveAllocationSpace(tc[N], ta[N], tb[N])
        \/ f[0] = reserveAllocationSpace(tc[N], tb[N], ta[N])
    BY <1>1, <1>2, <1>3, <1>4 DEF Loads, DataKinds
  <2>3. /\ SlabOk(f[0], obj) /\ tc[N] <= L0 /\ L0 % 128 = 0 /\ f[0].textSegBase = 0
        /\ f[0].dataSegBase = L0 /\ ~f[0].fatal
        /\ \/ L0 + ta[N] + tb[N] + 128 <= L1
           \/ L0 + tb[N] + ta[N] + 128 <= L1
    <3>1. CASE f[0] = reserveAllocationSpace(tc[N], ta[N], tb[N])
      <4>1. PICK slab : slab = f[0]
        OBVIOUS
      <4>2. slab = reserveAllocationSpace(tc[N], ta[N], tb[N])
        BY <3>1, <4>1
      <4>3. /\ SlabOk(slab, obj) /\ tc[N] <= slab.textSegLimit /\ slab.textSegLimit % 128 = 0
            /\ slab.textSegBase = 0 /\ slab.dataSegBase = slab.textSegLimit /\ ~slab.fatal
            /\ slab.textSegLimit + ta[N] + tb[N] + 128 <= slab.dataSegLimit
        BY ONLY <2>1, <4>2, FirstSlab
      <4>. QED  BY <4>1, <4>3, Zenon
    <3>2. CASE f[0] = reserveAllocationSpace(tc[N], tb[N], ta[N])
      <4>1. PICK slab : slab = f[0]
        OBVIOUS
      <4>2. slab = reserveAllocationSpace(tc[N], tb[N], ta[N])
        BY <3>2, <4>1
      <4>3. /\ SlabOk(slab, obj) /\ tc[N] <= slab.textSegLimit /\ slab.textSegLimit % 128 = 0
            /\ slab.textSegBase = 0 /\ slab.dataSegBase = slab.textSegLimit /\ ~slab.fatal
            /\ slab.textSegLimit + tb[N] + ta[N] + 128 <= slab.dataSegLimit
        BY ONLY <2>1, <4>2, FirstSlab
      <4>. QED  BY <4>1, <4>3, Zenon
    <3>. QED  BY <2>2, <3>1, <3>2
  <2>4. L0 \in Nat /\ L1 \in Nat
    BY <2>3 DEF SlabOk, Slabs
  <2>. HIDE DEF L0, L1
  <2>5. L0 + Q[N] <= L1
    BY <1>8, <2>1, <2>3, <2>4
  <2>. QED  BY <2>3, <2>4, <2>5
<1>12. ASSUME NEW i \in 0 .. N
       PROVE  L0 + Q[i] \in Nat /\ (L0 + Q[i]) % A = 0
  <2>. HIDE DEF L0
  <2>1. PICK l \in Nat, m \in Nat, n \in Nat, p \in Nat :
          l = L0 /\ m = ta[i] /\ n = tb[i] /\ p = P[i]
    BY <1>5, <1>6, <1>11
  <2>2. l % A = 0
    <3>1. 128 \in Alignments /\ A <= 128
      BY <1>0 DEF Alignments
    <3>. QED  BY <1>0, <1>11, <2>1, <3>1, Divides
  <2>3. m % A = 0 /\ p % A = 0
    BY <1>7, <1>a, <2>1, Zenon
  <2>4. n % A = 0
    <3>1. n % B = 0
      BY <1>a, <2>1, Zenon
    <3>. QED  BY <1>0, <3>1, Divides
  <2>5. A \in Alignments \cup {4096}
    BY <1>0
  <2>6. PICK s \in Nat : s = m + n /\ s % A = 0
    BY ONLY <2>3, <2>4, <2>5, SumAligned
  <2>7. PICK t \in Nat : t = s + p /\ t % A = 0
    BY ONLY <2>3, <2>5, <2>6, SumAligned
  <2>8. l + t \in Nat /\ (l + t) % A = 0
    BY ONLY <2>2, <2>5, <2>7, SumAligned
  <2>9. t = Q[i]
    BY <1>8, <2>1, <2>6, <2>7
  <2>. QED  BY <2>1, <2>8, <2>9
<1>. DEFINE good(i) == ~f[i].fatal /\ f[i].textSegBase <= tc[i] /\ f[i].dataSegBase <= L0 + Q[i]
            S == {i \in 0 .. N : good(i)}
<1>13. 0 \in S
  <2>1. 0 \in 0 .. N
    BY <1>0
  <2>. HIDE DEF L0, L1
  <2>2. f[0].textSegBase <= tc[0] /\ f[0].dataSegBase <= L0 + Q[0]
    BY <1>5, <1>8, <1>11
  <2>. QED  BY <1>11, <2>1, <2>2
<1>14. ASSUME NEW i \in 0 .. (N - 1), i \in S
       PROVE  i + 1 \in S
  <2>0. PICK s, slab, new : s = q[i + 1] /\ slab = f[i] /\ new = f[i + 1]
    OBVIOUS
  <2>. DEFINE textAddr == alignTo(slab.textSegBase, s.align)
              dataAddr == alignTo(slab.dataSegBase, s.align)
  <2>1. i + 1 \in 1 .. N /\ (i + 1) - 1 = i /\ i + 1 \in 0 .. N /\ i \in 0 .. N
    BY <1>0
  <2>2. new = allocate(slab, s) /\ s \in Range(obj.sections)
    BY <1>0, <1>1, <2>0, <2>1 DEF Loads, Range
  <2>3. SlabOk(slab, obj) /\ slab.textSegLimit = L0 /\ slab.dataSegLimit = L1
    BY <1>1, <2>0, <2>1, SlabsOnTheWay DEF N
  <2>4. slab \in Slabs(obj) /\ slab.textSegBase \in Nat /\ slab.dataSegBase \in Nat
    BY <2>3 DEF SlabOk, Slabs
  <2>5. /\ textAddr \in Nat /\ dataAddr \in Nat
        /\ new = IF s.kind = "code"
                   THEN IF slab.fatal \/ textAddr + s.size > slab.textSegLimit
                          THEN [slab EXCEPT !.fatal = TRUE]
                          ELSE [slab EXCEPT
                                  !.textSegBase = textAddr + s.size,
                                  !.sections = Append(@, [section |-> s, addr |-> textAddr])]
                   ELSE IF slab.fatal \/ dataAddr + s.size > slab.dataSegLimit
                          THEN [slab EXCEPT !.fatal = TRUE]
                          ELSE [slab EXCEPT
                                  !.dataSegBase = dataAddr + s.size,
                                  !.sections = Append(@, [section |-> s, addr |-> dataAddr])]
    BY <2>2, <2>4, Allocates, Zenon
  <2>6. ~slab.fatal /\ slab.textSegBase <= tc[i] /\ slab.dataSegBase <= L0 + Q[i]
    BY <1>14, <2>0
  <2>7. /\ s.size \in Nat /\ s.align \in Alignments
        /\ s.kind \in {"code", narrow, wide} /\ narrow # "code" /\ wide # "code"
        /\ s.kind = "code" => tc[i] + s.size <= tc[i + 1] /\ Q[i + 1] = Q[i]
        /\ s.kind # "code" => tc[i + 1] = tc[i]
        /\ s.kind = narrow => Q[i] + s.size <= Q[i + 1]
        /\ s.kind = wide => Q[i] + (B - A) + s.size <= Q[i + 1]
        /\ tc[i] \in Nat /\ tc[i + 1] \in Nat /\ Q[i] \in Nat /\ Q[i + 1] \in Nat
    BY <1>9, <2>0, <2>1
  <2>8. tc[i + 1] <= tc[N] /\ Q[i + 1] <= Q[N] /\ tc[N] \in Nat /\ Q[N] \in Nat
    <3>1. N \in 0 .. N
      BY <1>0
    <3>2. tc[N] \in Nat /\ Q[N] \in Nat
      BY <1>5, <1>8, <3>1
    <3>. QED  BY <1>10, <2>1, <3>2
  <2>9. /\ s.kind = "code" => s.align <= C
        /\ s.kind = narrow => s.align <= A
        /\ s.kind = wide => s.align <= B
    BY <2>2, KindAlign
  <2>10. tc[i] % C = 0
    BY <1>a, <2>1, Zenon
  <2>11. L0 + Q[i] \in Nat /\ (L0 + Q[i]) % A = 0
    BY <1>12, <2>1
  <2>. HIDE DEF L0, L1, q, textAddr, dataAddr, C
  <2>12. CASE s.kind = "code"
    <3>1. textAddr <= tc[i]
      BY <1>0, <2>4, <2>6, <2>7, <2>9, <2>10, <2>12, NarrowFits DEF textAddr
    <3>2. textAddr + s.size <= tc[i + 1] /\ textAddr + s.size <= slab.textSegLimit
      BY <1>11, <2>3, <2>5, <2>7, <2>8, <2>12, <3>1
    <3>3. ~(slab.fatal \/ textAddr + s.size > slab.textSegLimit)
      BY <1>11, <2>3, <2>5, <2>6, <2>7, <3>2
    <3>4. new = [slab EXCEPT
                   !.textSegBase = textAddr + s.size,
                   !.sections = Append(@, [section |-> s, addr |-> textAddr])]
      BY <2>5, <2>12, <3>3, Zenon
    <3>5. new.textSegBase = textAddr + s.size /\ new.dataSegBase = slab.dataSegBase /\ ~new.fatal
      BY <2>4, <2>6, <3>4 DEF Slabs
    <3>6. new.dataSegBase <= L0 + Q[i + 1]
      BY <2>6, <2>7, <2>12, <3>5
    <3>. QED  BY <2>0, <2>1, <2>4, <2>6, <3>2, <3>5, <3>6
  <2>13. CASE s.kind \in {narrow, wide}
    <3>1. dataAddr + s.size <= L0 + Q[i + 1]
      <4>. DEFINE U == L0 + Q[i]
      <4>1. U \in Nat /\ U % A = 0 /\ slab.dataSegBase <= U
        BY <2>6, <2>11
      <4>2. s.kind = narrow => dataAddr <= U
        <5>. HIDE DEF U
        <5>. QED  BY <1>0, <2>4, <2>7, <2>9, <4>1, NarrowFits DEF dataAddr
      <4>3. s.kind = wide => dataAddr <= U + (B - A)
        <5>. HIDE DEF U
        <5>. QED  BY <1>0, <2>4, <2>7, <2>9, <4>1, WideFits DEF dataAddr
      <4>4. A \in Nat /\ B \in Nat
        BY <1>0 DEF Alignments
      <4>. QED  BY <1>11, <2>5, <2>7, <2>13, <4>2, <4>3, <4>4
    <3>2. ~(slab.fatal \/ dataAddr + s.size > slab.dataSegLimit)
      BY <1>11, <2>3, <2>5, <2>6, <2>7, <2>8, <3>1
    <3>3. s.kind # "code"
      BY <2>7, <2>13
    <3>4. new = [slab EXCEPT
                   !.dataSegBase = dataAddr + s.size,
                   !.sections = Append(@, [section |-> s, addr |-> dataAddr])]
      BY <2>5, <3>2, <3>3, Zenon
    <3>5. new.dataSegBase = dataAddr + s.size /\ new.textSegBase = slab.textSegBase /\ ~new.fatal
      BY <2>4, <2>6, <3>4 DEF Slabs
    <3>6. new.textSegBase <= tc[i + 1]
      BY <2>6, <2>7, <3>3, <3>5
    <3>. QED  BY <2>0, <2>1, <2>4, <2>6, <3>1, <3>5, <3>6
  <2>. QED  BY <2>7, <2>12, <2>13
<1>15. 0 .. N \subseteq S
  <2>. HIDE DEF S
  <2>. QED  BY <1>0, <1>13, <1>14, UpTo
<1>16. N \in 0 .. N
  BY <1>0
<1>. QED  BY <1>1, <1>15, <1>16

\* What reserveAllocationSpace asks for is enough for the sections that LLVM then
\* allocates one by one: MemoryManager::Slab::allocate never gets past a limit, so
\* oid is not ended, for any number of sections of any size.  The padding between
\* constants and data is at most the 128 bytes the slab has for it.
THEOREM ReservationSuffices ==
  ASSUME NEW obj, IsObject(obj), dataPadding(obj.sections) <= 128
  PROVE  ~loadObject(obj).fatal
<1>. DEFINE ro == kindAlign(obj.sections, "ro")
            rw == kindAlign(obj.sections, "rw")
            count(kind) == Count(obj.sections, kind, Len(obj.sections))
<1>1. ro \in Nat /\ rw \in Nat
  BY KindAlign DEF Alignments
<1>2. IF ro > rw THEN count("ro") * (ro - rw) <= 128 ELSE count("rw") * (rw - ro) <= 128
  BY DEF dataPadding, IsObject, Count
<1>a. DataKinds("ro", "rw") /\ DataKinds("rw", "ro")
  BY DEF DataKinds
<1>3. CASE ro > rw
  <2>1. rw <= ro /\ PaddingOf(obj, "ro", ro - rw) <= 128
    BY <1>1, <1>2, <1>3 DEF PaddingOf
  <2>. QED  BY <1>a, <2>1, Reserved, Zenon
<1>4. CASE ~(ro > rw)
  <2>1. ro <= rw /\ PaddingOf(obj, "rw", rw - ro) <= 128
    BY <1>1, <1>2, <1>4 DEF PaddingOf
  <2>. QED  BY <1>a, <2>1, Reserved, Zenon
<1>. QED  BY <1>3, <1>4

-----------------------------------------------------------------------------
(***************************************************************************)
(* The slabs in the target                                                 *)
(***************************************************************************)

\* The first of n slabs is at base, every other behind the one before.
Follows(f, n, slabs, base) ==
  /\ f = [i \in 1 .. n |-> f[i]]
  /\ \A i \in 1 .. n :
       f[i] = IF i = 1 THEN base ELSE alignTo(f[i - 1] + slabs[i - 1].allocatedSize, RelocAlign)

\* There is such a function.
LEMMA FollowsExists ==
  ASSUME NEW slabs, NEW base, NEW n \in Nat
  PROVE  \E f : Follows(f, n, slabs, base)
<1>. DEFINE S == {m \in Nat : \E f : Follows(f, m, slabs, base)}
<1>1. 0 \in S
  <2>. DEFINE D == 1 .. 0
              g == [i \in D |-> base]
  <2>1. D = {}
    OBVIOUS
  <2>2. g = [i \in 1 .. 0 |-> g[i]]
    OBVIOUS
  <2>. HIDE DEF g
  <2>3. Follows(g, 0, slabs, base)
    BY <2>1, <2>2 DEF Follows
  <2>. QED  BY <2>3
<1>2. ASSUME NEW m \in 0 .. (n - 1), m \in S
      PROVE  m + 1 \in S
  <2>1. PICK f : Follows(f, m, slabs, base)
    BY <1>2
  <2>. DEFINE next(x, i) == IF i = 1 THEN base
                            ELSE alignTo(x + slabs[i - 1].allocatedSize, RelocAlign)
              g == [i \in 1 .. (m + 1) |-> IF i = m + 1 THEN next(f[m], m + 1) ELSE f[i]]
  <2>2. \A i \in 1 .. m : f[i] = next(f[i - 1], i)
    BY <2>1, Zenon DEF Follows
  <2>. HIDE DEF next
  <2>3. ASSUME NEW i \in 1 .. (m + 1)
        PROVE  g[i] = next(g[i - 1], i)
    <3>1. CASE i = m + 1
      <4>1. i - 1 = m /\ g[i] = next(f[m], i)
        BY <3>1
      <4>2. CASE m = 0
        <5>1. i = 1
          BY <3>1, <4>2
        <5>. QED  BY <4>1, <5>1 DEF next
      <4>3. CASE m # 0
        <5>1. m \in 1 .. (m + 1) /\ m # m + 1
          BY <4>3
        <5>2. g[m] = f[m]
          BY <5>1
        <5>. HIDE DEF g
        <5>. QED  BY <4>1, <5>2
      <4>. QED  BY <4>2, <4>3
    <3>2. CASE i # m + 1
      <4>1. i \in 1 .. m
        BY <3>2
      <4>2. g[i] = f[i] /\ f[i] = next(f[i - 1], i)
        BY <2>2, <3>2, <4>1
      <4>3. CASE i = 1
        BY <4>2, <4>3 DEF next
      <4>4. CASE i # 1
        <5>1. i - 1 \in 1 .. (m + 1) /\ i - 1 # m + 1
          BY <4>1, <4>4
        <5>2. g[i - 1] = f[i - 1]
          BY <5>1
        <5>. HIDE DEF g
        <5>. QED  BY <4>2, <5>2
      <4>. QED  BY <4>3, <4>4
    <3>. QED  BY <3>1, <3>2
  <2>4. g = [i \in 1 .. (m + 1) |-> g[i]]
    OBVIOUS
  <2>. HIDE DEF g
  <2>5. Follows(g, m + 1, slabs, base)
    BY <2>3, <2>4 DEF Follows, next
  <2>. QED  BY <2>5
<1>3. 0 .. n \subseteq S
  <2>. HIDE DEF S
  <2>. QED  BY <1>1, <1>2, UpTo
<1>. QED  BY <1>3

\* What applyRelocs returns for a list of object files.
slabsOf(objects) == [i \in DOMAIN objects |-> loadObject(objects[i])]
Relocation(res, objects, f, synthetic, prog, weak) ==
  LET slabs == slabsOf(objects) IN
  /\ res.fatal = (\E i \in DOMAIN objects : slabs[i].fatal)
  /\ res.fits = (\A i \in DOMAIN objects : slabFits(slabs[i]))
  /\ res.relocInfos =
       [i \in DOMAIN objects |-> [RelocAddr |-> f[i], Size |-> slabs[i].allocatedSize]]
  /\ res.sections = UNION {{[s EXCEPT !.addr = f[i] + @] :
                              s \in Range(slabs[i].sections)} : i \in DOMAIN objects}
  /\ res.failed = (\E x \in DOMAIN res.externals : res.externals[x] = 0)
  /\ \A x \in DOMAIN res.externals :
       res.externals[x] = findSymbol(x, synthetic, prog, weak)
  /\ DOMAIN res.externals = UNION {o.externals : o \in Range(objects)}
  /\ DOMAIN res.symbols = UNION {o.defines : o \in Range(objects)}

\* Its recursive function of addresses is one.
LEMMA Relocates ==
  ASSUME NEW objects, Len(objects) \in Nat, NEW base, NEW synthetic, NEW prog, NEW weak,
         NEW res, res = applyRelocs(base, objects, synthetic, prog, weak)
  PROVE  \E f : /\ Follows(f, Len(objects), slabsOf(objects), base)
                /\ Relocation(res, objects, f, synthetic, prog, weak)
<1>. DEFINE slabs == slabsOf(objects)
            RelocAddr[i \in 1 .. Len(objects)] ==
              IF i = 1 THEN base
              ELSE alignTo(RelocAddr[i - 1] + slabs[i - 1].allocatedSize, RelocAlign)
            externals == UNION {o.externals : o \in Range(objects)}
            resolved == [x \in externals |-> findSymbol(x, synthetic, prog, weak)]
<1>1. PICK f : Follows(f, Len(objects), slabs, base)
  BY FollowsExists
<1>2. f = [i \in 1 .. Len(objects) |->
             IF i = 1 THEN base ELSE alignTo(f[i - 1] + slabs[i - 1].allocatedSize, RelocAlign)]
  <2>. HIDE DEF slabs
  <2>1. f = [i \in 1 .. Len(objects) |-> f[i]]
    BY <1>1 DEF Follows
  <2>2. \A i \in 1 .. Len(objects) :
          f[i] = IF i = 1 THEN base
                 ELSE alignTo(f[i - 1] + slabs[i - 1].allocatedSize, RelocAlign)
    BY <1>1, Zenon DEF Follows
  <2>. QED  BY <2>1, <2>2, Zenon
<1>3. RelocAddr = [i \in 1 .. Len(objects) |->
        IF i = 1 THEN base
        ELSE alignTo(RelocAddr[i - 1] + slabs[i - 1].allocatedSize, RelocAlign)]
  <2>. HIDE DEF slabs
  <2>. QED  BY <1>2, Zenon
<1>4. res = [fatal |-> \E i \in DOMAIN objects : slabs[i].fatal,
             fits |-> \A i \in DOMAIN objects : slabFits(slabs[i]),
             failed |-> \E x \in externals : resolved[x] = 0,
             relocInfos |-> [i \in DOMAIN objects |->
                               [RelocAddr |-> RelocAddr[i], Size |-> slabs[i].allocatedSize]],
             sections |-> UNION {{[s EXCEPT !.addr = RelocAddr[i] + @] :
                                    s \in Range(slabs[i].sections)} : i \in DOMAIN objects},
             externals |-> resolved,
             symbols |-> [x \in UNION {o.defines : o \in Range(objects)} |->
               RelocAddr[SelectInSeq(objects, LAMBDA o : x \in o.defines)]]]
  BY Zenon DEF applyRelocs, slabsOf
<1>. HIDE DEF RelocAddr
<1>6. Follows(RelocAddr, Len(objects), slabs, base)
  BY <1>3, Zenon DEF Follows
<1>. DEFINE symbols == [x \in UNION {o.defines : o \in Range(objects)} |->
               RelocAddr[SelectInSeq(objects, LAMBDA o : x \in o.defines)]]
            fatal == \E i \in DOMAIN objects : slabs[i].fatal
            fits == \A i \in DOMAIN objects : slabFits(slabs[i])
            failed == \E x \in externals : resolved[x] = 0
            relocInfos == [i \in DOMAIN objects |->
                             [RelocAddr |-> RelocAddr[i], Size |-> slabs[i].allocatedSize]]
            sections == UNION {{[s EXCEPT !.addr = RelocAddr[i] + @] :
                                  s \in Range(slabs[i].sections)} : i \in DOMAIN objects}
<1>7. res = [fatal |-> fatal, fits |-> fits, failed |-> failed, relocInfos |-> relocInfos,
             sections |-> sections, externals |-> resolved, symbols |-> symbols]
  BY <1>4, Zenon
<1>8. DOMAIN resolved = externals
  OBVIOUS
<1>9. \A x \in externals : resolved[x] = findSymbol(x, synthetic, prog, weak)
  BY Zenon
<1>10. failed = \E x \in DOMAIN resolved : resolved[x] = 0
  <2>. HIDE DEF externals, resolved
  <2>. QED  BY <1>8
<1>s. DOMAIN symbols = UNION {o.defines : o \in Range(objects)}
  OBVIOUS
<1>. HIDE DEF symbols, resolved, externals, failed
<1>11. /\ res.fatal = fatal /\ res.fits = fits /\ res.failed = failed
       /\ res.relocInfos = relocInfos /\ res.sections = sections /\ res.externals = resolved
       /\ res.symbols = symbols
  <2>. HIDE DEF fatal, fits, relocInfos, sections
  <2>. QED  BY <1>7
<1>12. Relocation(res, objects, RelocAddr, synthetic, prog, weak)
  BY <1>8, <1>9, <1>10, <1>11, <1>s, Zenon DEF Relocation, failed, externals
<1>. QED  BY <1>6, <1>12, Zenon

\* Nothing is added to what is aligned.
LEMMA AlignedAlready ==
  ASSUME NEW n \in Nat, n % 128 = 0
  PROVE  alignTo(n, 128) = n
BY DEF alignTo

\* Blocks are whole pages and the first slab is aligned, so the slabs follow each
\* other without a gap, and no slab ends in the first 127 bytes of a page.
LEMMA SlabsFollow ==
  ASSUME NEW n \in Nat, NEW slabs, NEW f, NEW base, base = 128, Follows(f, n, slabs, base),
         \A i \in 1 .. n : slabs[i].allocatedSize \in Nat /\ slabs[i].allocatedSize % 4096 = 0
  PROVE  /\ \A i \in 1 .. n : f[i] \in Nat /\ f[i] % 4096 = 128
         /\ \A i \in 1 .. (n - 1) : f[i + 1] = f[i] + slabs[i].allocatedSize
<1>a. \A i \in 1 .. n :
        f[i] = IF i = 1 THEN base
               ELSE alignTo(f[i - 1] + slabs[i - 1].allocatedSize, RelocAlign)
  BY Zenon DEF Follows
<1>. DEFINE good(i) == f[i] \in Nat /\ f[i] % 4096 = 128
            S == {i \in 0 .. n : i # 0 => good(i)}
<1>1. 0 \in S
  OBVIOUS
<1>2. ASSUME NEW i \in 1 .. (n - 1), good(i)
      PROVE  f[i + 1] = f[i] + slabs[i].allocatedSize /\ good(i + 1)
  <2>1. i \in 1 .. n /\ i + 1 \in 1 .. n /\ i + 1 # 1 /\ (i + 1) - 1 = i
    OBVIOUS
  <2>2. PICK m \in Nat, k \in Nat :
          m = f[i] /\ m % 4096 = 128 /\ k = slabs[i].allocatedSize /\ k % 4096 = 0
    BY <1>2, <2>1
  <2>3. f[i + 1] = alignTo(m + k, RelocAlign)
    BY <1>a, <2>1, <2>2
  <2>4. m + k \in Nat /\ (m + k) % 4096 = 128 /\ (m + k) % 128 = 0
    BY ONLY <2>2
  <2>5. alignTo(m + k, 128) = m + k
    BY ONLY <2>4, AlignedAlready
  <2>6. f[i + 1] = m + k
    BY <2>3, <2>5 DEF RelocAlign
  <2>. QED  BY <2>2, <2>4, <2>6
<1>3. ASSUME NEW i \in 0 .. (n - 1), i \in S
      PROVE  i + 1 \in S
  <2>1. CASE i = 0
    <3>1. 1 \in 1 .. n
      BY <2>1
    <3>2. f[1] = 128
      BY <1>a, <3>1
    <3>3. 128 \in Nat /\ 128 % 4096 = 128
      OBVIOUS
    <3>. QED  BY <2>1, <3>1, <3>2, <3>3
  <2>2. CASE i # 0
    <3>1. i \in 1 .. (n - 1) /\ i + 1 \in 0 .. n
      BY <2>2
    <3>2. good(i)
      BY <1>3, <2>2
    <3>3. good(i + 1)
      BY <1>2, <3>1, <3>2
    <3>. QED  BY <3>1, <3>3
  <2>. QED  BY <2>1, <2>2
<1>4. 0 .. n \subseteq S
  <2>. HIDE DEF S
  <2>1. n \in Nat
    OBVIOUS
  <2>. QED  BY ONLY <1>1, <1>3, <2>1, UpTo
<1>5. \A i \in 1 .. n : good(i)
  BY <1>4
<1>. HIDE DEF good
<1>6. ASSUME NEW i \in 1 .. (n - 1)
      PROVE  f[i + 1] = f[i] + slabs[i].allocatedSize
  BY <1>2, <1>5
<1>. QED  BY <1>5, <1>6 DEF good

\* No slab is over another.
LEMMA SlabsApart ==
  ASSUME NEW n \in Nat, NEW slabs, NEW f, \A i \in 1 .. n : f[i] \in Nat,
         \A i \in 1 .. n : slabs[i].allocatedSize \in Nat,
         \A i \in 1 .. (n - 1) : f[i + 1] = f[i] + slabs[i].allocatedSize,
         NEW j \in 1 .. n, NEW k \in 1 .. n, j < k
  PROVE  f[j] + slabs[j].allocatedSize <= f[k]
<1>. DEFINE S == {i \in 0 .. n : j < i => f[j] + slabs[j].allocatedSize <= f[i]}
<1>1. 0 \in S
  OBVIOUS
<1>2. ASSUME NEW i \in 0 .. (n - 1), i \in S
      PROVE  i + 1 \in S
  <2>1. CASE i < j
    BY <2>1
  <2>2. CASE i = j
    BY <2>2
  <2>3. CASE j < i
    <3>1. i \in 1 .. (n - 1) /\ i \in 1 .. n
      BY <2>3
    <3>2. f[j] + slabs[j].allocatedSize <= f[i] /\ f[i + 1] = f[i] + slabs[i].allocatedSize
      BY <1>2, <2>3, <3>1
    <3>3. f[j] + slabs[j].allocatedSize <= f[i + 1]
      BY <3>1, <3>2
    <3>. QED  BY <3>3
  <2>. QED  BY <2>1, <2>2, <2>3
<1>3. 0 .. n \subseteq S
  <2>. HIDE DEF S
  <2>. QED  BY <1>1, <1>2, UpTo
<1>. QED  BY <1>3

\* A section of a slab that is at a.
LEMMA SlotPlaced ==
  ASSUME NEW obj, IsObject(obj), NEW slab, slab = loadObject(obj), NEW a \in Nat,
         a % 4096 = 128, NEW p \in Range(slab.sections), NEW s, s = [p EXCEPT !.addr = a + @]
  PROVE  /\ p.addr \in Nat /\ s.section = p.section /\ s.addr = a + p.addr
         /\ s.addr \in Nat /\ s.section.size \in Nat /\ a <= s.addr
         /\ s.addr + s.section.size <= a + slab.allocatedSize
         /\ s.addr % s.section.align = 0
<1>1. SlabOk(slab, obj) /\ slabFits(slab) /\ slab.allocatedSize \in Nat
  BY SlabOfObject
<1>2. PICK k \in 1 .. Len(slab.sections) : p = slab.sections[k] /\ slab.sections[k] \in Slots(obj)
  BY <1>1 DEF SlabOk, Slabs, Range
<1>3. p \in Slots(obj) /\ InSlab(p, slab)
  BY <1>1, <1>2 DEF SlabOk
<1>4. /\ p.addr \in Nat /\ p.section.size \in Nat /\ p.section.align \in Alignments
      /\ s.section = p.section /\ s.addr = a + p.addr
  BY <1>3 DEF Slots, IsObject
<1>5. /\ slab.textSegBase \in Nat /\ slab.textSegLimit \in Nat /\ slab.dataSegBase \in Nat
      /\ slab.dataSegLimit \in Nat /\ slab.dataSegLimit <= slab.allocatedSize
      /\ slab.textSegBase <= slab.textSegLimit /\ slab.textSegLimit <= slab.dataSegBase
      /\ slab.dataSegBase <= slab.dataSegLimit
  BY <1>1 DEF SlabOk, Slabs, slabFits
<1>6. p.addr + p.section.size <= slab.allocatedSize
  <2>1. \/ p.addr + p.section.size <= slab.textSegBase
        \/ p.addr + p.section.size <= slab.dataSegBase
    BY <1>3 DEF InSlab
  <2>. QED  BY ONLY <1>1, <1>4, <1>5, <2>1
<1>7. (a + p.addr) % p.section.align = 0
  <2>1. PICK l \in Alignments, m \in Nat : l = p.section.align /\ m = p.addr /\ m % l = 0
    BY <1>3, <1>4 DEF InSlab
  <2>2. a % l = 0
    <3>1. 128 \in Alignments /\ l <= 128 /\ a % 128 = 0
      BY <2>1, SMTT(30) DEF Alignments
    <3>. QED  BY <3>1, Divides
  <2>3. (a + m) % l = 0
    <3>1. a \in Nat
      OBVIOUS
    <3>2. m % l = 0
      BY <2>1
    <3>. QED  BY ONLY <2>2, <3>1, <3>2 DEF Alignments
  <2>. QED  BY <2>1, <2>3
<1>8. a + p.addr \in Nat /\ a <= a + p.addr
      /\ (a + p.addr) + p.section.size <= a + slab.allocatedSize
  <2>1. a \in Nat
    OBVIOUS
  <2>. QED  BY ONLY <1>1, <1>4, <1>6, <2>1
<1>9. s.addr % s.section.align = 0
  BY ONLY <1>4, <1>7, Zenon
<1>10. /\ s.addr \in Nat /\ a <= s.addr
       /\ s.addr + s.section.size <= a + slab.allocatedSize
  BY ONLY <1>4, <1>8
<1>. QED  BY ONLY <1>4, <1>9, <1>10

\* Two sections of it.
LEMMA SlotsPlacedApart ==
  ASSUME NEW obj, IsObject(obj), NEW slab, slab = loadObject(obj), NEW a \in Nat,
         NEW p \in Range(slab.sections), NEW q \in Range(slab.sections), p # q,
         NEW s, NEW t, s.section = p.section, t.section = q.section,
         s.addr = a + p.addr, t.addr = a + q.addr
  PROVE  Disjoint(s, t)
<1>1. SlabOk(slab, obj)
  BY SlabOfObject
<1>2. PICK k \in 1 .. Len(slab.sections), l \in 1 .. Len(slab.sections) :
        /\ p = slab.sections[k] /\ q = slab.sections[l]
        /\ slab.sections[k] \in Slots(obj) /\ slab.sections[l] \in Slots(obj)
  BY <1>1 DEF SlabOk, Slabs, Range
<1>3. Disjoint(p, q)
  BY <1>1, <1>2 DEF SlabOk
<1>4. /\ p.addr \in Nat /\ p.section.size \in Nat /\ q.addr \in Nat /\ q.section.size \in Nat
  BY <1>2 DEF Slots, IsObject
<1>5. /\ s.section = p.section /\ t.section = q.section /\ a \in Nat
      /\ s.addr = a + p.addr /\ t.addr = a + q.addr
  OBVIOUS
<1>6. s.section.size = p.section.size /\ t.section.size = q.section.size
  BY ONLY <1>5
<1>7. CASE p.addr + p.section.size <= q.addr
  <2>1. s.addr + s.section.size <= t.addr
    BY ONLY <1>4, <1>5, <1>6, <1>7
  <2>. QED  BY ONLY <2>1 DEF Disjoint
<1>8. CASE q.addr + q.section.size <= p.addr
  <2>1. t.addr + t.section.size <= s.addr
    BY ONLY <1>4, <1>5, <1>6, <1>8
  <2>. QED  BY ONLY <2>1 DEF Disjoint
<1>. QED  BY ONLY <1>3, <1>7, <1>8 DEF Disjoint

-----------------------------------------------------------------------------
(***************************************************************************)
(* The order of the object files                                           *)
(***************************************************************************)

\* s lists its first n members once each; g adds up their weights, from base on.
Once(s, n) == \A i, j \in 1 .. n : s[i] = s[j] => i = j
First(s, n) == {s[i] : i \in 1 .. n}
Adds(g, n, s, W, base) ==
  /\ g[0] = base /\ \A i \in 0 .. n : g[i] \in Int
  /\ \A i \in 1 .. n : g[i] = g[i - 1] + W[s[i]]

\* One member is left out of a list.
LEMMA LeaveOut ==
  ASSUME NEW n \in Nat, NEW t, Once(t, n + 1), NEW h, NEW W, NEW base,
         Adds(h, n + 1, t, W, base), NEW k \in 1 .. (n + 1),
         \A j \in 1 .. (n + 1) : W[t[j]] \in Int
  PROVE  \E u, g : /\ Once(u, n) /\ First(u, n) = First(t, n + 1) \ {t[k]}
                  /\ Adds(g, n, u, W, base) /\ g[n] = h[n + 1] - W[t[k]]
<1>. DEFINE at(i) == IF i < k THEN i ELSE i + 1
            u == [i \in 1 .. n |-> t[at(i)]]
            g == [i \in 0 .. n |-> IF i < k THEN h[i] ELSE h[i + 1] - W[t[k]]]
<1>1. /\ \A i \in 1 .. n : at(i) \in 1 .. (n + 1) /\ at(i) # k
      /\ \A i, j \in 1 .. n : at(i) = at(j) => i = j
  OBVIOUS
<1>2. ASSUME NEW j \in 1 .. (n + 1), j # k
      PROVE  \E i \in 1 .. n : at(i) = j
  <2>1. CASE j < k
    <3>1. j \in 1 .. n /\ at(j) = j
      BY <2>1
    <3>. QED  BY <3>1
  <2>2. CASE ~(j < k)
    <3>1. j - 1 \in 1 .. n /\ at(j - 1) = j
      BY <1>2, <2>2
    <3>. QED  BY <3>1
  <2>. QED  BY <2>1, <2>2
<1>3. \A i \in 1 .. n : u[i] = t[at(i)]
  OBVIOUS
<1>4. Adds(g, n, u, W, base)
  <2>1. /\ \A i \in 0 .. (n + 1) : h[i] \in Int
        /\ \A i \in 1 .. (n + 1) : h[i] = h[i - 1] + W[t[i]]
        /\ h[0] = base
    BY DEF Adds
  <2>2. g[0] = base
    BY <2>1
  <2>3. ASSUME NEW i \in 0 .. n
        PROVE  g[i] \in Int
    <3>1. i \in 0 .. (n + 1) /\ i + 1 \in 0 .. (n + 1)
      OBVIOUS
    <3>. QED  BY <2>1, <3>1
  <2>4. ASSUME NEW i \in 1 .. n
        PROVE  g[i] = g[i - 1] + W[u[i]]
    <3>0. /\ i \in 0 .. n /\ i - 1 \in 0 .. n /\ i \in 1 .. (n + 1) /\ i + 1 \in 1 .. (n + 1)
          /\ (i + 1) - 1 = i /\ (i - 1) + 1 = i
      OBVIOUS
    <3>1. CASE i < k
      <4>1. u[i] = t[i] /\ g[i] = h[i] /\ g[i - 1] = h[i - 1]
        BY <3>0, <3>1
      <4>. HIDE DEF u, g
      <4>. QED  BY <2>1, <3>0, <4>1
    <3>2. CASE i = k
      <4>1. u[i] = t[i + 1] /\ g[i] = h[i + 1] - W[t[i]] /\ g[i - 1] = h[i - 1]
        BY <3>0, <3>2
      <4>2. h[i + 1] = h[i] + W[t[i + 1]] /\ h[i] = h[i - 1] + W[t[i]]
        BY <2>1, <3>0
      <4>3. /\ h[i + 1] \in Int /\ h[i] \in Int /\ h[i - 1] \in Int
            /\ W[t[i]] \in Int /\ W[t[i + 1]] \in Int
        BY <2>1, <3>0, <3>2
      <4>. HIDE DEF u, g
      <4>4. h[i + 1] - W[t[i]] = h[i - 1] + W[t[i + 1]]
        BY ONLY <4>2, <4>3
      <4>. QED  BY <4>1, <4>4
    <3>3. CASE i > k
      <4>1. u[i] = t[i + 1] /\ g[i] = h[i + 1] - W[t[k]]
        BY <3>0, <3>3
      <4>2. g[i - 1] = h[i] - W[t[k]]
        BY <3>0, <3>3
      <4>3. /\ h[i + 1] = h[i] + W[t[i + 1]] /\ h[i + 1] \in Int /\ h[i] \in Int
            /\ W[t[k]] \in Int /\ W[t[i + 1]] \in Int
        BY <2>1, <3>0
      <4>. HIDE DEF u, g
      <4>4. h[i + 1] - W[t[k]] = (h[i] - W[t[k]]) + W[t[i + 1]]
        BY ONLY <4>3
      <4>. QED  BY <4>1, <4>2, <4>4
    <3>. QED  BY <3>1, <3>2, <3>3
  <2>. HIDE DEF g, u
  <2>. QED  BY <2>2, <2>3, <2>4 DEF Adds
<1>5. g[n] = h[n + 1] - W[t[k]]
  <2>1. CASE n < k
    <3>1. k = n + 1 /\ g[n] = h[n]
      BY <2>1
    <3>2. h[n + 1] = h[n] + W[t[n + 1]] /\ h[n] \in Int
      BY DEF Adds
    <3>. QED  BY <3>1, <3>2
  <2>2. CASE ~(n < k)
    BY <2>2
  <2>. QED  BY <2>1, <2>2
<1>. HIDE DEF at
<1>6. Once(u, n)
  BY <1>1 DEF Once
<1>7. First(u, n) = First(t, n + 1) \ {t[k]}
  <2>1. ASSUME NEW i \in 1 .. n
        PROVE  u[i] \in First(t, n + 1) /\ u[i] # t[k]
    BY <1>1, <1>3 DEF Once, First
  <2>2. ASSUME NEW x \in First(t, n + 1), x # t[k]
        PROVE  \E i \in 1 .. n : x = u[i]
    <3>1. PICK j \in 1 .. (n + 1) : x = t[j] /\ j # k
      BY <2>2 DEF First
    <3>. QED  BY <1>2, <1>3, <3>1
  <2>. HIDE DEF u
  <2>. QED  BY <2>1, <2>2 DEF First
<1>. HIDE DEF u, g
<1>. QED  BY <1>4, <1>5, <1>6, <1>7

\* Two lists of the same members add up to the same.
LEMMA SameSum ==
  ASSUME NEW n \in Nat, NEW s, NEW t, Once(s, n), Once(t, n), First(s, n) = First(t, n),
         NEW W, \A x \in First(s, n) : W[x] \in Int, NEW base, NEW g, NEW h,
         Adds(g, n, s, W, base), Adds(h, n, t, W, base)
  PROVE  g[n] = h[n]
<1>. DEFINE P(m) == \A u, f : /\ Once(u, m) /\ First(u, m) = First(s, m)
                              /\ Adds(f, m, u, W, base)
                              => f[m] = g[m]
            S == {m \in 0 .. n : P(m)}
<1>1. 0 \in S
  BY DEF Adds
<1>2. ASSUME NEW m \in 0 .. (n - 1), m \in S
      PROVE  m + 1 \in S
  <2>0. m \in Nat /\ m + 1 \in 0 .. n /\ m + 1 \in 1 .. (m + 1) /\ m + 1 \in 1 .. n
        /\ 1 .. m \subseteq 1 .. n /\ 1 .. (m + 1) \subseteq 1 .. n /\ (m + 1) - 1 = m
        /\ 1 .. (m + 1) = (1 .. m) \cup {m + 1} /\ m + 1 \notin 1 .. m /\ m \in 0 .. n
    OBVIOUS
  <2>1. SUFFICES ASSUME NEW u, NEW f, Once(u, m + 1), First(u, m + 1) = First(s, m + 1),
                        Adds(f, m + 1, u, W, base)
                 PROVE  f[m + 1] = g[m + 1]
    BY <2>0
  <2>2. PICK k \in 1 .. (m + 1) : u[k] = s[m + 1]
    BY <2>0, <2>1 DEF First
  <2>3. \A j \in 1 .. (m + 1) : W[u[j]] \in Int
    <3>1. First(s, m + 1) \subseteq First(s, n)
      BY <2>0 DEF First
    <3>. QED  BY <2>1, <3>1 DEF First
  <2>4. PICK v, e : /\ Once(v, m) /\ First(v, m) = First(u, m + 1) \ {u[k]}
                    /\ Adds(e, m, v, W, base) /\ e[m] = f[m + 1] - W[u[k]]
    BY <2>0, <2>1, <2>3, LeaveOut
  <2>5. First(v, m) = First(s, m)
    <3>1. First(s, m + 1) = First(s, m) \cup {s[m + 1]}
      BY <2>0 DEF First
    <3>2. s[m + 1] \notin First(s, m)
      BY <2>0 DEF First, Once
    <3>. QED  BY <2>1, <2>2, <2>4, <3>1, <3>2
  <2>6. e[m] = g[m]
    BY <1>2, <2>4, <2>5
  <2>7. g[m + 1] = g[m] + W[s[m + 1]] /\ g[m] \in Int /\ f[m + 1] \in Int
    BY <2>0, <2>1 DEF Adds
  <2>. QED  BY <2>2, <2>3, <2>4, <2>6, <2>7
<1>3. 0 .. n \subseteq S
  <2>. HIDE DEF S
  <2>. QED  BY <1>1, <1>2, UpTo
<1>4. P(n)
  BY <1>3
<1>. QED  BY <1>4

\* Where the last slab ends is the sum of the sizes of all.
LEMMA EndOfSlabs ==
  ASSUME NEW n \in Nat \ {0}, NEW slabs, NEW f, NEW base, base = 128,
         Follows(f, n, slabs, base),
         \A i \in 1 .. n : slabs[i].allocatedSize \in Nat /\ slabs[i].allocatedSize % 4096 = 0,
         NEW s, NEW W, \A i \in 1 .. n : W[s[i]] = slabs[i].allocatedSize
  PROVE  \E g : Adds(g, n, s, W, base) /\ g[n] = f[n] + slabs[n].allocatedSize
<1>. DEFINE end(i) == f[i] + slabs[i].allocatedSize
            g == [i \in 0 .. n |-> IF i = 0 THEN base ELSE end(i)]
<1>1. /\ \A i \in 1 .. n : f[i] \in Nat
      /\ \A i \in 1 .. (n - 1) : f[i + 1] = end(i)
  BY SlabsFollow
<1>2. f[1] = base
  <2>1. 1 \in 1 .. n
    <3>1. n \in Nat \ {0}
      OBVIOUS
    <3>. QED  BY ONLY <3>1
  <2>2. \A i \in 1 .. n :
          f[i] = IF i = 1 THEN base
                 ELSE alignTo(f[i - 1] + slabs[i - 1].allocatedSize, RelocAlign)
    BY Zenon DEF Follows
  <2>. QED  BY <2>1, <2>2
<1>3. g[0] = base /\ \A i \in 1 .. n : g[i] = end(i)
  OBVIOUS
<1>4. ASSUME NEW i \in 1 .. n
      PROVE  f[i] = g[i - 1]
  <2>1. CASE i = 1
    BY <1>2, <1>3, <2>1
  <2>2. CASE i # 1
    <3>1. i - 1 \in 1 .. (n - 1) /\ i - 1 \in 1 .. n /\ (i - 1) + 1 = i
      BY <2>2
    <3>. HIDE DEF g, end
    <3>. QED  BY <1>1, <1>3, <3>1
  <2>. QED  BY <2>1, <2>2
<1>5. \A i \in 0 .. n : g[i] \in Int
  BY <1>1
<1>. HIDE DEF g
<1>6. Adds(g, n, s, W, base)
  BY <1>3, <1>4, <1>5 DEF Adds
<1>7. n \in 1 .. n
  OBVIOUS
<1>. QED  BY <1>3, <1>6, <1>7
=============================================================================
