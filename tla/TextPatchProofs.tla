-------------------------- MODULE TextPatchProofs --------------------------
(***************************************************************************)
(* The breakpoints, for every width of a write, number of replay slots,    *)
(* function and probe: the text is restored after any order of traps, and  *)
(* a replayed instruction is the original one; when the traps of a         *)
(* function are installed in ascending order (AscendingLayouts), every     *)
(* active trap is an INT3 in the text.                                     *)
(***************************************************************************)
EXTENDS TextPatch, RecursionLemmas

\* The word at a trap before it is patched.
OrigWord == [o \in Offset |-> "orig"]

InitialText == [b \in Addr |-> IF b = JitRetAddr THEN "int3" ELSE "orig"]

-----------------------------------------------------------------------------
(***************************************************************************)
(* The inductive invariant                                                 *)
(***************************************************************************)

\* Nothing has happened before functionPatch.
StoppedInv ==
  phase = "stopped" =>
    /\ text = InitialText
    /\ replayInstMap = << >> /\ replayInstsCurIdx = 0
    /\ tiVec = << >> /\ poked = 0
    /\ activeTraps = [a \in {JitRetAddr} |-> jitTrap]

\* A trap functionPatch is installing: it has seen the original text, and its
\* replay slot holds it.
TiOK(t) ==
  /\ t \in trapInfo
  /\ t.trapKind \in FuncKinds /\ t.trapAddr \in TrapAddr
  /\ t.origText = OrigWord /\ t.patchedText = Patched(OrigWord)
  /\ t.replayInstAddr \in Slot /\ replayInsts[t.replayInstAddr] = OrigWord

TiInv ==
  /\ DOMAIN tiVec = 1 .. Len(tiVec) /\ Len(tiVec) \in Nat
  /\ \A i \in 1 .. Len(tiVec) : TiOK(tiVec[i])
  /\ \A i, j \in 1 .. Len(tiVec) :
       tiVec[i].replayInstAddr = tiVec[j].replayInstAddr =>
         tiVec[i].trapAddr = tiVec[j].trapAddr

\* An active trap is the one of the prologue, or one that has been poked.
Installed(a) ==
  \E i \in 1 .. Len(tiVec) :
    /\ activeTraps[a] = tiVec[i] /\ tiVec[i].trapAddr = a
    /\ phase = "patching" => i <= poked

TrapInv ==
  /\ poked \in 0 .. Len(tiVec)
  /\ phase \in Phases
  /\ \A a \in DOMAIN activeTraps :
       (a = JitRetAddr /\ activeTraps[a] = jitTrap) \/ Installed(a)

\* An INT3 in the text belongs to an active trap.
TextInv ==
  /\ text \in [Addr -> Byte]
  /\ \A b \in Addr : b < JitRetAddr => text[b] # "zero"
  /\ phase # "dirty" => \A b \in Addr : text[b] = "int3" => b \in DOMAIN activeTraps

IndInv == StoppedInv /\ TiInv /\ TrapInv /\ TextInv /\ TextRestored

\* Where traps are close to each other, no later one lies before an earlier one.
AscendingInv ==
  \A i, j \in 1 .. Len(tiVec) :
    i < j => \/ tiVec[i].trapAddr <= tiVec[j].trapAddr
             \/ tiVec[i].trapAddr - tiVec[j].trapAddr >= Window

\* An active trap is an INT3 in the text.
ArmedInv == phase # "aborted" => \A a \in DOMAIN activeTraps : text[a] = "int3"

-----------------------------------------------------------------------------
(***************************************************************************)
(* The replay slots                                                        *)
(***************************************************************************)

\* States of the map of slots and its index.
SlotState == [map: UNION {[D -> Nat] : D \in SUBSET TrapAddr}, idx: Nat]

\* Slots in use lie below the index, and no two traps share one.
SlotsOK(p) ==
  /\ p \in SlotState
  /\ \A a \in DOMAIN p.map : p.map[a] \in Nat /\ p.map[a] < p.idx
  /\ \A a, b \in DOMAIN p.map : p.map[a] = p.map[b] => a = b

\* A call of nextReplayInstrAddr returns a state of the map.
LEMMA NextSlotType ==
  ASSUME NEW p \in SlotState, NEW a \in TrapAddr
  PROVE  /\ nextReplayInstrAddr(p, a) \in SlotState
         /\ DOMAIN nextReplayInstrAddr(p, a).map = DOMAIN p.map \cup {a}
<1>1. PICK D \in SUBSET TrapAddr : p.map \in [D -> Nat]
  BY DEF SlotState
<1>2. p.idx \in Nat /\ DOMAIN p.map = D
  BY <1>1 DEF SlotState
<1>. DEFINE m == [b \in D \cup {a} |-> IF b = a THEN p.idx ELSE p.map[b]]
<1>3. m \in [D \cup {a} -> Nat] /\ D \cup {a} \in SUBSET TrapAddr
  BY <1>1, <1>2
<1>4. a \notin D => nextReplayInstrAddr(p, a) = [map |-> m, idx |-> p.idx + 1]
  BY <1>2 DEF nextReplayInstrAddr
<1>5. a \in D => nextReplayInstrAddr(p, a) = p
  BY <1>2 DEF nextReplayInstrAddr
<1>. HIDE DEF m
<1>6. CASE a \notin D
  <2>1. m \in UNION {[E -> Nat] : E \in SUBSET TrapAddr}
    BY <1>3
  <2>. QED  BY <1>2, <1>3, <1>4, <1>6, <2>1 DEF SlotState
<1>. QED  BY <1>2, <1>5, <1>6

\* It takes a free slot for an address that has none.
LEMMA NextSlotOK ==
  ASSUME NEW p, SlotsOK(p), NEW a \in TrapAddr
  PROVE  SlotsOK(nextReplayInstrAddr(p, a))
<1>. DEFINE r == nextReplayInstrAddr(p, a)
<1>1. p \in SlotState /\ p.idx \in Nat
  BY DEF SlotsOK, SlotState
<1>2. r \in SlotState /\ DOMAIN r.map = DOMAIN p.map \cup {a}
  BY <1>1, NextSlotType
<1>3. CASE a \in DOMAIN p.map
  BY <1>3 DEF nextReplayInstrAddr
<1>4. CASE a \notin DOMAIN p.map
  <2>1. /\ r.idx = p.idx + 1
        /\ \A b \in DOMAIN p.map \cup {a} :
             r.map[b] = IF b = a THEN p.idx ELSE p.map[b]
    BY <1>4 DEF nextReplayInstrAddr
  <2>. HIDE DEF r
  <2>2. \A b \in DOMAIN r.map : r.map[b] \in Nat /\ r.map[b] < r.idx
    BY <1>1, <1>2, <2>1 DEF SlotsOK
  <2>3. \A b, c \in DOMAIN r.map : r.map[b] = r.map[c] => b = c
    BY <1>1, <1>2, <2>1 DEF SlotsOK
  <2>4. SlotsOK(r)
    BY <1>2, <2>2, <2>3 DEF SlotsOK
  <2>. QED  BY <2>4 DEF r
<1>. QED  BY <1>3, <1>4

\* nextReplayInstrAddr for all traps of a function: every one has a slot of its
\* own.
LEMMA SlotAllocOK ==
  ASSUME NEW sites \in Seq([trapKind: FuncKinds, trapAddr: TrapAddr]),
         SlotsOK([map |-> replayInstMap, idx |-> replayInstsCurIdx])
  PROVE  /\ SlotsOK(slotAlloc(sites))
         /\ \A i \in 1 .. Len(sites) : sites[i].trapAddr \in DOMAIN slotAlloc(sites).map
<1>. DEFINE n == Len(sites)
            base == [map |-> replayInstMap, idx |-> replayInstsCurIdx]
            next(p, i) == nextReplayInstrAddr(p, sites[i].trapAddr)
            step == [pi \in SlotState \X Nat |->
                       IF pi[2] \in 1 .. n THEN next(pi[1], pi[2]) ELSE pi[1]]
            isAlloc(g) == g = [i \in 0 .. n |-> IF i = 0 THEN base ELSE next(g[i - 1], i)]
            alloc == CHOOSE g : isAlloc(g)
<1>1. n \in Nat /\ \A i \in 1 .. n : sites[i].trapAddr \in TrapAddr
  <2>. DEFINE Site == [trapKind: FuncKinds, trapAddr: TrapAddr]
  <2>1. \A t \in Site : t.trapAddr \in TrapAddr
    OBVIOUS
  <2>2. sites \in Seq(Site)
    OBVIOUS
  <2>. HIDE DEF Site
  <2>3. n \in Nat /\ \A i \in 1 .. n : sites[i] \in Site
    BY <2>2
  <2>. QED  BY <2>1, <2>3
<1>2. base \in SlotState
  BY DEF SlotsOK
<1>3. slotAlloc(sites) = alloc[n]
  BY DEF slotAlloc
<1>. HIDE DEF n
<1>4. \A p \in SlotState, i \in 1 .. n : next(p, i) \in SlotState
  BY <1>1, NextSlotType
<1>5. step \in [SlotState \X Nat -> SlotState]
  <2>. HIDE DEF next
  <2>. QED  BY <1>4
<1>6. \A p \in SlotState, i \in 1 .. n : step[<<p, i>>] = next(p, i)
  <2>. HIDE DEF next
  <2>. QED  BY <1>1
<1>. HIDE DEF step, base
<1>7. PICK f : IsRecursive(f, n, SlotState, base, step)
  <2>1. n \in Nat
    BY <1>1
  <2>. QED  BY <1>2, <1>5, <2>1, RecursiveFunction, Zenon
<1>a. /\ f \in [0 .. n -> SlotState] /\ f[0] = base
      /\ \A i \in 1 .. n : f[i] = step[<<f[i - 1], i>>]
  BY <1>7 DEF IsRecursive
<1>8. ASSUME NEW i \in 1 .. n
      PROVE  f[i] = next(f[i - 1], i)
  <2>1. f[i - 1] \in SlotState
    BY <1>1, <1>a
  <2>. HIDE DEF next
  <2>. QED  BY <1>6, <1>a, <2>1
<1>9. isAlloc(f)
  <2>. HIDE DEF next
  <2>1. \A i \in 0 .. n : f[i] = IF i = 0 THEN base ELSE next(f[i - 1], i)
    BY <1>1, <1>a, <1>8
  <2>. QED  BY <1>a, <2>1
<1>10. isAlloc(alloc)
  <2>. HIDE DEF isAlloc
  <2>. QED  BY <1>9
<1>11. alloc[0] = base /\ \A i \in 1 .. n : alloc[i] = next(alloc[i - 1], i)
  <2>. HIDE DEF next, alloc
  <2>. QED  BY <1>1, <1>10
<1>. HIDE DEF alloc
<1>. DEFINE S == {i \in 0 .. n : /\ SlotsOK(alloc[i])
                                 /\ \A j \in 1 .. i : sites[j].trapAddr \in DOMAIN alloc[i].map}
<1>12. 0 \in S
  BY <1>1, <1>11 DEF base
<1>13. ASSUME NEW i \in 0 .. (n - 1), i \in S
       PROVE  i + 1 \in S
  <2>1. i + 1 \in 1 .. n /\ SlotsOK(alloc[i]) /\ alloc[i] \in SlotState
    BY <1>1, <1>13 DEF SlotsOK
  <2>2. alloc[i + 1] = nextReplayInstrAddr(alloc[i], sites[i + 1].trapAddr)
    BY <1>11, <2>1
  <2>3. SlotsOK(alloc[i + 1])
    BY <1>1, <2>1, <2>2, NextSlotOK
  <2>4. DOMAIN alloc[i + 1].map = DOMAIN alloc[i].map \cup {sites[i + 1].trapAddr}
    BY <1>1, <2>1, <2>2, NextSlotType
  <2>5. \A j \in 1 .. (i + 1) : sites[j].trapAddr \in DOMAIN alloc[i + 1].map
    BY <1>13, <2>4
  <2>. QED  BY <2>1, <2>3, <2>5
<1>14. n \in S
  <2>. HIDE DEF S
  <2>1. n \in Nat /\ n \in 0 .. n
    BY <1>1
  <2>2. 0 .. n \subseteq S
    BY <1>12, <1>13, <2>1, UpTo, Zenon
  <2>. QED  BY <2>1, <2>2
<1>. QED  BY <1>3, <1>14 DEF n

-----------------------------------------------------------------------------
(***************************************************************************)
(* Words, windows and traps                                                *)
(***************************************************************************)

\* The windows of the function's traps end before the prologue.
LEMMA AddrFacts ==
  /\ Window \in Nat \ {0} /\ JitRetAddr \in Nat /\ JitRetAddr \in Addr /\ Addr \subseteq Nat
  /\ 0 \in Offset /\ Offset \subseteq Nat /\ TrapAddr \subseteq Addr
  /\ \A a \in TrapAddr, o \in Offset : a + o \in Addr /\ a + o < JitRetAddr
  /\ \A o \in Offset : JitRetAddr + o \in Addr
BY PatchAssumption DEF Addr, TrapAddr, Offset

\* The bytes of a patched word.
LEMMA WordFacts ==
  /\ OrigWord \in Word /\ Patched(OrigWord) \in Word /\ Zeros \in Word
  /\ \A o \in Offset : /\ OrigWord[o] = "orig" /\ Zeros[o] = "zero"
                        /\ Patched(OrigWord)[o] = IF o = 0 THEN "int3" ELSE "orig"
BY AddrFacts DEF OrigWord, Patched, Zeros, Word, Byte

\* The trap of the prologue is a trapInfo.
LEMMA JitTrapType ==
  jitTrap \in trapInfo /\ jitTrap.trapAddr = JitRetAddr /\ jitTrap.origText = Zeros
  /\ jitTrap.trapKind = "OID_TRAP_JITCODERET" /\ jitTrap.replayInstAddr = -1
BY AddrFacts, WordFacts DEF jitTrap, trapInfo, TrapKinds

\* A POKETEXT changes the bytes of its window and no others.
LEMMA PokeEffect ==
  ASSUME text \in [Addr -> Byte], NEW a \in Nat, NEW word \in Word
  PROVE  /\ PokeText(a, word) \in [Addr -> Byte]
         /\ \A b \in Addr :
              /\ b - a \in Offset => PokeText(a, word)[b] = word[b - a]
              /\ b - a \notin Offset => PokeText(a, word)[b] = text[b]
<1>1. \A b \in Addr : b \in Nat /\ (b \in a .. (a + Window - 1) <=> b - a \in Offset)
  BY AddrFacts DEF Offset
<1>2. \A b \in Addr : b - a \in Offset => word[b - a] \in Byte
  BY DEF Word
<1>. QED  BY <1>1, <1>2 DEF PokeText

\* Before anything is written a trap reads the original text.
LEMMA PeekOriginal ==
  ASSUME text = InitialText, NEW a \in TrapAddr
  PROVE  PeekText(a) = OrigWord
<1>1. \A o \in Offset : a + o \in Addr /\ a + o # JitRetAddr
  BY AddrFacts DEF TrapAddr
<1>. QED  BY <1>1 DEF PeekText, OrigWord, InitialText

\* What an active trap is.
LEMMA TrapFacts ==
  ASSUME TiInv, TrapInv, NEW a \in DOMAIN activeTraps
  PROVE  /\ \/ a = JitRetAddr /\ activeTraps[a] = jitTrap /\ ~isFuncTrap(a)
            \/ a \in TrapAddr /\ TiOK(activeTraps[a]) /\ isFuncTrap(a) /\ a < JitRetAddr
         /\ activeTraps[a] \in trapInfo /\ activeTraps[a].trapAddr = a
         /\ a \in Addr
<1>1. CASE a = JitRetAddr /\ activeTraps[a] = jitTrap
  BY <1>1, JitTrapType, AddrFacts DEF isFuncTrap
<1>2. CASE Installed(a)
  <2>1. TiOK(activeTraps[a]) /\ activeTraps[a].trapAddr = a
    BY <1>2 DEF Installed, TiInv
  <2>2. a \in TrapAddr /\ activeTraps[a] \in trapInfo
    BY <2>1 DEF TiOK
  <2>3. a < JitRetAddr
    BY <2>2, PatchAssumption DEF TrapAddr
  <2>4. isFuncTrap(a)
    BY <2>1 DEF TiOK, isFuncTrap, FuncKinds
  <2>. QED  BY <2>1, <2>2, <2>3, <2>4, AddrFacts
<1>. QED  BY <1>1, <1>2 DEF TrapInv

\* removeTrap writes the original bytes, and an INT3 where another trap is.
LEMMA RepatchedBytes ==
  ASSUME TiInv, TrapInv, NEW a \in DOMAIN activeTraps
  PROVE  /\ repatchedBytes(a) \in Word
         /\ a = JitRetAddr => \A o \in Offset : repatchedBytes(a)[o] = "zero"
         /\ a # JitRetAddr =>
              \A o \in Offset :
                repatchedBytes(a)[o] =
                  IF o # 0 /\ a + o \in DOMAIN activeTraps THEN "int3" ELSE "orig"
<1>0. a \in Nat /\ \A c \in DOMAIN activeTraps : c \in Nat /\ c <= JitRetAddr
  <2>1. \A c \in DOMAIN activeTraps : c \in Addr /\ (c = JitRetAddr \/ c < JitRetAddr)
    BY TrapFacts, Zenon
  <2>2. JitRetAddr \in Nat /\ \A c \in Addr : c \in Nat
    BY AddrFacts
  <2>3. \A c \in DOMAIN activeTraps : c \in Nat /\ c <= JitRetAddr
    BY <2>1, <2>2
  <2>. QED  BY <2>3
<1>1. CASE a = JitRetAddr
  <2>1. \A o \in Offset : overlapping(a, a + o) = {}
    BY <1>0, <1>1, AddrFacts DEF overlapping
  <2>2. activeTraps[a].origText = Zeros
    BY <1>1, TrapFacts, JitTrapType, AddrFacts
  <2>3. repatchedBytes(a) = [o \in Offset |-> Zeros[o]]
    BY <2>1, <2>2 DEF repatchedBytes
  <2>. QED  BY <1>1, <2>3, WordFacts DEF Zeros, Word, Byte
<1>2. CASE a # JitRetAddr
  <2>1. a \in TrapAddr /\ activeTraps[a].origText = OrigWord
    BY <1>2, TrapFacts DEF TiOK
  <2>2. ASSUME NEW o \in Offset
        PROVE  repatchedBytes(a)[o] =
                 IF o # 0 /\ a + o \in DOMAIN activeTraps THEN "int3" ELSE "orig"
    <3>0. o \in Nat /\ a + o \in Nat /\ a + o < JitRetAddr /\ o < Window
      BY <1>0, <2>1, AddrFacts, PatchAssumption DEF Offset
    <3>1. CASE overlapping(a, a + o) = {}
      <4>1. ~(o # 0 /\ a + o \in DOMAIN activeTraps)
        BY <1>0, <3>0, <3>1 DEF overlapping
      <4>2. repatchedBytes(a)[o] = OrigWord[o]
        BY <2>1, <3>1 DEF repatchedBytes
      <4>. QED  BY <4>1, <4>2, WordFacts
    <3>2. CASE overlapping(a, a + o) # {}
      <4>. DEFINE S == overlapping(a, a + o)
                  c == Max(S)
      <4>1. S \subseteq a .. (a + o) /\ S # {}
        BY <1>0, <3>0, <3>2 DEF overlapping
      <4>. HIDE DEF S
      <4>2. c \in S /\ \A d \in S : d <= c
        <5>1. a \in Int /\ a + o \in Int
          BY <1>0, <3>0
        <5>. QED  BY <4>1, <5>1, MaxInSet, Zenon
      <4>. HIDE DEF c
      <4>3. c \in DOMAIN activeTraps /\ a < c /\ c <= a + o
        BY <4>2 DEF S, overlapping
      <4>4. c # JitRetAddr /\ activeTraps[c].patchedText = Patched(OrigWord)
        BY <1>0, <3>0, <4>3, TrapFacts DEF TiOK
      <4>5. repatchedBytes(a)[o] = Patched(OrigWord)[a + o - c]
        BY <3>2, <4>4 DEF repatchedBytes, c, S
      <4>6. a + o - c \in Offset /\ (a + o - c = 0 <=> c = a + o) /\ o # 0
        BY <1>0, <3>0, <4>3, PatchAssumption DEF Offset
      <4>7. a + o \in DOMAIN activeTraps <=> c = a + o
        BY <1>0, <3>0, <4>2, <4>3, <4>6 DEF S, overlapping
      <4>. QED  BY <4>5, <4>6, <4>7, WordFacts
    <3>. QED  BY <3>1, <3>2
  <2>3. repatchedBytes(a) \in Word
    <3>1. DOMAIN repatchedBytes(a) = Offset
          /\ repatchedBytes(a) = [o \in Offset |-> repatchedBytes(a)[o]]
      BY DEF repatchedBytes
    <3>2. \A o \in Offset : repatchedBytes(a)[o] \in Byte
      BY <2>2 DEF Byte
    <3>. QED  BY <3>1, <3>2 DEF Word
  <2>. QED  BY <1>2, <2>2, <2>3
<1>. QED  BY <1>1, <1>2

-----------------------------------------------------------------------------
(***************************************************************************)
(* The invariant is inductive                                              *)
(***************************************************************************)

\* functionPatch: each trap has read the original text, and has a slot of its
\* own that holds it.
LEMMA FunctionPatchStep ==
  ASSUME IndInv, NEW fd \in FuncDescs, NEW req \in Requests, functionPatch(fd, req)
  PROVE  IndInv' /\ (Ascending(TrapSites(fd, req)) => AscendingInv') /\ (ArmedInv => ArmedInv')
<1>. DEFINE sites == TrapSites(fd, req)
            n == Len(sites)
            next == slotAlloc(sites)
            ti(i) == [trapKind       |-> sites[i].trapKind,
                      trapAddr       |-> sites[i].trapAddr,
                      origText       |-> PeekText(sites[i].trapAddr),
                      patchedText    |-> Patched(PeekText(sites[i].trapAddr)),
                      replayInstAddr |-> next.map[sites[i].trapAddr]]
            Site == [trapKind: FuncKinds, trapAddr: TrapAddr]
<1>1. sites \in Seq(Site)
  BY LayoutAssumption
<1>2. /\ phase = "stopped" /\ phase' = "patching"
      /\ \A a \in DOMAIN next.map : slotFits(next.map[a])
      /\ tiVec' = [i \in DOMAIN sites |-> ti(i)]
      /\ replayInsts' = [s \in {ti(i).replayInstAddr : i \in DOMAIN sites} |->
                           ti(CHOOSE i \in DOMAIN sites :
                                ti(i).replayInstAddr = s).origText]
      /\ UNCHANGED <<text, activeTraps, poked>>
  BY DEF functionPatch
<1>3. /\ text = InitialText /\ replayInstMap = << >> /\ replayInstsCurIdx = 0 /\ poked = 0
      /\ activeTraps = [a \in {JitRetAddr} |-> jitTrap]
  BY <1>2 DEF IndInv, StoppedInv
<1>4. SlotsOK([map |-> replayInstMap, idx |-> replayInstsCurIdx])
  <2>1. << >> \in [{} -> Nat] /\ DOMAIN << >> = {}
    OBVIOUS
  <2>2. << >> \in UNION {[D -> Nat] : D \in SUBSET TrapAddr}
    BY <2>1
  <2>. QED  BY <1>3, <2>1, <2>2 DEF SlotsOK, SlotState
<1>5. SlotsOK(next) /\ \A i \in 1 .. n : sites[i].trapAddr \in DOMAIN next.map
  BY <1>1, <1>4, SlotAllocOK
<1>. HIDE DEF next, sites
<1>6. /\ n \in Nat /\ DOMAIN sites = 1 .. n
      /\ \A i \in 1 .. n : sites[i].trapKind \in FuncKinds /\ sites[i].trapAddr \in TrapAddr
  <2>1. \A t \in Site : t.trapKind \in FuncKinds /\ t.trapAddr \in TrapAddr
    OBVIOUS
  <2>. HIDE DEF Site
  <2>2. n \in Nat /\ DOMAIN sites = 1 .. n /\ \A i \in 1 .. n : sites[i] \in Site
    BY <1>1
  <2>. QED  BY <2>1, <2>2
<1>. HIDE DEF n, Site
<1>7. ASSUME NEW i \in 1 .. n
      PROVE  /\ ti(i).trapKind \in FuncKinds /\ ti(i).trapAddr \in TrapAddr
             /\ ti(i).origText = OrigWord /\ ti(i).patchedText = Patched(OrigWord)
             /\ ti(i).replayInstAddr \in Slot
             /\ ti(i).replayInstAddr = next.map[ti(i).trapAddr]
             /\ ti(i) \in trapInfo
  <2>1. PeekText(sites[i].trapAddr) = OrigWord
    BY <1>3, <1>6, PeekOriginal
  <2>2. next.map[sites[i].trapAddr] \in Slot
    <3>1. next.map[sites[i].trapAddr] \in Nat /\ next.map[sites[i].trapAddr] < SlotCount
      BY <1>2, <1>5 DEF SlotsOK, slotFits
    <3>. QED  BY <3>1, PatchAssumption DEF Slot
  <2>3. sites[i].trapAddr \in Addr /\ sites[i].trapKind \in TrapKinds
    BY <1>6, AddrFacts DEF TrapKinds
  <2>. QED  BY <1>6, <2>1, <2>2, <2>3, WordFacts DEF trapInfo
<1>8. ASSUME NEW i \in 1 .. n
      PROVE  replayInsts'[ti(i).replayInstAddr] = OrigWord
  <2>. DEFINE k == CHOOSE j \in 1 .. n : ti(j).replayInstAddr = ti(i).replayInstAddr
  <2>1. k \in 1 .. n
    OBVIOUS
  <2>2. replayInsts'[ti(i).replayInstAddr] = ti(k).origText
    <3>. HIDE DEF ti
    <3>. QED  BY <1>2, <1>6
  <2>. HIDE DEF k, ti
  <2>. QED  BY <1>7, <2>1, <2>2
<1>. HIDE DEF ti
<1>9. Len(tiVec') = n /\ DOMAIN tiVec' = 1 .. n /\ \A i \in 1 .. n : tiVec'[i] = ti(i)
  BY <1>2, <1>6
<1>10. TiInv'
  <2>1. \A i \in 1 .. n : TiOK(tiVec[i])'
    BY <1>7, <1>8, <1>9 DEF TiOK
  <2>2. \A i, j \in 1 .. n : ti(i).replayInstAddr = ti(j).replayInstAddr =>
                              ti(i).trapAddr = ti(j).trapAddr
    <3>1. \A i \in 1 .. n : ti(i).trapAddr \in DOMAIN next.map
      BY <1>5 DEF ti
    <3>2. \A a, b \in DOMAIN next.map : next.map[a] = next.map[b] => a = b
      BY <1>5 DEF SlotsOK
    <3>. QED  BY <1>7, <3>1, <3>2
  <2>. QED  BY <1>6, <1>9, <2>1, <2>2 DEF TiInv
<1>11. StoppedInv' /\ TextRestored' /\ (ArmedInv => ArmedInv')
  BY <1>2 DEF StoppedInv, TextRestored, ArmedInv
<1>12. TrapInv'
  BY <1>2, <1>3, <1>6, <1>9 DEF TrapInv, Phases
<1>13. TextInv'
  BY <1>2 DEF IndInv, TextInv
<1>14. Ascending(sites) => AscendingInv'
  <2>1. \A i \in 1 .. n : tiVec'[i].trapAddr = sites[i].trapAddr
    BY <1>9 DEF ti
  <2>. QED  BY <1>6, <1>9, <2>1 DEF Ascending, AscendingInv
<1>. QED  BY <1>10, <1>11, <1>12, <1>13, <1>14 DEF IndInv, sites

\* The steps that change neither tiVec nor the replay area keep what is said of
\* them.
LEMMA TiKept ==
  ASSUME TiInv, UNCHANGED <<tiVec, replayInsts>>
  PROVE  TiInv'
BY DEF TiInv, TiOK

\* emplace adds the next trap, unless its address is there already.
LEMMA EmplaceStep ==
  ASSUME TiInv, TrapInv, phase = "patching", poked < Len(tiVec),
         activeTraps' = emplace(tiVec[poked + 1]), tiVec' = tiVec,
         poked' \in {poked, poked + 1}, phase' \in Phases,
         phase' = "patching" => poked' = poked + 1
  PROVE  TrapInv'
<1>. DEFINE t == tiVec[poked + 1]
<1>1. poked + 1 \in 1 .. Len(tiVec) /\ poked' \in 0 .. Len(tiVec)
  BY DEF TrapInv, TiInv
<1>2. DOMAIN activeTraps' = DOMAIN activeTraps \cup {t.trapAddr}
  BY DEF emplace
<1>3. ASSUME NEW a \in DOMAIN activeTraps'
      PROVE  (a = JitRetAddr /\ activeTraps'[a] = jitTrap) \/ Installed(a)'
  <2>1. CASE a \in DOMAIN activeTraps
    <3>1. activeTraps'[a] = activeTraps[a]
      BY <1>2, <2>1 DEF emplace
    <3>2. CASE a = JitRetAddr /\ activeTraps[a] = jitTrap
      BY <3>1, <3>2
    <3>3. CASE Installed(a)
      <4>1. PICK i \in 1 .. Len(tiVec) :
              activeTraps[a] = tiVec[i] /\ tiVec[i].trapAddr = a /\ i <= poked
        BY <3>3 DEF Installed
      <4>2. i <= poked + 1
        BY <1>1, <4>1
      <4>. QED  BY <3>1, <4>1, <4>2 DEF Installed
    <3>. QED  BY <2>1, <3>2, <3>3 DEF TrapInv
  <2>2. CASE a \notin DOMAIN activeTraps
    <3>1. a = t.trapAddr /\ activeTraps'[a] = t
      BY <1>2, <1>3, <2>2 DEF emplace
    <3>2. phase' = "patching" => poked + 1 <= poked'
      BY <1>1
    <3>. QED  BY <1>1, <3>1, <3>2 DEF Installed
  <2>. QED  BY <2>1, <2>2
<1>. QED  BY <1>1, <1>3 DEF TrapInv

\* A POKETEXT of step 5 writes an INT3 at its trap and the original text after it;
\* in ascending order that hits no other trap.
LEMMA PokeTrapStep ==
  ASSUME IndInv, pokeTrap
  PROVE  IndInv' /\ (AscendingInv /\ ArmedInv => ArmedInv')
<1>. DEFINE t == tiVec[poked + 1]
<1>1. /\ phase = "patching" /\ poked < Len(tiVec) /\ poked' = poked + 1
      /\ activeTraps' = emplace(t) /\ text' = PokeText(t.trapAddr, t.patchedText)
      /\ phase' \in {"armed", "patching"} /\ UNCHANGED <<tiVec, replayInsts>>
  BY DEF pokeTrap
<1>2. TiInv /\ TrapInv /\ TextInv /\ poked + 1 \in 1 .. Len(tiVec) /\ poked \in Nat
  BY <1>1 DEF IndInv, TrapInv, TiInv
<1>3. t.trapAddr \in TrapAddr /\ t.patchedText = Patched(OrigWord)
  BY <1>2 DEF TiInv, TiOK
<1>4. t.trapAddr \in Nat /\ t.trapAddr \in Addr
  BY <1>3, AddrFacts
<1>5. DOMAIN activeTraps' = DOMAIN activeTraps \cup {t.trapAddr}
  BY <1>1 DEF emplace
<1>. HIDE DEF t
<1>6. /\ text' \in [Addr -> Byte]
      /\ \A b \in Addr :
           /\ b = t.trapAddr => text'[b] = "int3"
           /\ b - t.trapAddr \in Offset /\ b # t.trapAddr => text'[b] = "orig"
           /\ b - t.trapAddr \notin Offset => text'[b] = text[b]
  <2>1. text \in [Addr -> Byte] /\ Patched(OrigWord) \in Word
    BY <1>2, WordFacts DEF TextInv
  <2>2. /\ text' \in [Addr -> Byte]
        /\ \A b \in Addr :
             /\ b - t.trapAddr \in Offset => text'[b] = Patched(OrigWord)[b - t.trapAddr]
             /\ b - t.trapAddr \notin Offset => text'[b] = text[b]
    BY <1>1, <1>3, <1>4, <2>1, PokeEffect
  <2>3. \A b \in Addr : b \in Nat /\ (b = t.trapAddr => b - t.trapAddr = 0)
                        /\ (b # t.trapAddr => b - t.trapAddr # 0)
    BY <1>4, AddrFacts
  <2>4. 0 \in Offset
    BY AddrFacts
  <2>. QED  BY <2>2, <2>3, <2>4, WordFacts
<1>7. TextInv'
  <2>1. phase # "dirty"
    BY <1>1
  <2>. QED  BY <1>2, <1>5, <1>6, <2>1 DEF TextInv
<1>8. TiInv' /\ TrapInv'
  <2>1. phase' \in Phases
    BY <1>1 DEF Phases
  <2>. QED  BY <1>1, <1>2, <2>1, TiKept, EmplaceStep DEF t
<1>9. StoppedInv' /\ TextRestored'
  BY <1>1 DEF StoppedInv, TextRestored
<1>10. ASSUME AscendingInv, ArmedInv
       PROVE  ArmedInv'
  <2>. SUFFICES ASSUME NEW a \in DOMAIN activeTraps'
                PROVE  text'[a] = "int3"
    BY DEF ArmedInv
  <2>1. CASE a = t.trapAddr
    BY <1>4, <1>6, <2>1
  <2>2. CASE a # t.trapAddr
    <3>1. a \in DOMAIN activeTraps /\ text[a] = "int3"
      BY <1>1, <1>5, <1>10, <2>2 DEF ArmedInv
    <3>2. a \in Addr /\ a \in Nat
      BY <1>2, <3>1, TrapFacts, AddrFacts
    <3>3. a - t.trapAddr \notin Offset
      <4>1. CASE a = JitRetAddr
        BY <1>3, <4>1, PatchAssumption DEF TrapAddr, Offset
      <4>2. CASE Installed(a)
        <5>1. PICK i \in 1 .. Len(tiVec) : tiVec[i].trapAddr = a /\ i <= poked
          BY <1>1, <4>2 DEF Installed
        <5>2. a <= t.trapAddr \/ a - t.trapAddr >= Window
          BY <1>2, <1>10, <5>1 DEF AscendingInv, t
        <5>. QED  BY <1>4, <2>2, <3>2, <5>2, PatchAssumption DEF Offset
      <4>. QED  BY <1>2, <3>1, <4>1, <4>2 DEF TrapInv
    <3>. QED  BY <1>6, <3>1, <3>2, <3>3
  <2>. QED  BY <2>1, <2>2
<1>. QED  BY <1>7, <1>8, <1>9, <1>10 DEF IndInv

\* A POKETEXT that fails leaves the text as it is, and its trap in the map.
LEMMA PokeTrapFailsStep ==
  ASSUME IndInv, pokeTrapFails
  PROVE  IndInv' /\ ArmedInv'
<1>1. /\ phase = "patching" /\ poked < Len(tiVec) /\ phase' = "aborted"
      /\ activeTraps' = emplace(tiVec[poked + 1])
      /\ UNCHANGED <<text, tiVec, replayInsts, poked>>
  BY DEF pokeTrapFails
<1>2. TiInv' /\ TrapInv'
  BY <1>1, TiKept, EmplaceStep DEF IndInv, Phases
<1>3. TextInv'
  <2>1. DOMAIN activeTraps \subseteq DOMAIN activeTraps'
    BY <1>1 DEF emplace
  <2>. QED  BY <1>1, <2>1 DEF IndInv, TextInv
<1>. QED  BY <1>1, <1>2, <1>3 DEF IndInv, StoppedInv, TextRestored, ArmedInv

\* Removing one trap restores its byte, and leaves the INT3s of the others that
\* lie in its window.
LEMMA RemoveTrapStep ==
  ASSUME IndInv, NEW a \in Addr, removeTrap(a)
  PROVE  IndInv' /\ (ArmedInv => ArmedInv')
<1>1. /\ phase = "armed" /\ phase' = "armed" /\ a \in DOMAIN activeTraps
      /\ text' = PokeText(a, repatchedBytes(a))
      /\ activeTraps' = [b \in DOMAIN activeTraps \ {a} |-> activeTraps[b]]
      /\ UNCHANGED <<tiVec, replayInsts, poked>>
  BY DEF removeTrap
<1>2. TiInv /\ TrapInv /\ TextInv /\ a \in Nat
  BY AddrFacts DEF IndInv
<1>3. TrapInv'
  BY <1>1, <1>2 DEF TrapInv, Installed
<1>4. /\ text' \in [Addr -> Byte]
      /\ \A b \in Addr :
           /\ b - a \in Offset => text'[b] = repatchedBytes(a)[b - a]
           /\ b - a \notin Offset => text'[b] = text[b]
  BY <1>1, <1>2, PokeEffect, RepatchedBytes DEF TextInv
<1>5. CASE a = JitRetAddr
  <2>1. \A b \in Addr : b - a \in Offset => text'[b] = "zero" /\ b >= JitRetAddr
    BY <1>1, <1>2, <1>4, <1>5, RepatchedBytes, AddrFacts DEF Offset
  <2>2. \A c \in DOMAIN activeTraps : c # a => c < JitRetAddr /\ c \in Addr
    BY <1>2, <1>5, TrapFacts
  <2>3. \A b \in Addr : b < JitRetAddr => b - a \notin Offset
    BY <1>2, <1>5, AddrFacts DEF Offset
  <2>4. a - a \in Offset
    BY <1>2, AddrFacts
  <2>5. TextInv'
    BY <1>1, <1>2, <1>4, <2>1, <2>3, <2>4 DEF TextInv
  <2>6. ArmedInv => ArmedInv'
    BY <1>1, <1>4, <2>2, <2>3 DEF ArmedInv
  <2>. QED  BY <1>1, <1>2, <1>3, <2>5, <2>6, TiKept DEF IndInv, StoppedInv, TextRestored
<1>6. CASE a # JitRetAddr
  <2>1. \A b \in Addr : b - a \in Offset =>
          text'[b] = IF b # a /\ b \in DOMAIN activeTraps THEN "int3" ELSE "orig"
    <3>1. \A o \in Offset : repatchedBytes(a)[o] =
            IF o # 0 /\ a + o \in DOMAIN activeTraps THEN "int3" ELSE "orig"
      BY <1>1, <1>2, <1>6, RepatchedBytes
    <3>2. \A b \in Addr : a + (b - a) = b /\ (b - a = 0 <=> b = a)
      BY <1>2, AddrFacts
    <3>. QED  BY <1>4, <3>1, <3>2
  <2>2. a - a \in Offset
    BY <1>2, AddrFacts
  <2>3. TextInv'
    BY <1>1, <1>2, <1>4, <2>1, <2>2 DEF TextInv
  <2>4. \A c \in DOMAIN activeTraps : c \in Addr
    BY <1>2, TrapFacts
  <2>5. ArmedInv => ArmedInv'
    BY <1>1, <1>4, <2>1, <2>4 DEF ArmedInv
  <2>. QED  BY <1>1, <1>2, <1>3, <2>3, <2>5, TiKept DEF IndInv, StoppedInv, TextRestored
<1>. QED  BY <1>5, <1>6

\* The traps removeTraps looks at lie in the function and hold original words.
LEMMA FuncTrapFacts ==
  ASSUME IndInv, NEW a \in DOMAIN activeTraps
  PROVE  /\ a \in funcTraps => /\ a \in TrapAddr /\ a \in Nat /\ a < JitRetAddr
                               /\ activeTraps[a].origText = OrigWord
         /\ a \notin funcTraps => a = JitRetAddr
<1>1. /\ a \in funcTraps => /\ a \in TrapAddr /\ a < JitRetAddr
                            /\ activeTraps[a].origText = OrigWord
      /\ a \notin funcTraps => a = JitRetAddr
  BY TrapFacts DEF IndInv, TiOK, funcTraps
<1>2. TrapAddr \subseteq Nat
  BY AddrFacts
<1>. QED  BY <1>1, <1>2

\* Writing back the words of some of them restores the bytes of their windows,
\* their own INT3s first of all, and touches no other byte.
LEMMA WriteBack ==
  ASSUME IndInv, NEW S \in SUBSET funcTraps, text' = writtenBack(S)
  PROVE  /\ text' \in [Addr -> Byte]
         /\ \A b \in Addr : \/ text'[b] = "orig" /\ b < JitRetAddr
                            \/ text'[b] = text[b] /\ b \notin S
<1>. DEFINE cover(b) == {a \in S : b \in a .. (a + Window - 1)}
<1>1. text' = [b \in Addr |-> IF cover(b) = {} THEN text[b]
                              ELSE LET a == Max(cover(b))
                                   IN  activeTraps[a].origText[b - a]]
  BY DEF writtenBack
<1>2. \A a \in S : /\ a \in DOMAIN activeTraps /\ a \in TrapAddr /\ a \in Nat
                   /\ activeTraps[a].origText = OrigWord
  BY FuncTrapFacts DEF funcTraps
<1>4. ASSUME NEW b \in Addr, cover(b) # {}
      PROVE  text'[b] = "orig" /\ b < JitRetAddr
  <2>. DEFINE C == cover(b)
              m == Max(C)
  <2>0. b \in Nat /\ Window \in Nat
    BY AddrFacts
  <2>1. C \subseteq 0 .. b /\ C # {}
    BY <1>2, <1>4, <2>0
  <2>2. text'[b] = activeTraps[m].origText[b - m]
    BY <1>1, <1>4
  <2>. HIDE DEF m
  <2>3. m \in C
    <3>. HIDE DEF C
    <3>1. 0 \in Int /\ b \in Int
      BY <2>0
    <3>. QED  BY <2>1, <3>1, MaxInSet, Zenon DEF m
  <2>4. m \in S /\ b \in m .. (m + Window - 1)
    BY <2>3
  <2>5. m \in TrapAddr /\ m \in Nat /\ activeTraps[m].origText = OrigWord
    BY <1>2, <2>4
  <2>6. b - m \in Offset /\ m + (b - m) = b
    BY <2>0, <2>4, <2>5 DEF Offset
  <2>7. b < JitRetAddr
    BY <2>5, <2>6, AddrFacts
  <2>. QED  BY <2>2, <2>5, <2>6, <2>7, WordFacts
<1>5. ASSUME NEW b \in Addr, b \in S
      PROVE  cover(b) # {}
  <2>1. b \in b .. (b + Window - 1)
    BY AddrFacts
  <2>. QED  BY <1>5, <2>1
<1>6. ASSUME NEW b \in Addr, cover(b) = {}
      PROVE  text'[b] = text[b]
  BY <1>1, <1>6
<1>. HIDE DEF cover
<1>7. \A b \in Addr : \/ text'[b] = "orig" /\ b < JitRetAddr
                      \/ text'[b] = text[b] /\ b \notin S
  BY <1>4, <1>5, <1>6
<1>8. \A b \in Addr : text'[b] \in Byte
  BY <1>7 DEF IndInv, TextInv, Byte
<1>9. text' \in [Addr -> Byte]
  BY <1>1, <1>8
<1>. QED  BY <1>7, <1>9

\* Erasing the function's traps leaves the prologue's, with its INT3.
LEMMA TrapsErased ==
  ASSUME IndInv, NEW S \in SUBSET funcTraps, text' = writtenBack(S),
         phase = "armed", phase' \in {"clean", "dirty"},
         activeTraps' = [a \in DOMAIN activeTraps \ funcTraps |-> activeTraps[a]],
         UNCHANGED <<tiVec, replayInsts, poked>>
  PROVE  TrapInv' /\ (ArmedInv => ArmedInv')
<1>1. TrapInv'
  BY DEF IndInv, TrapInv, Installed, Phases
<1>2. \A a \in DOMAIN activeTraps' : a \in DOMAIN activeTraps /\ a = JitRetAddr
  BY FuncTrapFacts
<1>3. text'[JitRetAddr] = text[JitRetAddr]
  BY WriteBack, AddrFacts
<1>. QED  BY <1>1, <1>2, <1>3 DEF ArmedInv

\* removeTraps restores every byte of the function.
LEMMA RemoveTrapsStep ==
  ASSUME IndInv, removeTraps
  PROVE  IndInv' /\ (ArmedInv => ArmedInv')
<1>1. /\ phase = "armed" /\ phase' = "clean" /\ text' = writtenBack(funcTraps)
      /\ activeTraps' = [a \in DOMAIN activeTraps \ funcTraps |-> activeTraps[a]]
      /\ UNCHANGED <<tiVec, replayInsts, poked>>
  BY DEF removeTraps
<1>2. /\ text' \in [Addr -> Byte]
      /\ \A b \in Addr : \/ text'[b] = "orig" /\ b < JitRetAddr
                         \/ text'[b] = text[b] /\ b \notin funcTraps
  BY <1>1, WriteBack
<1>3. TrapInv' /\ (ArmedInv => ArmedInv')
  BY <1>1, TrapsErased
<1>4. \A b \in Addr : text[b] = "int3" => b \in DOMAIN activeTraps
  BY <1>1 DEF IndInv, TextInv
<1>5. ASSUME NEW b \in Addr, b < JitRetAddr
      PROVE  text'[b] = "orig"
  <2>1. text[b] \in Byte /\ text[b] # "zero"
    BY <1>5 DEF IndInv, TextInv
  <2>2. text[b] = "int3" => b \in funcTraps
    BY <1>4, <1>5, FuncTrapFacts, AddrFacts
  <2>. QED  BY <1>2, <2>1, <2>2 DEF Byte
<1>6. TextInv'
  BY <1>1, <1>2, <1>4, <1>5 DEF TextInv
<1>. QED  BY <1>1, <1>3, <1>5, <1>6, TiKept DEF IndInv, StoppedInv, TextRestored

\* removeTraps whose POKETEXTs fail writes nothing but original bytes.
LEMMA RemoveTrapsFailsStep ==
  ASSUME IndInv, removeTrapsFails
  PROVE  IndInv' /\ (ArmedInv => ArmedInv')
<1>1. PICK S \in SUBSET funcTraps : text' = writtenBack(S)
  BY DEF removeTrapsFails
<1>2. /\ phase = "armed" /\ phase' = "dirty"
      /\ activeTraps' = [a \in DOMAIN activeTraps \ funcTraps |-> activeTraps[a]]
      /\ UNCHANGED <<tiVec, replayInsts, poked>>
  BY DEF removeTrapsFails
<1>3. /\ text' \in [Addr -> Byte]
      /\ \A b \in Addr : text'[b] \in {"orig", text[b]}
  BY <1>1, WriteBack
<1>4. TrapInv' /\ (ArmedInv => ArmedInv')
  BY <1>1, <1>2, TrapsErased
<1>5. TextInv'
  BY <1>2, <1>3 DEF IndInv, TextInv
<1>. QED  BY <1>2, <1>4, <1>5, TiKept DEF IndInv, StoppedInv, TextRestored

\* Init and every step keep the invariant; the INT3s of active traps stay in the
\* text when functions have ascending layouts.
LEMMA IndStep ==
  ASSUME IndInv, [Next]_vars
  PROVE  IndInv' /\ (AscendingLayouts /\ AscendingInv /\ ArmedInv => AscendingInv' /\ ArmedInv')
<1>1. ASSUME NEW fd \in FuncDescs, NEW req \in Requests, functionPatch(fd, req)
      PROVE  IndInv' /\ (AscendingLayouts /\ ArmedInv => AscendingInv' /\ ArmedInv')
  BY <1>1, FunctionPatchStep DEF AscendingLayouts
<1>2. CASE functionPatchFails
  <2>1. phase = "stopped" /\ phase' = "aborted"
        /\ UNCHANGED <<text, activeTraps, tiVec, replayInsts, poked>>
    BY <1>2 DEF functionPatchFails
  <2>2. TrapInv'
    BY <2>1 DEF IndInv, TrapInv, Installed, Phases
  <2>. QED
    BY <2>1, <2>2, TiKept
      DEF IndInv, TextInv, StoppedInv, TextRestored, ArmedInv, AscendingInv
<1>3. CASE pokeTrap
  BY <1>3, PokeTrapStep DEF pokeTrap, AscendingInv
<1>4. CASE pokeTrapFails
  BY <1>4, PokeTrapFailsStep DEF pokeTrapFails, AscendingInv
<1>5. ASSUME NEW a \in Addr, removeTrap(a)
      PROVE  IndInv' /\ (AscendingInv /\ ArmedInv => AscendingInv' /\ ArmedInv')
  BY <1>5, RemoveTrapStep DEF removeTrap, AscendingInv
<1>6. CASE removeTraps
  BY <1>6, RemoveTrapsStep DEF removeTraps, AscendingInv
<1>7. CASE removeTrapsFails
  BY <1>7, RemoveTrapsFailsStep DEF removeTrapsFails, AscendingInv
<1>8. CASE UNCHANGED vars
  <2>1. TrapInv' /\ TiInv'
    BY <1>8, TiKept DEF vars, IndInv, TrapInv, Installed
  <2>. QED
    BY <1>8, <2>1
      DEF vars, IndInv, TextInv, StoppedInv, TextRestored, ArmedInv, AscendingInv
<1>. QED  BY <1>1, <1>2, <1>3, <1>4, <1>5, <1>6, <1>7, <1>8 DEF Next

\* Before functionPatch the prologue's trap is the only one.
LEMMA IndInit == Init => IndInv /\ AscendingInv /\ ArmedInv
<1>. SUFFICES ASSUME Init
              PROVE  IndInv /\ AscendingInv /\ ArmedInv
  OBVIOUS
<1>1. StoppedInv /\ TextRestored
  BY DEF Init, StoppedInv, TextRestored, InitialText
<1>2. Len(tiVec) = 0 /\ DOMAIN tiVec = 1 .. 0
  BY DEF Init
<1>3. TiInv /\ AscendingInv
  BY <1>2 DEF TiInv, AscendingInv
<1>4. TrapInv
  BY <1>2 DEF Init, TrapInv, Phases
<1>5. TextInv /\ ArmedInv
  BY AddrFacts DEF Init, TextInv, ArmedInv, Byte
<1>. QED  BY <1>1, <1>3, <1>4, <1>5 DEF IndInv

-----------------------------------------------------------------------------
(***************************************************************************)
(* The theorems                                                            *)
(***************************************************************************)

\* Every variable keeps its type: text stays text, and an active trap is a
\* trapInfo under its own address, with a slot of the replay area.
THEOREM TypeCorrect == Spec => []TypeOK
<1>1. IndInv => TypeOK
  BY TrapFacts DEF IndInv, TypeOK, TextInv, TrapInv
<1>. QED  BY <1>1, IndInit, IndStep, PTL DEF Spec

\* After removeTraps the function's text is what it was, whichever traps were
\* hit before and in whichever order, and whatever the layout of the function.
THEOREM Restored == Spec => []TextRestored
<1>1. IndInv => TextRestored
  BY DEF IndInv
<1>. QED  BY <1>1, IndInit, IndStep, PTL DEF Spec

\* The instruction replayTrappedInstr single-steps is the one the trap took the
\* place of: slots are neither shared nor filled from patched text.
THEOREM ReplayOriginal == Spec => []ReplayIsOriginal
<1>1. IndInv => ReplayIsOriginal
  <2>. SUFFICES ASSUME IndInv, NEW a \in DOMAIN activeTraps, isFuncTrap(a)
                PROVE  /\ activeTraps[a].replayInstAddr \in Slot
                       /\ replayInsts[activeTraps[a].replayInstAddr] = [o \in Offset |-> "orig"]
                       /\ \A b \in DOMAIN activeTraps \ {a} :
                            activeTraps[b].replayInstAddr # activeTraps[a].replayInstAddr
    BY DEF ReplayIsOriginal
  <2>1. TiOK(activeTraps[a]) /\ a # JitRetAddr
    BY TrapFacts, AddrFacts DEF IndInv
  <2>2. PICK i \in 1 .. Len(tiVec) : activeTraps[a] = tiVec[i] /\ tiVec[i].trapAddr = a
    BY <2>1 DEF IndInv, TrapInv, Installed
  <2>3. ASSUME NEW b \in DOMAIN activeTraps \ {a}
        PROVE  activeTraps[b].replayInstAddr # activeTraps[a].replayInstAddr
    <3>1. CASE activeTraps[b] = jitTrap
      BY <2>1, <3>1, JitTrapType, PatchAssumption DEF TiOK, Slot
    <3>2. CASE Installed(b)
      <4>1. PICK j \in 1 .. Len(tiVec) : activeTraps[b] = tiVec[j] /\ tiVec[j].trapAddr = b
        BY <3>2 DEF Installed
      <4>. QED  BY <2>2, <2>3, <4>1 DEF IndInv, TiInv
    <3>. QED  BY <2>3, <3>1, <3>2 DEF IndInv, TrapInv
  <2>. QED  BY <2>1, <2>3 DEF TiOK, OrigWord
<1>. QED  BY <1>1, IndInit, IndStep, PTL DEF Spec

\* The INT3s in the text are those of the active traps, at every point between
\* two POKETEXTs, for functions whose traps are installed in ascending order.
THEOREM Int3sActive ==
  ASSUME AscendingLayouts
  PROVE  Spec => []Int3sAreActiveTraps
<1>. DEFINE Inv == IndInv /\ AscendingInv /\ ArmedInv
<1>1. Init => Inv
  BY IndInit
<1>2. Inv /\ [Next]_vars => Inv'
  BY AscendingLayouts, IndStep
<1>3. Inv => Int3sAreActiveTraps
  BY DEF IndInv, TextInv, ArmedInv, Int3sAreActiveTraps
<1>. QED  BY <1>1, <1>2, <1>3, PTL DEF Spec

=============================================================================
