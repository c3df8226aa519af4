----------------------------- MODULE TextPatch -----------------------------
(***************************************************************************)
(* The breakpoints oid plants in the text of the target process.           *)
(*                                                                         *)
(* ptrace(PTRACE_POKETEXT) writes Window (8) bytes at a time while a       *)
(* breakpoint is one byte (INT3), so the writes of neighbouring traps      *)
(* overlap.  The module follows OIDebugger::functionPatch, removeTrap,     *)
(* removeTraps and nextReplayInstrAddr byte by byte: a byte of text is its *)
(* original value, an INT3, or the zero a JITCODERET trapInfo (which never *)
(* reads the original text) holds.                                         *)
(*                                                                         *)
(* The other threads of the target run while the traps are written: every  *)
(* POKETEXT is a step of its own.                                          *)
(***************************************************************************)
EXTENDS Integers, Sequences, FiniteSets, FiniteSetsExt, SequencesExt

CONSTANTS
  Window,       \* bytes of one POKETEXT (8)
  SlotCount,    \* replay slots: replayInstSize / 8
  JitRetAddr,   \* address of the INT3 that ends the prologue
  FuncDescs,    \* the functions a probe can name (see FuncDesc below)
  Requests      \* the probe requests: [type, args]

ASSUME PatchAssumption ==
  /\ Window \in Nat \ {0}
  /\ SlotCount \in Nat
  /\ JitRetAddr \in Nat
  /\ JitRetAddr >= Window

\* Text of the probed function, then the prologue in oid's own segment.
Addr     == 0 .. (JitRetAddr + Window - 1)
TrapAddr == 0 .. (JitRetAddr - Window)
Offset   == 0 .. (Window - 1)
Byte     == {"orig", "int3", "zero"}
Word     == [Offset -> Byte]
Slot     == 0 .. (SlotCount - 1)

FuncKinds == {"OID_TRAP_VECT_ENTRY", "OID_TRAP_VECT_ENTRYRET",
              "OID_TRAP_VECT_RET"}
TrapKinds == FuncKinds \cup {"OID_TRAP_JITCODERET"}

trapInfo == [trapKind: TrapKinds, trapAddr: Addr, origText: Word,
             patchedText: Word, replayInstAddr: Slot \cup {-1}]

VARIABLES
  text,              \* the bytes of the target's text
  activeTraps,       \* std::map address -> trapInfo
  replayInstMap,     \* unordered_map trap address -> replay slot
  replayInstsCurIdx, \* next free slot
  replayInsts,       \* the words saved in the replay area
  tiVec,             \* the traps functionPatch is installing
  poked,             \* how many of tiVec have been poked
  phase              \* where runScript is

vars == <<text, activeTraps, replayInstMap, replayInstsCurIdx, replayInsts,
          tiVec, poked, phase>>

\* "dirty": a POKETEXT of removeTraps has failed.
Phases == {"stopped", "patching", "armed", "clean", "dirty", "aborted"}

(***************************************************************************)
(* Locating the traps                                                      *)
(***************************************************************************)

\* A FuncDesc: its DWARF ranges in DWARF order, each with the offsets of its
\* return instructions in ascending order (OICompiler::locateOpcodes walks the
\* range), and where the first location of the argument becomes live (0 when
\* the argument has no location list).
findRetLocs(fd) ==
  FlattenSeq([i \in DOMAIN fd.ranges |->
                [j \in DOMAIN fd.ranges[i].rets |->
                   fd.ranges[i].start + fd.ranges[i].rets[j]]])

hasArg(req) == \E i \in DOMAIN req.args : req.args[i] # "retval"

entryAddr(fd, req) ==
  IF req.args[1] # "retval" THEN Max({fd.ranges[1].start, fd.argStart})
                            ELSE fd.ranges[1].start

\* The traps of a request, in the order in which functionPatch installs them.
TrapSites(fd, req) ==
  LET entry == [trapKind |-> IF req.type = "return"
                               THEN "OID_TRAP_VECT_ENTRYRET"
                               ELSE "OID_TRAP_VECT_ENTRY",
                trapAddr |-> entryAddr(fd, req)]
      rets  == [i \in DOMAIN findRetLocs(fd) |->
                  [trapKind |-> "OID_TRAP_VECT_RET",
                   trapAddr |-> findRetLocs(fd)[i]]]
  IN  (IF req.type = "entry" \/ hasArg(req) THEN <<entry>> ELSE << >>)
      \o (IF req.type = "return" THEN rets ELSE << >>)

\* The traps lie in the text of the function, a window away from the prologue.
ASSUME LayoutAssumption ==
  \A fd \in FuncDescs, req \in Requests :
    TrapSites(fd, req) \in Seq([trapKind: FuncKinds, trapAddr: TrapAddr])

(***************************************************************************)
(* Words and windows                                                       *)
(***************************************************************************)

PeekText(a) == [o \in Offset |-> text[a + o]]

PokeText(a, word) ==
  [b \in Addr |-> IF b \in a .. (a + Window - 1) THEN word[b - a] ELSE text[b]]

Patched(word) == [word EXCEPT ![0] = "int3"]

Zeros == [o \in Offset |-> "zero"]

\* writePrologue's trap: neither its text nor a replay slot is ever filled in.
jitTrap == [trapKind |-> "OID_TRAP_JITCODERET", trapAddr |-> JitRetAddr,
            origText |-> Zeros, patchedText |-> Zeros, replayInstAddr |-> -1]

(***************************************************************************)
(* The replay area                                                         *)
(***************************************************************************)

\* Mutant: the index is not advanced.
slotAlloc_sameSlot(sites) ==
  [map |-> [a \in DOMAIN replayInstMap \cup {sites[i].trapAddr : i \in DOMAIN sites} |->
              IF a \in DOMAIN replayInstMap THEN replayInstMap[a]
                                            ELSE replayInstsCurIdx],
   idx |-> replayInstsCurIdx]

\* A trap address seen before keeps its slot, a new one takes the next.
nextReplayInstrAddr(p, a) ==
  IF a \in DOMAIN p.map THEN p
  ELSE [map |-> [b \in DOMAIN p.map \cup {a} |-> IF b = a THEN p.idx ELSE p.map[b]],
        idx |-> p.idx + 1]

\* nextReplayInstrAddr for the traps of sites, one after the other: the i-th
\* member of alloc is the state after the first i sites.
slotAlloc(sites) ==
  LET alloc[i \in 0 .. Len(sites)] ==
        IF i = 0 THEN [map |-> replayInstMap, idx |-> replayInstsCurIdx]
                 ELSE nextReplayInstrAddr(alloc[i - 1], sites[i].trapAddr)
  IN  alloc[Len(sites)]

\* Mutant: one slot too many.
slotFits_offByOne(idx) == idx <= SlotCount

\* Every slot lies below textSegBase + textSegSize.
slotFits(idx) == idx < SlotCount

(***************************************************************************)
(* Actions                                                                 *)
(***************************************************************************)

\* compileCode has run: the prologue with its INT3 is in oid's segment and the
\* main thread is stopped for patchFunctions.
Init ==
  /\ text = [b \in Addr |-> IF b = JitRetAddr THEN "int3" ELSE "orig"]
  /\ activeTraps = [a \in {JitRetAddr} |-> jitTrap]
  /\ replayInstMap = << >>
  /\ replayInstsCurIdx = 0
  /\ replayInsts = << >>
  /\ tiVec = << >>
  /\ poked = 0
  /\ phase = "stopped"

\* Steps 1 to 4 of functionPatch: find the sites, read every original word
\* before anything is written, allocate the replay slots, save the words.
functionPatch(fd, req) ==
  LET sites == TrapSites(fd, req)
      next  == slotAlloc(sites)
      ti(i) == [trapKind       |-> sites[i].trapKind,
                trapAddr       |-> sites[i].trapAddr,
                origText       |-> PeekText(sites[i].trapAddr),
                patchedText    |-> Patched(PeekText(sites[i].trapAddr)),
                replayInstAddr |-> next.map[sites[i].trapAddr]]
  IN  /\ phase = "stopped"
      /\ req.type = "return" => findRetLocs(fd) # << >>
      /\ \A a \in DOMAIN next.map : slotFits(next.map[a])
      /\ tiVec' = [i \in DOMAIN sites |-> ti(i)]
      /\ replayInstMap' = next.map
      /\ replayInstsCurIdx' = next.idx
      /\ replayInsts' = [s \in {ti(i).replayInstAddr : i \in DOMAIN sites} |->
                           ti(CHOOSE i \in DOMAIN sites :
                                ti(i).replayInstAddr = s).origText]
      /\ phase' = "patching"
      /\ UNCHANGED <<text, activeTraps, poked>>

\* functionPatch returns false before it writes a trap: no function, no return
\* instruction, a failed process_vm_readv or writev, no argument, or no slot.
functionPatchFails ==
  /\ phase = "stopped"
  /\ phase' = "aborted"
  /\ UNCHANGED <<text, activeTraps, replayInstMap, replayInstsCurIdx,
                 replayInsts, tiVec, poked>>

\* emplace does not replace an entry that is already there.
emplace(t) ==
  [a \in DOMAIN activeTraps \cup {t.trapAddr} |->
     IF a \in DOMAIN activeTraps THEN activeTraps[a] ELSE t]

\* Step 5 for the next trap of tiVec.
pokeTrap ==
  LET t == tiVec[poked + 1]
  IN  /\ phase = "patching"
      /\ poked < Len(tiVec)
      /\ activeTraps' = emplace(t)
      /\ text' = PokeText(t.trapAddr, t.patchedText)
      /\ poked' = poked + 1
      /\ phase' = IF poked + 1 = Len(tiVec) THEN "armed" ELSE "patching"
      /\ UNCHANGED <<replayInstMap, replayInstsCurIdx, replayInsts, tiVec>>

\* A POKETEXT of step 5 fails: functionPatch returns false, runScript detaches
\* the main thread and exits with PatchingError.
pokeTrapFails ==
  LET t == tiVec[poked + 1]
  IN  /\ phase = "patching"
      /\ poked < Len(tiVec)
      /\ activeTraps' = emplace(t)
      /\ phase' = "aborted"
      /\ UNCHANGED <<text, replayInstMap, replayInstsCurIdx, replayInsts,
                     tiVec, poked>>

\* The later traps whose INT3 lies in the window of a, up to byte b.
overlapping(a, b) == {c \in DOMAIN activeTraps : a < c /\ c <= b}

\* Mutant: the original word is written as it is.
repatchedBytes_noOverlay(a) == activeTraps[a].origText

\* The word removeTrap writes: the original bytes, overlaid in ascending order
\* by the patched bytes of the later traps of the window (the last one wins).
repatchedBytes(a) ==
  [o \in Offset |->
     IF overlapping(a, a + o) = {}
       THEN activeTraps[a].origText[o]
       ELSE LET c == Max(overlapping(a, a + o))
            IN  activeTraps[c].patchedText[a + o - c]]

\* processTrap removes the trap a thread has hit before it processes it.  When
\* the POKETEXT fails nothing changes: the trap stays in activeTraps.
removeTrap(a) ==
  /\ phase = "armed"
  /\ a \in DOMAIN activeTraps
  /\ text' = PokeText(a, repatchedBytes(a))
  /\ activeTraps' = [b \in DOMAIN activeTraps \ {a} |-> activeTraps[b]]
  /\ UNCHANGED <<replayInstMap, replayInstsCurIdx, replayInsts, tiVec, poked,
                 phase>>

\* Mutant: the helper traps of a return probe are skipped too.
isFuncTrap_notEntryRet(a) ==
  activeTraps[a].trapKind \notin {"OID_TRAP_JITCODERET", "OID_TRAP_VECT_ENTRYRET"}

isFuncTrap(a) == activeTraps[a].trapKind # "OID_TRAP_JITCODERET"

funcTraps == {a \in DOMAIN activeTraps : isFuncTrap(a)}

\* The text after POKETEXTs of the original words of S in ascending order: where
\* windows meet, the last (highest) trap wrote the byte.
writtenBack(S) ==
  LET cover(b) == {a \in S : b \in a .. (a + Window - 1)}
  IN  [b \in Addr |-> IF cover(b) = {} THEN text[b]
                      ELSE LET a == Max(cover(b))
                           IN  activeTraps[a].origText[b - a]]

\* The loop of removeTraps over the ordered map, ended.
removeTraps ==
  /\ phase = "armed"
  /\ text' = writtenBack(funcTraps)
  /\ activeTraps' = [a \in DOMAIN activeTraps \ funcTraps |-> activeTraps[a]]
  /\ phase' = "clean"
  /\ UNCHANGED <<replayInstMap, replayInstsCurIdx, replayInsts, tiVec, poked>>

\* The same when POKETEXTs fail: that is only logged, the trap is erased from
\* activeTraps all the same and its INT3 stays.
removeTrapsFails ==
  /\ phase = "armed"
  /\ \E S \in SUBSET funcTraps : S # funcTraps /\ text' = writtenBack(S)
  /\ activeTraps' = [a \in DOMAIN activeTraps \ funcTraps |-> activeTraps[a]]
  /\ phase' = "dirty"
  /\ UNCHANGED <<replayInstMap, replayInstsCurIdx, replayInsts, tiVec, poked>>

Next ==
  \/ \E fd \in FuncDescs, req \in Requests : functionPatch(fd, req)
  \/ functionPatchFails
  \/ pokeTrap
  \/ pokeTrapFails
  \/ \E a \in Addr : removeTrap(a)
  \/ removeTraps
  \/ removeTrapsFails

Spec == Init /\ [][Next]_vars

(***************************************************************************)
(* Properties                                                              *)
(***************************************************************************)

\* Traps closer than a window are installed in ascending order.  Compilers emit
\* a function's ranges so that this holds unless a cold range ends right before
\* the hot one, or an argument becomes live after a return instruction.
Ascending(sites) ==
  \A i, j \in DOMAIN sites :
    i < j => \/ sites[i].trapAddr <= sites[j].trapAddr
             \/ sites[i].trapAddr - sites[j].trapAddr >= Window

AscendingLayouts ==
  \A fd \in FuncDescs, req \in Requests : Ascending(TrapSites(fd, req))

\* Every variable keeps its type.
TypeOK ==
  /\ text \in [Addr -> Byte]
  /\ DOMAIN activeTraps \subseteq Addr
  /\ \A a \in DOMAIN activeTraps : /\ activeTraps[a] \in trapInfo
                                   /\ activeTraps[a].trapAddr = a
  /\ poked \in 0 .. Len(tiVec)
  /\ phase \in Phases

\* activeTraps maps the "address of valid INT3 instruction" (OIDebugger.h): the
\* INT3s in the text are those of the active traps, whatever traps next to them
\* have been poked or removed.  No thread runs through a trap unnoticed, and none
\* meets an INT3 that processTrap could only resume it on for ever.  (A POKETEXT
\* that fails in functionPatch leaves a trap without INT3, one that fails in
\* removeTraps an INT3 without trap.)
Int3sAreActiveTraps ==
  /\ phase # "aborted" => \A a \in DOMAIN activeTraps : text[a] = "int3"
  /\ phase # "dirty" => \A b \in Addr : text[b] = "int3" => b \in DOMAIN activeTraps

\* After removeTraps the text of the probed function is what it was, in
\* whichever order traps were hit and removed before.
TextRestored ==
  phase = "clean" => \A b \in Addr : b < JitRetAddr => text[b] = "orig"

\* The replay slot of an active trap lies in the replay area, is shared with
\* no other trap, and holds the original word: the instruction that
\* replayTrappedInstr single-steps is never an INT3 of a neighbouring trap.
ReplayIsOriginal ==
  \A a \in DOMAIN activeTraps :
    isFuncTrap(a) =>
      /\ activeTraps[a].replayInstAddr \in Slot
      /\ replayInsts[activeTraps[a].replayInstAddr] = [o \in Offset |-> "orig"]
      /\ \A b \in DOMAIN activeTraps \ {a} :
           activeTraps[b].replayInstAddr # activeTraps[a].replayInstAddr

=============================================================================
