----------------------------- MODULE OICompiler -----------------------------
(***************************************************************************)
(* How the JIT'd code gets its addresses: the sections of every object     *)
(* file are put into a slab of oid's memory, the slabs are laid out one    *)
(* after the other in the target's text segment, and the symbols they do   *)
(* not define are looked up in the target.                                 *)
(*                                                                         *)
(* An object file is a record                                              *)
(*   sections:  a sequence of [kind, size, align], kind "code", "ro", "rw" *)
(*   defines:   its function, at the start of the first code section       *)
(*   externals: the symbols it refers to and does not define               *)
(***************************************************************************)
EXTENDS Integers, Sequences, SequencesExt, FiniteSetsExt, SymbolService

Page == 4096
RelocAlign == 128 \* of the slabs in the target
Unresolved == -1 \* a weak symbol the target does not define

alignTo(n, a) == ((n + a - 1) \div a) * a

\* The largest alignment of the sections of a kind.
kindAlign(sections, kind) ==
  Max({1} \cup {s.align : s \in {s \in Range(sections) : s.kind = kind}})

\* LLVM (RuntimeDyld::computeTotalAllocSize): every section of a kind takes a
\* multiple of the largest alignment of that kind.
allocSize(sections, kind) ==
  LET align == kindAlign(sections, kind)
      total[n \in 0 .. Len(sections)] ==
        IF n = 0 THEN 0
        ELSE total[n - 1] + (IF sections[n].kind = kind
                               THEN alignTo(sections[n].size, align) ELSE 0)
  IN total[Len(sections)]

(***************************************************************************)
(* The slab of one object file.  Offsets are from the base of its block,   *)
(* which is at the start of a page.                                        *)
(***************************************************************************)

\* sys::Memory::allocateMappedMemory gives whole pages.
allocateMappedMemory(size) == alignTo(size, Page)

allocateBlock(totalSize) == allocateMappedMemory(alignTo(totalSize + 256, 256))

Slab(totalSize, codeSize, dataSize) ==
  LET textSegLimit == alignTo(codeSize, 128) IN
  [allocatedSize |-> allocateBlock(totalSize),
   textSegBase |-> 0, textSegLimit |-> textSegLimit,
   dataSegBase |-> textSegLimit,
   dataSegLimit |-> alignTo(textSegLimit + dataSize, 128),
   sections |-> <<>>, fatal |-> FALSE]

\* The constructor's assertion.
slabFits(slab) == slab.dataSegLimit <= slab.allocatedSize

\* Mutant: the room for the padding between sections is not asked for.
reserveAllocationSpace_exact(codeSize, roDataSize, rwDataSize) ==
  Slab(alignTo(codeSize + roDataSize + rwDataSize, 1024),
       codeSize, roDataSize + rwDataSize)

reserveAllocationSpace(codeSize, roDataSize, rwDataSize) ==
  Slab(alignTo(codeSize + roDataSize + rwDataSize, 1024),
       codeSize, roDataSize + rwDataSize + 128)

\* allocateCodeSection, allocateDataSection.  Past the limit oid is ended.
allocate(slab, s) ==
  LET isCode == s.kind = "code"
      addr == alignTo(IF isCode THEN slab.textSegBase ELSE slab.dataSegBase, s.align)
      limit == IF isCode THEN slab.textSegLimit ELSE slab.dataSegLimit
  IN IF slab.fatal \/ addr + s.size > limit THEN [slab EXCEPT !.fatal = TRUE]
     ELSE [slab EXCEPT
             ![IF isCode THEN "textSegBase" ELSE "dataSegBase"] = addr + s.size,
             !.sections = Append(@, [section |-> s, addr |-> addr])]

\* RuntimeDyld::loadObject as far as the memory manager sees it.
loadObject(obj) ==
  LET slab[n \in 0 .. Len(obj.sections)] ==
        IF n = 0 THEN reserveAllocationSpace(allocSize(obj.sections, "code"),
                                             allocSize(obj.sections, "ro"),
                                             allocSize(obj.sections, "rw"))
        ELSE allocate(slab[n - 1], obj.sections[n])
  IN slab[Len(obj.sections)]

(***************************************************************************)
(* Relocation                                                              *)
(***************************************************************************)

\* 0: not found, which fails the relocation.  weak: the isset_indexes of a
\* Thrift struct's TStructDataStorage.
findSymbol(name, syntheticSymbols, prog, weak) ==
  LET addr == locateSymbol(prog, name, TRUE) IN
  IF name \in DOMAIN syntheticSymbols THEN syntheticSymbols[name]
  ELSE IF addr # 0 THEN addr
  ELSE IF name \in weak THEN Unresolved ELSE 0

\* objects: the object files in the order of their paths.  Their slabs follow each
\* other in the target.
applyRelocs(baseRelocAddress, objects, syntheticSymbols, prog, weak) ==
  LET slabs == [i \in DOMAIN objects |-> loadObject(objects[i])]
      RelocAddr[i \in 1 .. Len(objects)] ==
        IF i = 1 THEN baseRelocAddress
        ELSE alignTo(RelocAddr[i - 1] + slabs[i - 1].allocatedSize, RelocAlign)
      externals == UNION {o.externals : o \in Range(objects)}
      resolved == [x \in externals |-> findSymbol(x, syntheticSymbols, prog, weak)]
  IN [fatal |-> \E i \in DOMAIN objects : slabs[i].fatal,
      fits |-> \A i \in DOMAIN objects : slabFits(slabs[i]),
      failed |-> \E x \in externals : resolved[x] = 0,
      relocInfos |-> [i \in DOMAIN objects |->
                        [RelocAddr |-> RelocAddr[i], Size |-> slabs[i].allocatedSize]],
      sections |-> UNION {{[s EXCEPT !.addr = RelocAddr[i] + @] :
                             s \in Range(slabs[i].sections)} : i \in DOMAIN objects},
      externals |-> resolved,
      symbols |-> [x \in UNION {o.defines : o \in Range(objects)} |->
        RelocAddr[SelectInSeq(objects, LAMBDA o : x \in o.defines)]]]

\* No byte is in both.
Disjoint(s, t) == \/ s.addr + s.section.size <= t.addr
                  \/ t.addr + t.section.size <= s.addr

(***************************************************************************)
(* What is relied on in object files                                       *)
(***************************************************************************)

Alignments == {1, 2, 4, 8, 16, 32, 64, 128}

\* No section has to be aligned to more than the slabs and their segments are.
IsObject(obj) ==
  /\ "sections" \in DOMAIN obj
  /\ Len(obj.sections) \in Nat /\ DOMAIN obj.sections = 1 .. Len(obj.sections)
  /\ \A s \in Range(obj.sections) :
       s.kind \in {"code", "ro", "rw"} /\ s.size \in Nat /\ s.align \in Alignments

\* Constants and data share a segment, and LLVM counts them separately: a section
\* of the kind with the larger alignment may need this much more space in front.
dataPadding(sections) ==
  LET ro == kindAlign(sections, "ro")
      rw == kindAlign(sections, "rw")
      count(kind) == Cardinality({i \in DOMAIN sections : sections[i].kind = kind})
  IN IF ro > rw THEN count("ro") * (ro - rw) ELSE count("rw") * (rw - ro)
=============================================================================
