----------------------------- MODULE SegConfig -----------------------------
(***************************************************************************)
(* The two segments oid maps into the target, and the file in the          *)
(* temporary directory, named after the pid, through which one run of oid  *)
(* finds the segments an earlier run left behind.                          *)
(*                                                                         *)
(* oid is run again and again on the same pid: it reads the file, then     *)
(* either removes the segments (-r) or makes sure that they exist with the *)
(* size asked for (-x), uses them, and exits without unmapping.  Until the *)
(* signal handlers are installed (after compileCode) a SIGINT kills it     *)
(* between any two steps.  Memory is counted in pages; page 0 cannot be    *)
(* mapped.  Only the target's main thread is stopped, the other threads    *)
(* map and unmap memory of their own all along.                            *)
(***************************************************************************)
EXTENDS Integers, FiniteSets, FiniteSetsExt

CONSTANTS
  PageSize,     \* bytes per page
  TextSegSize,  \* textSegSize, in pages
  DataSegSize,  \* the default dataSegSize, in bytes
  TargetPages,  \* pages the target has mapped when it starts
  Envs          \* the environments oid is run in, records of
                \*   events:   what may go wrong, together
                \*   lastPage: the address space is the pages 1 .. lastPage
                \*   sizes:    what -x may ask for, in bytes; 0: no -x

EnvEvents ==
  {"mmap_fail", "munmap_fail", "write_fail", \* a call fails
   "kill_init", "kill_remove", \* oid is killed while it sets up, or removes
   "exec",        \* the target execs, or its pid is given to a new process
   "step_signal", \* a signal reaches the target at the single-step
   "spaced"}      \* the kernel leaves a page free on both sides of a mapping

ASSUME SegConfigAssumption ==
  /\ PageSize \in Nat \ {0}
  /\ TextSegSize \in Nat \ {0} /\ DataSegSize \in Nat \ {0}
  /\ \A e \in Envs :
       /\ e.events \subseteq EnvEvents
       /\ e.lastPage \in Nat /\ TargetPages \subseteq 1 .. e.lastPage
       /\ e.sizes \subseteq Nat /\ 0 \in e.sizes

Owner == {"free", "target", "text", "data"}

VARIABLES
  env,         \* the environment of this behaviour; no action changes it
  owner,       \* what each page of the target is mapped for
  file,        \* the segment config file; NoConfig: there is none, or an empty one
  segConfig,   \* oid's copy
  dataSegSize, \* the member dataSegSize, in pages
  pc           \* where runScript is

vars == <<env, owner, file, segConfig, dataSegSize, pc>>

Page == 0 .. env.lastPage

\* struct c, without the fields that follow from textSegBase.
NoConfig == [existingConfig |-> FALSE, textSegBase |-> 0, dataSegBase |-> 0,
             dataSegSize |-> 0]

PCs == {"idle", "remove", "removeData", "removeConfig", "init", "initData",
        "write", "ready"}

\* Rounded up to whole pages.
setDataSegmentSize(size) == (size + PageSize - 1) \div PageSize

pages(base, size) == base .. (base + size - 1)

(***************************************************************************)
(* System calls run in the target                                          *)
(***************************************************************************)

\* Where the kernel may put a mapping of this size.
placesFor(size) ==
  {base \in 1 .. env.lastPage :
     /\ base + size - 1 <= env.lastPage
     /\ \A q \in pages(base, size) : owner[q] = "free"
     /\ "spaced" \in env.events =>
          \A q \in Page \cap {base - 1, base + size} : owner[q] = "free"}

assigned(range, who) == [q \in Page |-> IF q \in range THEN who ELSE owner[q]]

\* remoteSyscall<SysMmap>.  When a signal stops the target before the single
\* step is made, %rax still holds the number of the system call, which counts
\* as the address: it lies in page 0.
mmap(size, who, base) ==
  \/ /\ base \in placesFor(size)
     /\ owner' = assigned(pages(base, size), who)
  \/ /\ "step_signal" \in env.events /\ base = 0
     /\ UNCHANGED owner

mmapFails == "mmap_fail" \in env.events /\ UNCHANGED owner

\* munmap does not mind pages that are not mapped; here the number of the system
\* call stands for success.
munmap(base, size) ==
  \/ /\ base # 0
     /\ owner' = assigned(pages(base, size) \cap (1 .. env.lastPage), "free")
  \/ "step_signal" \in env.events /\ UNCHANGED owner

munmapFails(base) == ("munmap_fail" \in env.events \/ base = 0) /\ UNCHANGED owner

(***************************************************************************)
(* One run of oid                                                          *)
(***************************************************************************)

Init ==
  /\ env \in Envs
  /\ owner = [q \in Page |-> IF q \in TargetPages THEN "target" ELSE "free"]
  /\ file = NoConfig
  /\ segConfig = NoConfig
  /\ dataSegSize = setDataSegmentSize(DataSegSize)
  /\ pc = "idle"

Exit == pc' = "idle" /\ segConfig' = NoConfig

\* Bound: where a change of size leaks pages, oid is run as long as a text and
\* a data segment find room.
HasRoom ==
  "spaced" \in env.events =>
    placesFor(TextSegSize + 2 * (1 + setDataSegmentSize(Max(env.sizes)))) # {}

\* Mutant: a file that exists is not read.
createSegmentConfigFile_trunc(removeMappings, size) ==
  /\ pc = "idle"
  /\ removeMappings \/ HasRoom
  /\ segConfig' = NoConfig
  /\ file' = NoConfig
  /\ dataSegSize' = setDataSegmentSize(IF removeMappings \/ size = 0
                                         THEN DataSegSize ELSE size)
  /\ pc' = IF removeMappings THEN "remove" ELSE "init"
  /\ UNCHANGED <<env, owner>>

\* The constructor opens the file.  -x is looked at only without -r.
createSegmentConfigFile(removeMappings, size) ==
  /\ pc = "idle"
  /\ removeMappings \/ HasRoom
  /\ segConfig' = file
  /\ dataSegSize' = setDataSegmentSize(IF removeMappings \/ size = 0
                                         THEN DataSegSize ELSE size)
  /\ pc' = IF removeMappings THEN "remove" ELSE "init"
  /\ UNCHANGED <<env, owner, file>>

\* -r: unmapSegments, or an error if there is no config.
unmapText ==
  /\ pc = "remove"
  /\ IF ~segConfig.existingConfig
       THEN Exit /\ UNCHANGED owner
       ELSE /\ \/ munmap(segConfig.textSegBase, TextSegSize) /\ pc' = "removeData"
               \/ munmapFails(segConfig.textSegBase) /\ pc' = "removeConfig"
            /\ UNCHANGED segConfig
  /\ UNCHANGED <<env, file, dataSegSize>>

\* Mutant: the text segment's address is used for both.
unmapData_text ==
  /\ pc = "removeData"
  /\ \/ munmap(segConfig.textSegBase, dataSegSize)
     \/ munmapFails(segConfig.textSegBase)
  /\ pc' = "removeConfig"
  /\ UNCHANGED <<env, file, segConfig, dataSegSize>>

unmapData ==
  /\ pc = "removeData"
  /\ \/ munmap(segConfig.dataSegBase, dataSegSize)
     \/ munmapFails(segConfig.dataSegBase)
  /\ pc' = "removeConfig"
  /\ UNCHANGED <<env, file, segConfig, dataSegSize>>

\* Mutant: the file is not removed.
deleteSegmentConfig_keepsFile ==
  /\ pc = "removeConfig"
  /\ Exit
  /\ UNCHANGED <<env, owner, file, dataSegSize>>

deleteSegmentConfig ==
  /\ pc = "removeConfig"
  /\ file' = NoConfig
  /\ Exit
  /\ UNCHANGED <<env, owner, dataSegSize>>

\* segmentInit: nothing to do when the segments exist with the right size.
segmentInitExisting ==
  /\ pc = "init"
  /\ segConfig.existingConfig /\ segConfig.dataSegSize = dataSegSize
  /\ pc' = "ready"
  /\ UNCHANGED <<env, owner, file, segConfig, dataSegSize>>

\* Another size is asked for: the data segment is mapped anew.
segmentInitResize ==
  /\ pc = "init"
  /\ segConfig.existingConfig /\ segConfig.dataSegSize # dataSegSize
  /\ \/ /\ munmap(segConfig.dataSegBase, dataSegSize)
        /\ pc' = "initData"
        /\ UNCHANGED segConfig
     \/ munmapFails(segConfig.dataSegBase) /\ Exit
  /\ UNCHANGED <<env, file, dataSegSize>>

\* Mutant: MAP_FAILED is taken for an address.
setupText_unchecked ==
  /\ pc = "init"
  /\ ~segConfig.existingConfig
  /\ \/ \E base \in Page :
          /\ mmap(TextSegSize, "text", base)
          /\ segConfig' = [segConfig EXCEPT !.textSegBase = base]
     \/ mmapFails /\ segConfig' = [segConfig EXCEPT !.textSegBase = -1]
  /\ pc' = "initData"
  /\ UNCHANGED <<env, file, dataSegSize>>

setupText ==
  /\ pc = "init"
  /\ ~segConfig.existingConfig
  /\ \/ \E base \in Page :
          /\ mmap(TextSegSize, "text", base)
          /\ segConfig' = [segConfig EXCEPT !.textSegBase = base]
          /\ pc' = "initData"
     \/ mmapFails /\ Exit
  /\ UNCHANGED <<env, file, dataSegSize>>

setupData ==
  /\ pc = "initData"
  /\ \/ \E base \in Page :
          /\ mmap(dataSegSize, "data", base)
          /\ segConfig' = [segConfig EXCEPT !.dataSegBase = base,
                                            !.dataSegSize = dataSegSize]
          /\ pc' = "write"
     \/ mmapFails /\ Exit
  /\ UNCHANGED <<env, file, dataSegSize>>

\* An error of the write is logged, nothing more.
writeConfig ==
  /\ pc = "write"
  /\ segConfig' = [segConfig EXCEPT !.existingConfig = TRUE]
  /\ file' \in {segConfig'} \cup (IF "write_fail" \in env.events THEN {file} ELSE {})
  /\ pc' = "ready"
  /\ UNCHANGED <<env, owner, dataSegSize>>

\* The probe has run, or failed; the segments stay.
Finish ==
  /\ pc = "ready"
  /\ Exit
  /\ UNCHANGED <<env, owner, file, dataSegSize>>

\* oid is killed.
Killed ==
  /\ \/ "kill_init" \in env.events /\ pc \in {"init", "initData", "write"}
     \/ "kill_remove" \in env.events /\ pc \in {"remove", "removeData", "removeConfig"}
  /\ Exit
  /\ UNCHANGED <<env, owner, file, dataSegSize>>

(***************************************************************************)
(* The target                                                              *)
(***************************************************************************)

TargetMmap(q) ==
  /\ owner[q] = "free" /\ q # 0
  /\ "spaced" \in env.events => q \in TargetPages
  /\ owner' = [owner EXCEPT ![q] = "target"]
  /\ UNCHANGED <<env, file, segConfig, dataSegSize, pc>>

TargetMunmap(q) ==
  /\ owner[q] = "target"
  /\ owner' = [owner EXCEPT ![q] = "free"]
  /\ UNCHANGED <<env, file, segConfig, dataSegSize, pc>>

\* A new image under the same pid.
Exec ==
  /\ "exec" \in env.events /\ pc = "idle"
  /\ owner' = [q \in Page |-> IF q \in TargetPages THEN "target" ELSE "free"]
  /\ UNCHANGED <<env, file, segConfig, dataSegSize, pc>>

Next ==
  \/ \E removeMappings \in BOOLEAN, size \in env.sizes :
       createSegmentConfigFile(removeMappings, size)
  \/ unmapText \/ unmapData \/ deleteSegmentConfig
  \/ segmentInitExisting \/ segmentInitResize
  \/ setupText \/ setupData \/ writeConfig
  \/ Finish \/ Killed
  \/ \E q \in Page : TargetMmap(q) \/ TargetMunmap(q)
  \/ Exec

Spec == Init /\ [][Next]_vars

(***************************************************************************)
(* Properties                                                              *)
(***************************************************************************)

Config == [existingConfig: BOOLEAN, textSegBase: Page, dataSegBase: Page,
           dataSegSize: Nat]

\* Every variable keeps its type.
TypeOK ==
  /\ env \in Envs
  /\ owner \in [Page -> Owner]
  /\ file \in Config
  /\ segConfig \in Config
  /\ dataSegSize \in Nat \ {0}
  /\ pc \in PCs

\* The addresses compileCode and the JIT'd code write to, from textSegBase and
\* from dataSegBase for dataSegSize bytes, are oid's own segments: whichever
\* run mapped them, and whatever other runs and the target did since; unless the
\* target has exec'd, a signal took the place of an injected system call, or oid
\* was killed between munmap and the removal of the file.
WritesOwnSegments ==
  pc = "ready" /\ env.events \cap {"exec", "step_signal", "kill_remove"} = {} =>
    /\ \A q \in pages(segConfig.textSegBase, TextSegSize) \cap Page :
         owner[q] = "text"
    /\ \A q \in pages(segConfig.dataSegBase, dataSegSize) \cap Page :
         owner[q] = "data"

\* oid never unmaps memory of the target, as long as the file is not out of date:
\* the target does not exec, and oid is not killed while it removes the segments
\* (the file then names pages that the target may map again).
TargetUntouched ==
  [][pc' # pc /\ env.events \cap {"exec", "kill_remove"} = {} =>
       \A q \in Page : owner[q] = "target" => owner'[q] = "target"]_vars

\* The pages a config stands for.
segments(c) ==
  pages(c.textSegBase, TextSegSize) \cup pages(c.dataSegBase, c.dataSegSize)

\* Between runs every page oid has mapped is in the config file, so that -r
\* ("Remove oid mappings from target process", OID.cpp) can find it; also after
\* an exec and when oid is killed while it removes them.
NoLeak ==
  pc = "idle" /\ env.events \subseteq {"exec", "kill_remove"} =>
    \A q \in Page : owner[q] \in {"text", "data"} =>
      file.existingConfig /\ q \in segments(file)

=============================================================================
