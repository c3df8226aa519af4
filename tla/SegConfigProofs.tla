-------------------------- MODULE SegConfigProofs --------------------------
(***************************************************************************)
(* The segments and the config file, for every page size, segment size,    *)
(* address space, layout of the target and number of runs: the state keeps *)
(* its type; and as long as all runs ask for the same number of pages      *)
(* (SameSize), oid writes to and unmaps pages of its own only, and leaves  *)
(* none behind that the file does not name.                                *)
(*                                                                         *)
(* SameSize cannot be dropped: unmapSegment uses the size of this run for  *)
(* the segment of an earlier one, which is what the run SegConfigGrow      *)
(* shows.                                                                  *)
(***************************************************************************)
EXTENDS SegConfig, TLAPS

\* Pages of the default data segment.
DefaultSize == setDataSegmentSize(DataSegSize)

\* Whatever -x asks for, the data segment has as many pages.
SameSize == \A s \in env.sizes : s # 0 => setDataSegmentSize(s) = DefaultSize

-----------------------------------------------------------------------------
(***************************************************************************)
(* The inductive invariant                                                 *)
(***************************************************************************)

\* What oid's copy and the file have to do with each other, step by step.
ConfigInv ==
  /\ dataSegSize = DefaultSize
  /\ file # NoConfig => file.existingConfig /\ file.dataSegSize = DefaultSize
  /\ pc \in {"remove", "removeData", "removeConfig", "init"} => segConfig = file
  /\ pc \in {"removeData", "removeConfig"} => file.existingConfig
  /\ pc \in {"initData", "write"} => ~segConfig.existingConfig /\ file = NoConfig
  /\ pc \in {"write", "ready"} => segConfig.dataSegSize = DefaultSize
  /\ pc = "ready" => segConfig.existingConfig
  /\ pc = "ready" => file = segConfig \/ file = NoConfig

\* Without a signal at the single-step every address is one mmap returned.
BasesInv ==
  "step_signal" \notin env.events =>
    /\ file.existingConfig => file.textSegBase # 0 /\ file.dataSegBase # 0
    /\ pc \in {"initData", "write", "ready"} => segConfig.textSegBase # 0
    /\ pc \in {"write", "ready"} => segConfig.dataSegBase # 0

\* A base of 0 is no address of a segment: munmap refuses it.
TextOwned(c) ==
  c.textSegBase # 0 =>
    \A q \in pages(c.textSegBase, TextSegSize) \cap Page : owner[q] = "text"

DataOwned(c) ==
  c.dataSegBase # 0 =>
    \A q \in pages(c.dataSegBase, DefaultSize) \cap Page : owner[q] = "data"

\* Until the file is about to be deleted, its segments are still mapped.
OwnedInv ==
  env.events \cap {"exec", "kill_remove"} = {} =>
    /\ file.existingConfig =>
         /\ pc \notin {"removeData", "removeConfig"} => TextOwned(file)
         /\ pc # "removeConfig" => DataOwned(file)
    /\ pc \in {"initData", "write", "ready"} => TextOwned(segConfig)
    /\ pc \in {"write", "ready"} => DataOwned(segConfig)

\* A page that oid has mapped is one of the file's, or this run has mapped it and
\* not written the file yet; what this run has unmapped is gone.
LeakInv ==
  env.events \subseteq {"exec", "kill_remove"} =>
    \A q \in Page : owner[q] \in {"text", "data"} =>
      /\ pc = "initData" => q \in pages(segConfig.textSegBase, TextSegSize)
      /\ pc = "write" => q \in segments(segConfig)
      /\ pc = "removeData" => q \in pages(file.dataSegBase, DefaultSize)
      /\ pc # "removeConfig"
      /\ pc \notin {"initData", "write"} =>
           file.existingConfig /\ q \in segments(file)

IndInv == SameSize /\ ConfigInv /\ BasesInv /\ OwnedInv /\ LeakInv

-----------------------------------------------------------------------------
(***************************************************************************)
(* Types                                                                   *)
(***************************************************************************)

\* A size that is asked for is at least one page.
LEMMA SizePositive ==
  ASSUME NEW size \in Nat \ {0}
  PROVE  setDataSegmentSize(size) \in Nat \ {0}
<1>1. PageSize \in Nat \ {0}
  BY SegConfigAssumption
<1>2. size + PageSize - 1 \in Nat /\ size + PageSize - 1 >= PageSize
  BY <1>1
<1>. QED  BY <1>1, <1>2 DEF setDataSegmentSize

\* What the assumptions say of the environment of a behaviour.
LEMMA EnvFacts ==
  ASSUME TypeOK
  PROVE  /\ env.lastPage \in Nat /\ TargetPages \subseteq 1 .. env.lastPage
         /\ env.sizes \subseteq Nat
         /\ Page \subseteq Nat /\ 0 \in Page
         /\ TextSegSize \in Nat \ {0} /\ DefaultSize \in Nat \ {0}
<1>1. DefaultSize \in Nat \ {0}
  BY SegConfigAssumption, SizePositive DEF DefaultSize
<1>. QED  BY <1>1, SegConfigAssumption DEF TypeOK, Page

\* A range of pages given to someone leaves the others alone.
LEMMA AssignedType ==
  ASSUME owner \in [Page -> Owner], NEW range, NEW who \in Owner
  PROVE  assigned(range, who) \in [Page -> Owner]
BY DEF assigned

\* Init and every step keep the types: in particular mmap returns a page of the
\* address space, and no step asks for a data segment of no pages.
LEMMA TypeStep == TypeOK /\ [Next]_vars => TypeOK'
<1>. SUFFICES ASSUME TypeOK, [Next]_vars
              PROVE  TypeOK'
  OBVIOUS
<1>. USE DEF Owner
<1>0. /\ env \in Envs /\ owner \in [Page -> Owner] /\ file \in Config
      /\ segConfig \in Config /\ dataSegSize \in Nat \ {0} /\ pc \in PCs
  BY DEF TypeOK
<1>1. /\ 0 \in Page /\ env.sizes \subseteq Nat
  BY EnvFacts
<1>2. NoConfig \in Config
  BY <1>1 DEF NoConfig, Config
<1>3. env' = env => Page' = Page /\ Config' = Config
  BY DEF Page, Config
<1>4. ASSUME NEW base, NEW size, munmap(base, size), env' = env
      PROVE  owner' \in [Page -> Owner]
  BY <1>0, <1>4, AssignedType DEF munmap
<1>5. ASSUME NEW base \in Page, NEW size, NEW who \in Owner, mmap(size, who, base)
      PROVE  owner' \in [Page -> Owner]
  BY <1>0, <1>5, AssignedType DEF mmap
<1>6. ASSUME NEW removeMappings \in BOOLEAN, NEW size \in env.sizes,
             createSegmentConfigFile(removeMappings, size)
      PROVE  TypeOK'
  <2>1. (IF removeMappings \/ size = 0 THEN DataSegSize ELSE size) \in Nat \ {0}
    BY <1>1, SegConfigAssumption
  <2>2. dataSegSize' \in Nat \ {0}
    BY <1>6, <2>1, SizePositive DEF createSegmentConfigFile
  <2>. QED  BY <1>0, <1>3, <1>6, <2>2 DEF createSegmentConfigFile, TypeOK, PCs
<1>7. CASE unmapText
  BY <1>0, <1>2, <1>3, <1>4, <1>7
    DEF unmapText, Exit, munmapFails, TypeOK, PCs
<1>8. CASE unmapData
  BY <1>0, <1>3, <1>4, <1>8 DEF unmapData, munmapFails, TypeOK, PCs
<1>9. CASE deleteSegmentConfig
  BY <1>0, <1>2, <1>3, <1>9 DEF deleteSegmentConfig, Exit, TypeOK, PCs
<1>10. CASE segmentInitExisting
  BY <1>0, <1>3, <1>10 DEF segmentInitExisting, TypeOK, PCs
<1>11. CASE segmentInitResize
  BY <1>0, <1>2, <1>3, <1>4, <1>11
    DEF segmentInitResize, Exit, munmapFails, TypeOK, PCs
<1>12. CASE setupText
  <2>1. CASE mmapFails /\ Exit
    BY <1>0, <1>2, <1>3, <1>12, <2>1 DEF setupText, mmapFails, Exit, TypeOK, PCs
  <2>2. ASSUME NEW base \in Page, mmap(TextSegSize, "text", base),
               segConfig' = [segConfig EXCEPT !.textSegBase = base],
               pc' = "initData"
        PROVE  TypeOK'
    <3>1. segConfig' \in Config
      BY <1>0, <2>2 DEF Config
    <3>. QED  BY <1>0, <1>3, <1>5, <1>12, <2>2, <3>1 DEF setupText, TypeOK, PCs
  <2>. QED  BY <1>12, <2>1, <2>2 DEF setupText
<1>13. CASE setupData
  <2>1. CASE mmapFails /\ Exit
    BY <1>0, <1>2, <1>3, <1>13, <2>1 DEF setupData, mmapFails, Exit, TypeOK, PCs
  <2>2. ASSUME NEW base \in Page, mmap(dataSegSize, "data", base),
               segConfig' = [segConfig EXCEPT !.dataSegBase = base,
                                              !.dataSegSize = dataSegSize],
               pc' = "write"
        PROVE  TypeOK'
    <3>1. segConfig' \in Config
      BY <1>0, <2>2 DEF Config
    <3>. QED  BY <1>0, <1>3, <1>5, <1>13, <2>2, <3>1 DEF setupData, TypeOK, PCs
  <2>. QED  BY <1>13, <2>1, <2>2 DEF setupData
<1>14. CASE writeConfig
  <2>1. segConfig' \in Config
    BY <1>0, <1>14 DEF writeConfig, Config
  <2>. QED  BY <1>0, <1>3, <1>14, <2>1 DEF writeConfig, TypeOK, PCs
<1>15. CASE Finish
  BY <1>0, <1>2, <1>3, <1>15 DEF Finish, Exit, TypeOK, PCs
<1>16. CASE Killed
  BY <1>0, <1>2, <1>3, <1>16 DEF Killed, Exit, TypeOK, PCs
<1>17. ASSUME NEW q \in Page, TargetMmap(q) \/ TargetMunmap(q)
       PROVE  TypeOK'
  BY <1>0, <1>3, <1>17 DEF TargetMmap, TargetMunmap, TypeOK
<1>18. CASE Exec
  BY <1>0, <1>3, <1>18 DEF Exec, TypeOK
<1>19. CASE UNCHANGED vars
  BY <1>0, <1>3, <1>19 DEF vars, TypeOK
<1>. QED
  BY <1>6, <1>7, <1>8, <1>9, <1>10, <1>11, <1>12, <1>13, <1>14, <1>15, <1>16,
     <1>17, <1>18, <1>19 DEF Next

\* Every variable keeps its type: in every environment, addresses in the config
\* file are pages of the target, and no data segment is empty.
THEOREM TypeCorrect == Spec => []TypeOK
<1>1. Init => TypeOK
  <2>. SUFFICES ASSUME Init
                PROVE  TypeOK
    OBVIOUS
  <2>1. env.lastPage \in Nat /\ 0 \in Page
    BY SegConfigAssumption DEF Init, Page
  <2>2. dataSegSize \in Nat \ {0}
    BY SegConfigAssumption, SizePositive DEF Init
  <2>3. NoConfig \in Config
    BY <2>1 DEF NoConfig, Config
  <2>. QED  BY <2>2, <2>3 DEF Init, TypeOK, Owner, PCs
<1>. QED  BY <1>1, TypeStep, PTL DEF Spec

-----------------------------------------------------------------------------
(***************************************************************************)
(* What a system call does to the pages of oid                             *)
(***************************************************************************)

\* munmap frees pages of its range, and touches no others.
LEMMA MunmapEffect ==
  ASSUME TypeOK, NEW base \in Page, NEW size \in Nat, munmap(base, size)
  PROVE  /\ \A q \in Page : owner'[q] = owner[q] \/ owner'[q] = "free"
         /\ \A q \in Page : q \notin pages(base, size) => owner'[q] = owner[q]
         /\ base = 0 => \A q \in Page : owner'[q] = owner[q]
         /\ "step_signal" \notin env.events =>
              \A q \in pages(base, size) \cap Page : owner'[q] = "free"
<1>1. Page = 0 .. env.lastPage /\ env.lastPage \in Nat
  BY EnvFacts DEF Page
<1>2. CASE base # 0 /\ owner' = assigned(pages(base, size) \cap (1 .. env.lastPage), "free")
  <2>1. \A q \in Page : owner'[q] = IF q \in pages(base, size) \cap (1 .. env.lastPage)
                                    THEN "free" ELSE owner[q]
    BY <1>2 DEF assigned
  <2>2. \A q \in pages(base, size) \cap Page : q \in 1 .. env.lastPage
    BY <1>1, <1>2 DEF pages
  <2>. QED  BY <1>2, <2>1, <2>2
<1>3. CASE "step_signal" \in env.events /\ UNCHANGED owner
  BY <1>3
<1>. QED  BY <1>2, <1>3 DEF munmap

\* mmap takes free pages, or returns page 0 and takes none.
LEMMA MmapEffect ==
  ASSUME TypeOK, NEW size \in Nat, NEW who \in Owner, NEW base \in Page,
         mmap(size, who, base)
  PROVE  /\ \A q \in Page : owner[q] # "free" => owner'[q] = owner[q]
         /\ \A q \in Page : q \notin pages(base, size) => owner'[q] = owner[q]
         /\ base # 0 => \A q \in pages(base, size) \cap Page : owner'[q] = who
         /\ "step_signal" \notin env.events => base # 0
<1>1. CASE base \in placesFor(size) /\ owner' = assigned(pages(base, size), who)
  <2>1. \A q \in pages(base, size) : owner[q] = "free"
    BY <1>1 DEF placesFor
  <2>2. \A q \in Page : owner'[q] = IF q \in pages(base, size) THEN who ELSE owner[q]
    BY <1>1 DEF assigned
  <2>3. base # 0
    BY <1>1, EnvFacts DEF placesFor
  <2>. QED  BY <2>1, <2>2, <2>3
<1>2. CASE "step_signal" \in env.events /\ base = 0 /\ UNCHANGED owner
  BY <1>2
<1>. QED  BY <1>1, <1>2 DEF mmap

-----------------------------------------------------------------------------
(***************************************************************************)
(* The invariant is inductive                                              *)
(***************************************************************************)

\* Each step keeps the config file and oid's copy of it in line.
LEMMA ConfigStep ==
  TypeOK /\ SameSize /\ ConfigInv /\ [Next]_vars => SameSize' /\ ConfigInv'
<1>. SUFFICES ASSUME TypeOK, SameSize, ConfigInv, [Next]_vars
              PROVE  SameSize' /\ ConfigInv'
  OBVIOUS
<1>0. file \in Config /\ segConfig \in Config /\ pc \in PCs
  BY DEF TypeOK
<1>1. env' = env
  BY DEF Next, createSegmentConfigFile, unmapText, unmapData, deleteSegmentConfig,
         segmentInitExisting, segmentInitResize, setupText, setupData, writeConfig,
         Finish, Killed, TargetMmap, TargetMunmap, Exec, vars
<1>2. SameSize'
  BY <1>1 DEF SameSize
<1>. SUFFICES ConfigInv'
  BY <1>2
<1>3. NoConfig.existingConfig = FALSE
  BY DEF NoConfig
<1>4. ASSUME NEW removeMappings \in BOOLEAN, NEW size \in env.sizes,
             createSegmentConfigFile(removeMappings, size)
      PROVE  ConfigInv'
  <2>1. dataSegSize' = DefaultSize
    BY <1>4 DEF createSegmentConfigFile, SameSize, DefaultSize
  <2>. QED  BY <1>0, <1>4, <2>1 DEF createSegmentConfigFile, ConfigInv, PCs
<1>5. CASE unmapText
  BY <1>0, <1>3, <1>5 DEF unmapText, Exit, ConfigInv, PCs
<1>6. CASE unmapData
  BY <1>0, <1>6 DEF unmapData, ConfigInv, PCs
<1>7. CASE deleteSegmentConfig
  BY <1>0, <1>7 DEF deleteSegmentConfig, Exit, ConfigInv, PCs
<1>8. CASE segmentInitExisting
  BY <1>0, <1>8 DEF segmentInitExisting, ConfigInv, PCs
<1>9. CASE segmentInitResize
  BY <1>0, <1>3, <1>9 DEF segmentInitResize, ConfigInv
<1>10. CASE setupText
  BY <1>0, <1>3, <1>10 DEF setupText, Exit, ConfigInv, PCs, Config
<1>11. CASE setupData
  BY <1>0, <1>3, <1>11 DEF setupData, Exit, ConfigInv, PCs, Config
<1>12. CASE writeConfig
  <2>1. segConfig'.existingConfig /\ segConfig'.dataSegSize = segConfig.dataSegSize
    BY <1>0, <1>12 DEF writeConfig, Config
  <2>. QED  BY <1>0, <1>12, <2>1 DEF writeConfig, ConfigInv, PCs
<1>13. CASE Finish
  BY <1>0, <1>13 DEF Finish, Exit, ConfigInv, PCs
<1>14. CASE Killed
  BY <1>0, <1>14 DEF Killed, Exit, ConfigInv, PCs
<1>15. ASSUME NEW q \in Page, TargetMmap(q) \/ TargetMunmap(q)
       PROVE  ConfigInv'
  BY <1>15 DEF TargetMmap, TargetMunmap, ConfigInv
<1>16. CASE Exec
  BY <1>16 DEF Exec, ConfigInv
<1>17. CASE UNCHANGED vars
  BY <1>17 DEF vars, ConfigInv
<1>. QED
  BY <1>4, <1>5, <1>6, <1>7, <1>8, <1>9, <1>10, <1>11, <1>12, <1>13, <1>14,
     <1>15, <1>16, <1>17 DEF Next

\* Each step stores addresses that mmap returned.
LEMMA BasesStep ==
  TypeOK /\ ConfigInv /\ BasesInv /\ [Next]_vars => BasesInv'
<1>. SUFFICES ASSUME TypeOK, ConfigInv, BasesInv, [Next]_vars,
                     "step_signal" \notin env'.events
              PROVE  BasesInv'
  BY DEF BasesInv
<1>0. file \in Config /\ segConfig \in Config /\ pc \in PCs
  BY DEF TypeOK
<1>1. NoConfig.existingConfig = FALSE
  BY DEF NoConfig
<1>2. dataSegSize \in Nat /\ TextSegSize \in Nat /\ {"text", "data"} \subseteq Owner
  BY EnvFacts DEF TypeOK, Owner
<1>3. ASSUME NEW removeMappings \in BOOLEAN, NEW size \in env.sizes,
             createSegmentConfigFile(removeMappings, size)
      PROVE  BasesInv'
  BY <1>0, <1>3 DEF createSegmentConfigFile, BasesInv, PCs
<1>4. CASE unmapText
  BY <1>0, <1>4 DEF unmapText, Exit, BasesInv, PCs
<1>5. CASE unmapData
  BY <1>0, <1>5 DEF unmapData, BasesInv, PCs
<1>6. CASE deleteSegmentConfig
  BY <1>0, <1>1, <1>6 DEF deleteSegmentConfig, Exit, BasesInv, PCs
<1>7. CASE segmentInitExisting
  BY <1>0, <1>7 DEF segmentInitExisting, BasesInv, ConfigInv, PCs
<1>8. CASE segmentInitResize
  BY <1>0, <1>1, <1>8 DEF segmentInitResize, ConfigInv
<1>9. CASE setupText
  <2>1. CASE mmapFails /\ Exit
    BY <1>0, <1>9, <2>1 DEF setupText, Exit, BasesInv, PCs
  <2>2. ASSUME NEW base \in Page, mmap(TextSegSize, "text", base),
               segConfig' = [segConfig EXCEPT !.textSegBase = base],
               pc' = "initData"
        PROVE  BasesInv'
    <3>1. env' = env
      BY <1>9 DEF setupText
    <3>2. base # 0
      BY <1>2, <2>2, <3>1, MmapEffect
    <3>3. segConfig'.textSegBase = base
      BY <1>0, <2>2 DEF Config
    <3>. QED  BY <1>9, <2>2, <3>2, <3>3 DEF setupText, BasesInv
  <2>. QED  BY <1>9, <2>1, <2>2 DEF setupText
<1>10. CASE setupData
  <2>1. CASE mmapFails /\ Exit
    BY <1>0, <1>10, <2>1 DEF setupData, Exit, BasesInv, PCs
  <2>2. ASSUME NEW base \in Page, mmap(dataSegSize, "data", base),
               segConfig' = [segConfig EXCEPT !.dataSegBase = base,
                                              !.dataSegSize = dataSegSize],
               pc' = "write"
        PROVE  BasesInv'
    <3>1. env' = env
      BY <1>10 DEF setupData
    <3>2. base # 0
      BY <1>2, <2>2, <3>1, MmapEffect
    <3>3. /\ segConfig'.dataSegBase = base
          /\ segConfig'.textSegBase = segConfig.textSegBase
      BY <1>0, <2>2 DEF Config
    <3>. QED  BY <1>10, <2>2, <3>2, <3>3 DEF setupData, BasesInv
  <2>. QED  BY <1>10, <2>1, <2>2 DEF setupData
<1>11. CASE writeConfig
  <2>1. /\ segConfig'.textSegBase = segConfig.textSegBase
        /\ segConfig'.dataSegBase = segConfig.dataSegBase
    BY <1>0, <1>11 DEF writeConfig, Config
  <2>. QED  BY <1>0, <1>11, <2>1 DEF writeConfig, BasesInv, PCs
<1>12. CASE Finish
  BY <1>0, <1>12 DEF Finish, Exit, BasesInv, PCs
<1>13. CASE Killed
  BY <1>0, <1>13 DEF Killed, Exit, BasesInv, PCs
<1>14. ASSUME NEW q \in Page, TargetMmap(q) \/ TargetMunmap(q)
       PROVE  BasesInv'
  BY <1>14 DEF TargetMmap, TargetMunmap, BasesInv
<1>15. CASE Exec
  BY <1>15 DEF Exec, BasesInv
<1>16. CASE UNCHANGED vars
  BY <1>16 DEF vars, BasesInv
<1>. QED
  BY <1>3, <1>4, <1>5, <1>6, <1>7, <1>8, <1>9, <1>10, <1>11, <1>12, <1>13,
     <1>14, <1>15, <1>16 DEF Next

\* Segments stay oid's in a step that keeps their pages.
LEMMA FileOwnedKept ==
  ASSUME env' = env, file' = file,
         \A q \in Page : owner[q] \in {"text", "data"} => owner'[q] = owner[q]
  PROVE  (TextOwned(file) => TextOwned(file)') /\ (DataOwned(file) => DataOwned(file)')
BY DEF TextOwned, DataOwned, Page

\* The same of the segments in oid's copy.
LEMMA CopyOwnedKept ==
  ASSUME env' = env,
         \A q \in Page : owner[q] \in {"text", "data"} => owner'[q] = owner[q]
  PROVE  /\ segConfig'.textSegBase = segConfig.textSegBase /\ TextOwned(segConfig)
            => TextOwned(segConfig)'
         /\ segConfig'.dataSegBase = segConfig.dataSegBase /\ DataOwned(segConfig)
            => DataOwned(segConfig)'
BY DEF TextOwned, DataOwned, Page

\* Each step leaves the segments that the file and oid's copy name mapped, until
\* -r unmaps them; what it unmaps then is nothing else.
LEMMA OwnedStep ==
  TypeOK /\ ConfigInv /\ OwnedInv /\ [Next]_vars => OwnedInv'
<1>. SUFFICES ASSUME TypeOK, ConfigInv, OwnedInv, [Next]_vars,
                     env'.events \cap {"exec", "kill_remove"} = {}
              PROVE  OwnedInv'
  BY DEF OwnedInv
<1>0. file \in Config /\ segConfig \in Config /\ pc \in PCs
  BY DEF TypeOK
<1>1. NoConfig.existingConfig = FALSE
  BY DEF NoConfig
<1>2. /\ dataSegSize = DefaultSize /\ DefaultSize \in Nat /\ TextSegSize \in Nat
      /\ {"text", "data"} \subseteq Owner
  BY EnvFacts DEF ConfigInv, Owner
<1>3. /\ file.textSegBase \in Page /\ file.dataSegBase \in Page
  BY <1>0 DEF Config
<1>4. ASSUME NEW removeMappings \in BOOLEAN, NEW size \in env.sizes,
             createSegmentConfigFile(removeMappings, size)
      PROVE  OwnedInv'
  <2>1. /\ env' = env /\ file' = file /\ UNCHANGED owner
        /\ pc = "idle" /\ pc' \in {"remove", "init"}
    BY <1>4 DEF createSegmentConfigFile
  <2>2. file.existingConfig => TextOwned(file)' /\ DataOwned(file)'
    BY <2>1, FileOwnedKept DEF OwnedInv
  <2>. QED  BY <2>1, <2>2 DEF OwnedInv
<1>5. CASE unmapText
  <2>1. env' = env /\ file' = file /\ segConfig = file /\ pc = "remove"
    BY <1>5 DEF unmapText, ConfigInv
  <2>2. CASE Exit /\ UNCHANGED owner
    BY <2>1, <2>2, FileOwnedKept DEF Exit, OwnedInv
  <2>3. CASE file.existingConfig /\ munmap(file.textSegBase, TextSegSize)
             /\ pc' = "removeData"
    <3>1. TextOwned(file) /\ DataOwned(file)
      BY <2>1, <2>3 DEF OwnedInv
    <3>2. ASSUME NEW q \in Page, owner[q] = "data"
          PROVE  owner'[q] = owner[q]
      BY <1>2, <1>3, <2>3, <3>1, <3>2, MunmapEffect DEF TextOwned
    <3>3. DataOwned(file)'
      BY <2>1, <3>1, <3>2 DEF DataOwned, Page
    <3>. QED  BY <2>1, <2>3, <3>3 DEF OwnedInv
  <2>4. CASE pc' = "removeConfig"
    BY <2>1, <2>4 DEF OwnedInv
  <2>. QED  BY <1>5, <2>1, <2>2, <2>3, <2>4 DEF unmapText
<1>6. CASE unmapData
  BY <1>6 DEF unmapData, OwnedInv
<1>7. CASE deleteSegmentConfig
  BY <1>1, <1>7 DEF deleteSegmentConfig, Exit, OwnedInv
<1>8. CASE segmentInitExisting
  <2>1. env' = env /\ file' = file /\ segConfig' = file /\ UNCHANGED owner
        /\ pc = "init" /\ pc' = "ready" /\ file.existingConfig
    BY <1>8 DEF segmentInitExisting, ConfigInv
  <2>2. TextOwned(file)' /\ DataOwned(file)'
    BY <2>1, FileOwnedKept DEF OwnedInv
  <2>3. TextOwned(segConfig)' /\ DataOwned(segConfig)'
    BY <2>1, <2>2 DEF TextOwned, DataOwned
  <2>. QED  BY <2>1, <2>2, <2>3 DEF OwnedInv
<1>9. CASE segmentInitResize
  BY <1>0, <1>1, <1>9 DEF segmentInitResize, ConfigInv
<1>10. CASE setupText
  <2>0. env' = env /\ file' = file /\ pc = "init" /\ ~file.existingConfig
    BY <1>10 DEF setupText, ConfigInv
  <2>1. CASE mmapFails /\ Exit
    BY <2>0, <2>1 DEF Exit, OwnedInv
  <2>2. ASSUME NEW base \in Page, mmap(TextSegSize, "text", base),
               segConfig' = [segConfig EXCEPT !.textSegBase = base],
               pc' = "initData"
        PROVE  OwnedInv'
    <3>1. segConfig'.textSegBase = base
      BY <1>0, <2>2 DEF Config
    <3>2. TextOwned(segConfig)'
      BY <1>2, <2>0, <2>2, <3>1, MmapEffect DEF TextOwned, Page
    <3>. QED  BY <2>0, <2>2, <3>2 DEF OwnedInv
  <2>. QED  BY <1>10, <2>1, <2>2 DEF setupText
<1>11. CASE setupData
  <2>0. env' = env /\ file' = file /\ pc = "initData" /\ ~file.existingConfig
    BY <1>1, <1>11 DEF setupData, ConfigInv
  <2>1. CASE mmapFails /\ Exit
    BY <2>0, <2>1 DEF Exit, OwnedInv
  <2>2. ASSUME NEW base \in Page, mmap(dataSegSize, "data", base),
               segConfig' = [segConfig EXCEPT !.dataSegBase = base,
                                              !.dataSegSize = dataSegSize],
               pc' = "write"
        PROVE  OwnedInv'
    <3>1. /\ segConfig'.dataSegBase = base
          /\ segConfig'.textSegBase = segConfig.textSegBase
      BY <1>0, <2>2 DEF Config
    <3>2. DataOwned(segConfig)'
      BY <1>2, <2>0, <2>2, <3>1, MmapEffect DEF DataOwned, Page
    <3>3. \A q \in Page : owner[q] \in {"text", "data"} => owner'[q] = owner[q]
      BY <1>2, <2>2, MmapEffect
    <3>4. TextOwned(segConfig)'
      BY <2>0, <3>1, <3>3, CopyOwnedKept DEF OwnedInv
    <3>. QED  BY <2>0, <2>2, <3>2, <3>4 DEF OwnedInv
  <2>. QED  BY <1>11, <2>1, <2>2 DEF setupData
<1>12. CASE writeConfig
  <2>0. env' = env /\ UNCHANGED owner /\ pc = "write" /\ pc' = "ready"
        /\ ~file.existingConfig
    BY <1>1, <1>12 DEF writeConfig, ConfigInv
  <2>1. /\ segConfig'.textSegBase = segConfig.textSegBase
        /\ segConfig'.dataSegBase = segConfig.dataSegBase
    BY <1>0, <1>12 DEF writeConfig, Config
  <2>2. TextOwned(segConfig)' /\ DataOwned(segConfig)'
    BY <2>0, <2>1, CopyOwnedKept DEF OwnedInv
  <2>3. file' = segConfig' \/ file' = file
    BY <1>12 DEF writeConfig
  <2>4. file'.existingConfig => TextOwned(file)' /\ DataOwned(file)'
    BY <2>0, <2>2, <2>3 DEF TextOwned, DataOwned
  <2>. QED  BY <2>0, <2>2, <2>4 DEF OwnedInv
<1>13. ASSUME Finish \/ Killed
       PROVE  OwnedInv'
  <2>1. env' = env /\ file' = file /\ UNCHANGED owner /\ pc' = "idle"
        /\ pc \notin {"removeData", "removeConfig"}
    BY <1>13 DEF Finish, Killed, Exit
  <2>2. file.existingConfig => TextOwned(file)' /\ DataOwned(file)'
    BY <2>1, FileOwnedKept DEF OwnedInv
  <2>. QED  BY <2>1, <2>2 DEF OwnedInv
<1>14. ASSUME NEW q \in Page, TargetMmap(q) \/ TargetMunmap(q)
       PROVE  OwnedInv'
  <2>1. env' = env /\ file' = file /\ segConfig' = segConfig /\ pc' = pc
    BY <1>14 DEF TargetMmap, TargetMunmap
  <2>2. \A p \in Page : owner[p] \in {"text", "data"} => owner'[p] = owner[p]
    BY <1>14 DEF TargetMmap, TargetMunmap, TypeOK
  <2>. QED  BY <2>1, <2>2, FileOwnedKept, CopyOwnedKept DEF OwnedInv
<1>15. CASE Exec
  BY <1>15 DEF Exec
<1>16. CASE UNCHANGED vars
  BY <1>16, FileOwnedKept, CopyOwnedKept DEF vars, OwnedInv
<1>. QED
  BY <1>4, <1>5, <1>6, <1>7, <1>8, <1>9, <1>10, <1>11, <1>12, <1>13, <1>14,
     <1>15, <1>16 DEF Next

\* Each step accounts for the pages that are oid's.
LEMMA LeakStep ==
  TypeOK /\ ConfigInv /\ BasesInv /\ LeakInv /\ [Next]_vars => LeakInv'
<1>. SUFFICES ASSUME TypeOK, ConfigInv, BasesInv, LeakInv, [Next]_vars,
                     env'.events \subseteq {"exec", "kill_remove"},
                     NEW q \in Page', owner'[q] \in {"text", "data"}
              PROVE  (/\ pc = "initData" => q \in pages(segConfig.textSegBase, TextSegSize)
                      /\ pc = "write" => q \in segments(segConfig)
                      /\ pc = "removeData" => q \in pages(file.dataSegBase, DefaultSize)
                      /\ pc # "removeConfig"
                      /\ pc \notin {"initData", "write"} =>
                           file.existingConfig /\ q \in segments(file))'
  BY DEF LeakInv
<1>0. file \in Config /\ segConfig \in Config /\ pc \in PCs
  BY DEF TypeOK
<1>1. NoConfig.existingConfig = FALSE
  BY DEF NoConfig
<1>2. /\ dataSegSize = DefaultSize /\ DefaultSize \in Nat /\ TextSegSize \in Nat
      /\ {"text", "data"} \subseteq Owner
  BY EnvFacts DEF ConfigInv, Owner
<1>3. /\ file.textSegBase \in Page /\ file.dataSegBase \in Page
  BY <1>0 DEF Config
<1>4. env' = env
  BY DEF Next, createSegmentConfigFile, unmapText, unmapData, deleteSegmentConfig,
         segmentInitExisting, segmentInitResize, setupText, setupData, writeConfig,
         Finish, Killed, TargetMmap, TargetMunmap, Exec, vars
<1>5. q \in Page /\ "step_signal" \notin env.events /\ "munmap_fail" \notin env.events
      /\ "write_fail" \notin env.events /\ "mmap_fail" \notin env.events
      /\ "kill_init" \notin env.events
  BY <1>4 DEF Page
<1>6. owner[q] \in {"text", "data"} =>
        /\ pc = "initData" => q \in pages(segConfig.textSegBase, TextSegSize)
        /\ pc = "write" => q \in segments(segConfig)
        /\ pc = "removeData" => q \in pages(file.dataSegBase, DefaultSize)
        /\ pc # "removeConfig"
        /\ pc \notin {"initData", "write"} =>
             file.existingConfig /\ q \in segments(file)
  BY <1>4, <1>5 DEF LeakInv
<1>7. file.existingConfig =>
        /\ file.dataSegSize = DefaultSize
        /\ file.textSegBase # 0 /\ file.dataSegBase # 0
  BY <1>1, <1>5 DEF ConfigInv, BasesInv
<1>8. ASSUME NEW removeMappings \in BOOLEAN, NEW size \in env.sizes,
             createSegmentConfigFile(removeMappings, size)
      PROVE  file.existingConfig /\ q \in segments(file)
             /\ file' = file /\ pc' \in {"remove", "init"}
  BY <1>6, <1>8 DEF createSegmentConfigFile
<1>9. CASE unmapText
  <2>1. file' = file /\ segConfig = file /\ pc = "remove"
    BY <1>9 DEF unmapText, ConfigInv
  <2>2. CASE ~file.existingConfig
    BY <1>6, <1>9, <2>1, <2>2 DEF unmapText
  <2>3. CASE file.existingConfig
    <3>1. munmap(file.textSegBase, TextSegSize) /\ pc' = "removeData"
      BY <1>5, <1>7, <1>9, <2>1, <2>3 DEF unmapText, munmapFails
    <3>2. owner'[q] = owner[q] /\ q \notin pages(file.textSegBase, TextSegSize)
      BY <1>2, <1>3, <1>5, <3>1, MunmapEffect
    <3>3. q \in segments(file)
      BY <1>6, <2>1, <3>2
    <3>. QED  BY <1>7, <2>1, <2>3, <3>1, <3>2, <3>3 DEF segments
  <2>. QED  BY <2>2, <2>3
<1>10. CASE unmapData
  <2>1. segConfig = file /\ pc = "removeData" /\ file.existingConfig
    BY <1>10 DEF unmapData, ConfigInv
  <2>2. munmap(file.dataSegBase, DefaultSize)
    BY <1>2, <1>5, <1>7, <1>10, <2>1 DEF unmapData, munmapFails
  <2>3. owner'[q] = owner[q] /\ q \notin pages(file.dataSegBase, DefaultSize)
    BY <1>2, <1>3, <1>5, <2>2, MunmapEffect
  <2>. QED  BY <1>6, <2>1, <2>3
<1>11. CASE deleteSegmentConfig
  BY <1>6, <1>11 DEF deleteSegmentConfig
<1>12. CASE segmentInitExisting
  BY <1>6, <1>12 DEF segmentInitExisting
<1>13. CASE segmentInitResize
  BY <1>0, <1>1, <1>13 DEF segmentInitResize, ConfigInv
<1>14. CASE setupText
  <2>1. pc = "init" /\ ~file.existingConfig
    BY <1>14 DEF setupText, ConfigInv
  <2>2. PICK base \in Page :
          /\ mmap(TextSegSize, "text", base)
          /\ segConfig' = [segConfig EXCEPT !.textSegBase = base]
          /\ pc' = "initData"
    BY <1>5, <1>14 DEF setupText, mmapFails
  <2>3. segConfig'.textSegBase = base
    BY <1>0, <2>2 DEF Config
  <2>4. owner[q] \notin {"text", "data"}
    BY <1>6, <2>1
  <2>5. q \in pages(base, TextSegSize)
    BY <1>2, <1>5, <2>2, <2>4, MmapEffect
  <2>. QED  BY <2>2, <2>3, <2>5 DEF pages
<1>15. CASE setupData
  <2>1. pc = "initData"
    BY <1>15 DEF setupData
  <2>2. PICK base \in Page :
          /\ mmap(dataSegSize, "data", base)
          /\ segConfig' = [segConfig EXCEPT !.dataSegBase = base,
                                            !.dataSegSize = dataSegSize]
          /\ pc' = "write"
    BY <1>5, <1>15 DEF setupData, mmapFails
  <2>3. /\ segConfig'.dataSegBase = base /\ segConfig'.dataSegSize = dataSegSize
        /\ segConfig'.textSegBase = segConfig.textSegBase
    BY <1>0, <2>2 DEF Config
  <2>4. \/ q \in pages(base, dataSegSize)
        \/ q \in pages(segConfig.textSegBase, TextSegSize)
    BY <1>2, <1>5, <1>6, <2>1, <2>2, MmapEffect
  <2>. QED  BY <2>2, <2>3, <2>4 DEF pages, segments
<1>16. CASE writeConfig
  <2>1. /\ segConfig'.textSegBase = segConfig.textSegBase
        /\ segConfig'.dataSegBase = segConfig.dataSegBase
        /\ segConfig'.dataSegSize = segConfig.dataSegSize
        /\ segConfig'.existingConfig
    BY <1>0, <1>16 DEF writeConfig, Config
  <2>2. file' = segConfig' /\ pc = "write" /\ pc' = "ready" /\ owner'[q] = owner[q]
    BY <1>5, <1>16 DEF writeConfig
  <2>3. q \in segments(segConfig)
    BY <1>6, <2>2
  <2>. QED  BY <2>1, <2>2, <2>3 DEF segments, pages
<1>17. ASSUME Finish \/ Killed
       PROVE  file' = file /\ pc' = "idle" /\ file.existingConfig /\ q \in segments(file)
  BY <1>5, <1>6, <1>17 DEF Finish, Killed, Exit
<1>18. ASSUME NEW p \in Page, TargetMmap(p) \/ TargetMunmap(p)
       PROVE  UNCHANGED <<file, segConfig, pc>> /\ owner'[q] = owner[q]
  BY <1>5, <1>18 DEF TargetMmap, TargetMunmap, TypeOK
<1>19. CASE Exec
  BY <1>5, <1>19 DEF Exec
<1>20. CASE UNCHANGED vars
  BY <1>6, <1>20 DEF vars, segments, pages
<1>21. file' = file => (q \in segments(file))' = (q \in segments(file))
  BY DEF segments, pages
<1>. QED
  BY <1>6, <1>8, <1>9, <1>10, <1>11, <1>12, <1>13, <1>14, <1>15, <1>16, <1>17,
     <1>18, <1>19, <1>20, <1>21 DEF Next, segments, pages

\* Init, when all sizes are the same, and every step establish the invariant.
LEMMA Invariance == Spec /\ SameSize => [](TypeOK /\ IndInv)
<1>1. Init /\ SameSize => IndInv
  <2>. SUFFICES ASSUME Init, SameSize
                PROVE  IndInv
    OBVIOUS
  <2>1. NoConfig.existingConfig = FALSE
    BY DEF NoConfig
  <2>2. ConfigInv
    BY DEF Init, ConfigInv, DefaultSize
  <2>3. BasesInv /\ OwnedInv
    BY <2>1 DEF Init, BasesInv, OwnedInv
  <2>4. LeakInv
    BY DEF Init, LeakInv
  <2>. QED  BY <2>2, <2>3, <2>4 DEF IndInv
<1>2. TypeOK /\ IndInv /\ [Next]_vars => IndInv'
  BY ConfigStep, BasesStep, OwnedStep, LeakStep DEF IndInv
<1>. QED  BY <1>1, <1>2, TypeCorrect, TypeStep, PTL DEF Spec

-----------------------------------------------------------------------------
(***************************************************************************)
(* The theorems                                                            *)
(***************************************************************************)

\* compileCode and the JIT'd code write to oid's own segments only, whichever
\* run mapped them, after any number of runs, failed calls and kills in between.
THEOREM OwnSegments == Spec /\ SameSize => []WritesOwnSegments
<1>1. TypeOK /\ IndInv => WritesOwnSegments
  <2>. SUFFICES ASSUME TypeOK, IndInv, pc = "ready",
                       env.events \cap {"exec", "step_signal", "kill_remove"} = {}
                PROVE  /\ \A q \in pages(segConfig.textSegBase, TextSegSize) \cap Page :
                            owner[q] = "text"
                       /\ \A q \in pages(segConfig.dataSegBase, dataSegSize) \cap Page :
                            owner[q] = "data"
    BY DEF WritesOwnSegments
  <2>1. TextOwned(segConfig) /\ DataOwned(segConfig)
    BY DEF IndInv, OwnedInv
  <2>2. segConfig.textSegBase # 0 /\ segConfig.dataSegBase # 0
    BY DEF IndInv, BasesInv
  <2>3. dataSegSize = DefaultSize
    BY DEF IndInv, ConfigInv
  <2>. QED  BY <2>1, <2>2, <2>3 DEF TextOwned, DataOwned
<1>. QED  BY <1>1, Invariance, PTL

\* Between runs the config file names every page that oid has mapped, so that -r
\* removes all of them; also when oid was killed during an earlier -r.
THEOREM NothingLeaks == Spec /\ SameSize => []NoLeak
<1>1. TypeOK /\ IndInv => NoLeak
  BY DEF IndInv, LeakInv, NoLeak
<1>. QED  BY <1>1, Invariance, PTL

\* No munmap of oid, of -r or for a resize, takes a page from the target: also
\* when a call fails, oid is killed while it sets up, or a signal makes it take the
\* number of a system call for an address.
THEOREM NoTargetPageUnmapped == Spec /\ SameSize => TargetUntouched
<1>1. TypeOK /\ IndInv /\ [Next]_vars =>
        (pc' # pc /\ env.events \cap {"exec", "kill_remove"} = {} =>
           \A q \in Page : owner[q] = "target" => owner'[q] = "target")
  <2>. SUFFICES ASSUME TypeOK, IndInv, [Next]_vars, pc' # pc,
                       env.events \cap {"exec", "kill_remove"} = {},
                       NEW q \in Page, owner[q] = "target"
                PROVE  owner'[q] = "target"
    OBVIOUS
  <2>0. /\ segConfig \in Config /\ dataSegSize = DefaultSize
        /\ DefaultSize \in Nat /\ TextSegSize \in Nat
        /\ {"text", "data"} \subseteq Owner
    BY EnvFacts DEF TypeOK, IndInv, ConfigInv, Owner
  <2>1. segConfig.textSegBase \in Page /\ segConfig.dataSegBase \in Page
    BY <2>0 DEF Config
  <2>2. CASE unmapText
    <3>1. pc = "remove" /\ segConfig = file
      BY <2>2 DEF unmapText, IndInv, ConfigInv
    <3>2. CASE UNCHANGED owner
      BY <3>2
    <3>3. CASE file.existingConfig /\ munmap(file.textSegBase, TextSegSize)
      <4>1. TextOwned(file)
        BY <3>1, <3>3 DEF IndInv, OwnedInv
      <4>2. file.textSegBase = 0 \/ q \notin pages(file.textSegBase, TextSegSize)
        BY <4>1 DEF TextOwned
      <4>. QED  BY <2>0, <2>1, <3>1, <3>3, <4>2, MunmapEffect
    <3>. QED  BY <2>2, <3>1, <3>2, <3>3 DEF unmapText, munmapFails
  <2>3. CASE unmapData
    <3>1. pc = "removeData" /\ segConfig = file /\ file.existingConfig
      BY <2>3 DEF unmapData, IndInv, ConfigInv
    <3>2. CASE UNCHANGED owner
      BY <3>2
    <3>3. CASE munmap(file.dataSegBase, DefaultSize)
      <4>1. DataOwned(file)
        BY <3>1 DEF IndInv, OwnedInv
      <4>2. file.dataSegBase = 0 \/ q \notin pages(file.dataSegBase, DefaultSize)
        BY <4>1 DEF DataOwned
      <4>. QED  BY <2>0, <2>1, <3>1, <3>3, <4>2, MunmapEffect
    <3>. QED  BY <2>0, <2>3, <3>1, <3>2, <3>3 DEF unmapData, munmapFails
  <2>4. CASE segmentInitResize
    <3>1. NoConfig.existingConfig = FALSE
      BY DEF NoConfig
    <3>. QED  BY <2>4, <3>1 DEF segmentInitResize, IndInv, ConfigInv
  <2>5. CASE setupText
    BY <2>0, <2>5, MmapEffect DEF setupText, mmapFails
  <2>6. CASE setupData
    BY <2>0, <2>6, MmapEffect DEF setupData, mmapFails
  <2>. QED
    BY <2>2, <2>3, <2>4, <2>5, <2>6
      DEF Next, createSegmentConfigFile, deleteSegmentConfig, segmentInitExisting,
          writeConfig, Finish, Killed, TargetMmap, TargetMunmap, Exec, vars
<1>. QED  BY <1>1, Invariance, PTL DEF Spec, TargetUntouched

=============================================================================
