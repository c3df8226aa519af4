------------------------------ MODULE Session ------------------------------
(***************************************************************************)
(* Runs of oid, one after the other and two at a time, from the command    *)
(* line to the exit status.  Each debugger is run on a process of its own; *)
(* all processes execute the same program, which may be built anew, and    *)
(* all runs that are given -o share the cache directory.  A run can be     *)
(* killed between any two steps and leaves its files behind.               *)
(*                                                                         *)
(* The segments are SegConfig's, the probe itself is OIDebugger's, the     *)
(* data segment DataSegment's and the type hierarchy Introspection's; here *)
(* they are one step or none.                                              *)
(***************************************************************************)
EXTENDS Features, OICompiler

CONSTANTS
  Debuggers,
  LastFd,     \* the descriptors of a target are 0 .. LastFd
  Envs        \* a set of records of what is the case in a behaviour:
              \*   programs:    build -> program
              \*   objects:     build -> name of a type -> the object file for it
              \*   weak:        the symbols that may stay unresolved
              \*   invocations: command lines, sequences of [opt, arg]
              \*   debuggers:   those that are run
              \*   events:      what may happen, together

Events == {"kill", "rebuild", "compile_fail", "store_fail", "log_fail", "open", "stop"}

ASSUME SessionAssumption ==
  /\ LastFd \in Nat
  /\ \A e \in Envs :
       /\ e.events \subseteq Events /\ e.debuggers \subseteq Debuggers
       /\ \A options \in e.invocations : Len(options) \in Nat
       /\ \A b \in {1, 2} :
            /\ WellFormed(e.programs[b])
            /\ \A type \in codeTypes(e.programs[b]) : type.name \in DOMAIN e.objects[b]
       /\ "rebuild" \in e.events /\ locateBuildID(e.programs[1]) # NoBuildId
            => locateBuildID(e.programs[1]) # locateBuildID(e.programs[2])

VARIABLES
  env,   \* the environment of this behaviour; no action changes it
  build, \* which build of the program a new process executes
  disk,  \* path -> contents; a path is <<directory, name, extension>>
  fds,   \* the descriptors of each debugger's target: "free", "app" or "log"
  oid    \* the state of each run of oid

vars == <<env, build, disk, fds, oid>>

\* A map: merge and emplace keep what is there, the assignment m[key] = value
\* does not.
merge(m, other) ==
  [x \in DOMAIN m \cup DOMAIN other |-> IF x \in DOMAIN m THEN m[x] ELSE other[x]]
assign(m, key, value) ==
  [x \in DOMAIN m \cup {key} |-> IF x = key THEN value ELSE m[x]]

(***************************************************************************)
(* The command line                                                        *)
(***************************************************************************)

\* A script is its probes, prequests [type, func, args]; an unreadable one has
\* none.
NoScript == [given |-> FALSE, reqs |-> <<>>]

\* What main takes for -r without a script: entry:unknown_function:arg0.
DummyScript ==
  [given |-> TRUE,
   reqs |-> <<[type |-> "entry", func |-> "unknown_function", args |-> <<[n |-> 0]>>]>>]

DefaultConfig ==
  [status |-> "Success", cacheBasePath |-> "", cacheRemoteUpload |-> FALSE,
   cacheRemoteDownload |-> FALSE, hardDisableDrgn |-> FALSE, pid |-> FALSE,
   debugInfoFile |-> FALSE, attachToProcess |-> TRUE, compAndExit |-> FALSE,
   removeMappings |-> FALSE, configFiles |-> {}, script |-> NoScript,
   customCode |-> FALSE,
   features |-> [f \in {"PackStructs", "GenPaddingStats", "TypeGraph",
                        "PruneTypeGraph"} |-> TRUE]]

\* One turn of the getopt loop.  A file that is named is a set of its contents,
\* empty if it does not exist.  -d, -a, -B, -t and -J change nothing modelled
\* here, -s is like -S.  Help: the usage is shown, and main returns Success.
parseOption(c, o) ==
  LET usage == [c EXCEPT !.status = "UsageError"]
      noFile == [c EXCEPT !.status = "FileNotFoundError"]
  IN
  IF c.status # "Success" THEN c ELSE
  CASE o.opt \in {"f", "F"} ->
         IF o.arg \notin Feature THEN usage
         ELSE [c EXCEPT !.features = assign(@, o.arg, o.opt = "f")]
    [] o.opt = "m" ->
         IF o.arg = "prod"
           THEN [c EXCEPT !.hardDisableDrgn = TRUE, !.cacheRemoteDownload = TRUE,
                          !.cacheBasePath = "/tmp/oid-cache",
                          !.features = assign(@, "ChaseRawPointers", TRUE)]
         ELSE IF o.arg = "strict" THEN c ELSE usage
    [] o.opt = "x" -> IF o.arg <= 0 THEN usage ELSE c
    [] o.opt = "p" -> [c EXCEPT !.pid = TRUE]
    [] o.opt = "k" -> IF o.arg = {} THEN noFile ELSE [c EXCEPT !.customCode = TRUE]
    [] o.opt = "e" -> [c EXCEPT !.compAndExit = TRUE]
    [] o.opt = "c" -> IF o.arg = {} THEN noFile
                      ELSE [c EXCEPT !.configFiles = @ \cup o.arg]
    [] o.opt = "i" -> IF o.arg = {} THEN noFile
                      ELSE [c EXCEPT !.debugInfoFile = TRUE, !.compAndExit = TRUE,
                                     !.attachToProcess = FALSE]
    [] o.opt = "o" -> [c EXCEPT !.cacheBasePath = o.arg]
    [] o.opt = "u" ->
         IF o.arg \notin {"both", "upload", "download"} THEN usage
         ELSE [c EXCEPT
                 !.cacheRemoteUpload = @ \/ o.arg \in {"both", "upload"},
                 !.cacheRemoteDownload = @ \/ o.arg \in {"both", "download"}]
    [] o.opt = "r" -> [c EXCEPT !.removeMappings = TRUE]
    [] o.opt = "S" -> [c EXCEPT !.script = o.arg]
    [] o.opt \in {"d", "a", "B", "t", "J"} -> c
    [] OTHER -> [c EXCEPT !.status = "Help"]

\* What main makes of the options, with generatorConfig once it is known.
Config(options) ==
  LET parsed[n \in 0 .. Len(options)] ==
        IF n = 0 THEN DefaultConfig ELSE parseOption(parsed[n - 1], options[n])
      c == parsed[Len(options)]
      g == processConfigFiles(c.configFiles, c.features)
      bad == [c EXCEPT !.status = "UsageError"]
  IN CASE c.status # "Success" -> c
       [] c.status = "Success" /\ c.pid = c.debugInfoFile -> bad
       [] c.status = "Success" /\ c.pid # c.debugInfoFile ->
            IF (~c.removeMappings /\ ~c.script.given) \/ g = Nullopt THEN bad
            ELSE merge([c EXCEPT !.script = IF @.given THEN @ ELSE DummyScript],
                       [generatorConfig |-> g])

(***************************************************************************)
(* One run of oid.  The fields of oid[d]:                                  *)
(*   pc:     where runScript and compileCode are                           *)
(*   config: see Config                                                    *)
(*   build:  the build the target executes                                 *)
(*   status: the exit status, once pc is "done"                            *)
(*   arg:    the argument compileCode is at, counted from 1                *)
(*   funcDescs, globalDescs: the members of the symbol service             *)
(*   typeInfos: request -> what the data will be decoded with              *)
(*   objectFiles: the paths of the object files                            *)
(*   doCompile, entity, th: local state between two steps                  *)
(*   image:  what was written to the text segment                          *)
(*   logFd:  logFds.traceeFd                                               *)
(*   threads: the threads restoreState has not detached yet                *)
(*   stops:  what each of them does while it has not had its turn          *)
(*   interrupted: the probe was ended by a signal or the timeout           *)
(*   fault:  a call of this run has failed                                 *)
(***************************************************************************)

NoFd == -1
AllRun == [t \in {"main", "worker"} |-> "runs"]
NoImage == [written |-> FALSE, fatal |-> FALSE, fits |-> TRUE]

Fresh ==
  [pc |-> "idle", config |-> DefaultConfig, build |-> 1, status |-> "Success",
   arg |-> 1, funcDescs |-> <<>>, globalDescs |-> <<>>, typeInfos |-> <<>>,
   objectFiles |-> {}, doCompile |-> FALSE, entity |-> "", th |-> Null,
   image |-> NoImage, logFd |-> NoFd, threads |-> <<>>,
   stops |-> AllRun, interrupted |-> FALSE, fault |-> FALSE]

Init ==
  /\ env \in Envs
  /\ build = 1
  /\ disk = <<>>
  /\ fds = [d \in Debuggers |-> [n \in 0 .. LastFd |-> "free"]]
  /\ oid = [d \in Debuggers |-> Fresh]

At(d, pc) == oid[d].pc = pc
Become(d, o) == oid' = [oid EXCEPT ![d] = o]
\* The process is gone; what it was asked to do is kept for the properties.
Exited(d, status) ==
  [Fresh EXCEPT !.pc = "done", !.status = status, !.config = oid[d].config,
                !.build = oid[d].build]
Exit(d, status) == Become(d, Exited(d, status))
Fail(d, status) == Become(d, [Exited(d, status) EXCEPT !.fault = TRUE])

Program(d) == env.programs[oid[d].build]
Attached(d) == oid[d].config.attachToProcess
Drgn(d) == ~oid[d].config.hardDisableDrgn
preq(d) == oid[d].config.script.reqs[1]
argCount(d) == IF preq(d).type = "global" THEN 1 ELSE Len(preq(d).args)
getReqForArg(d, i) ==
  irequest(preq(d).type, preq(d).func,
           IF preq(d).type = "global" THEN NoArg ELSE preq(d).args[i])
req(d) == getReqForArg(d, oid[d].arg)

\* main, up to the call of runScript, and the constructor of OIDebugger.
main(d, options) ==
  /\ oid[d].pc \in {"idle", "done"}
  /\ d \in env.debuggers
  /\ LET c == Config(options) IN
     Become(d, [Fresh EXCEPT !.config = c, !.build = build,
                             !.status = IF c.status = "Help" THEN "Success" ELSE c.status,
                             !.pc = IF c.status = "Success" THEN "script" ELSE "done"])
  /\ UNCHANGED <<env, build, disk, fds>>

(***************************************************************************)
(* OICache.  basePath is empty without -o; the source and the object file  *)
(* are then written to the working directory.                              *)
(***************************************************************************)

isEnabled(d) == oid[d].config.cacheBasePath # ""

descsOf(d) == IF preq(d).type = "global" THEN oid[d].globalDescs ELSE oid[d].funcDescs

targetOf(d) == TargetObject(Program(d), Drgn(d), descsOf(d), req(d), Attached(d))

DescsExt(d) == IF preq(d).type = "global" THEN ".gd" ELSE ".fd"

\* The name is the function's, or that of the type; the hash is left out.
getPath(d, ext) ==
  <<oid[d].config.cacheBasePath,
    IF ext \in {".fd", ".gd"} THEN <<preq(d).func>>
    ELSE <<targetOf(d).typeName.name, targetOf(d).typeName.ptr>>, ext>>

Partial == [partial |-> TRUE]

exists(path) == path \in DOMAIN disk
write(path, contents) == disk' = assign(disk, path, contents)

\* Mutant: the build id is read and not compared.
load_anyBuild(d, ext) ==
  LET path == getPath(d, ext) IN
  IF ~isEnabled(d) \/ ~exists(path) THEN Null
  ELSE IF locateBuildID(Program(d)) = NoBuildId \/ disk[path] = Partial THEN Null
  ELSE disk[path].data

\* Null: nothing to load.  An archive that cannot be read throws, and the
\* exception is caught.
load(d, ext) ==
  LET path == getPath(d, ext)
      id == locateBuildID(Program(d))
  IN IF ~isEnabled(d) \/ ~exists(path) THEN Null
     ELSE IF id = NoBuildId \/ disk[path] = Partial THEN Null
     ELSE IF disk[path].buildId # id THEN Null ELSE disk[path].data

(***************************************************************************)
(* runScript                                                               *)
(***************************************************************************)

validateCache(c) == (c.cacheRemoteUpload \/ c.cacheRemoteDownload) =>
                      c.cacheBasePath # ""

\* Up to segmentInit: the cache options, the script, and -r, whose work is
\* SegConfig's and which may find nothing to remove or fail.  compileCode asserts
\* that there is one probe.
runScript(d) ==
  /\ At(d, "script")
  /\ LET c == oid[d].config IN
     IF ~validateCache(c) THEN Exit(d, "UsageError")
     ELSE IF c.script.reqs = <<>> THEN Exit(d, "ScriptParsingError")
     ELSE IF c.removeMappings /\ Attached(d)
       THEN \E status \in {"Success", "UsageError", "SegmentRemovalError"} :
              Exit(d, status)
     ELSE IF Len(c.script.reqs) > 1 THEN Exit(d, "Aborted")
     ELSE Become(d, [oid[d] EXCEPT !.pc = IF Attached(d) THEN "segments" ELSE "descs"])
  /\ UNCHANGED <<env, build, disk, fds>>

freeFds(d) == {n \in 0 .. LastFd : fds[d][n] = "free"}

\* The end of segmentInit: setupLogFile, which may fail after the file has been
\* created in the target.  The main thread is stopped.
setupLogFile(d) ==
  /\ At(d, "segments")
  /\ IF "JitLogging" \notin oid[d].config.generatorConfig.features
       THEN Become(d, [oid[d] EXCEPT !.pc = "descs"]) /\ UNCHANGED fds
     ELSE IF freeFds(d) = {}
       THEN Fail(d, "SegmentInitError") /\ UNCHANGED fds
       ELSE /\ LET fd == Min(freeFds(d)) IN
               /\ fds' = [fds EXCEPT ![d][fd] = "log"]
               /\ \/ Become(d, [oid[d] EXCEPT !.pc = "descs", !.logFd = fd])
                  \/ "log_fail" \in env.events /\ Fail(d, "SegmentInitError")
  /\ UNCHANGED <<env, build, disk>>

(***************************************************************************)
(* compileCode: for every argument                                         *)
(***************************************************************************)

\* download, in a build without the remote cache; it goes over the arguments of
\* the probe, of which a global has none.
download(d) == oid[d].config.cacheRemoteDownload => preq(d).args = <<>>

\* The paths of all entities need the descriptor of the argument.
Describe(d, descs) ==
  LET global == preq(d).type = "global"
      target == TargetObject(Program(d), Drgn(d), descs, req(d), Attached(d))
      desc == IF global THEN target
              ELSE findFuncDesc(Program(d), Drgn(d), descs, preq(d).func)
      all == assign(descs, preq(d).func, desc)
  IN IF (isEnabled(d) /\ ~download(d)) \/ target = Null
       THEN Exit(d, "CompilationError")
       ELSE Become(d, [oid[d] EXCEPT !.pc = "check",
                         !.funcDescs = IF global THEN @ ELSE all,
                         !.globalDescs = IF global THEN all ELSE @])

\* The descriptors of the cache are merged with those that were looked up.
loadDescs(d) ==
  /\ At(d, "descs")
  /\ LET found == load(d, DescsExt(d)) IN
     Describe(d, IF found = Null THEN descsOf(d) ELSE merge(descsOf(d), found))
  /\ UNCHANGED <<env, build, disk, fds>>

\* emplace keeps what is there, the assignment of CodeGen does not.
emplaced(d, info) == merge(oid[d].typeInfos, [r \in {req(d)} |-> info])
assigned(d, info) == assign(oid[d].typeInfos, req(d), info)

CacheFilesExist(d) == \A ext \in {".o", ".th", ".pd"} : exists(getPath(d, ext))

\* Mutant: a type hierarchy that cannot be loaded ends the run.
checkCache_strict(d) ==
  /\ At(d, "check")
  /\ LET th == load(d, ".th") IN
     IF CacheFilesExist(d) /\ isEnabled(d) /\ th = Null THEN Exit(d, "CompilationError")
     ELSE Become(d, IF CacheFilesExist(d) /\ th # Null
                      THEN [oid[d] EXCEPT !.pc = "padding", !.th = th]
                      ELSE [oid[d] EXCEPT !.pc = "generate"])
  /\ UNCHANGED <<env, build, disk, fds>>

\* skipCodeGen: the three files exist, and the type hierarchy can be loaded
checkCache(d) ==
  /\ At(d, "check")
  /\ LET th == load(d, ".th") IN
     Become(d,
       IF CacheFilesExist(d) /\ th # Null
         THEN [oid[d] EXCEPT !.pc = "padding", !.th = th]
         ELSE [oid[d] EXCEPT !.pc = "generate"])
  /\ UNCHANGED <<env, build, disk, fds>>

\* and the padding information too.
loadPadding(d) ==
  /\ At(d, "padding")
  /\ Become(d,
       IF load(d, ".pd") # Null
         THEN [oid[d] EXCEPT !.pc = "next", !.typeInfos = emplaced(d, oid[d].th),
                             !.th = Null]
         ELSE [oid[d] EXCEPT !.pc = "generate", !.th = Null])
  /\ UNCHANGED <<env, build, disk, fds>>

\* Mutant: an object file is used wherever it is found.
doCompile_ifMissing(d) == ~exists(getPath(d, ".o"))

doCompile(d) == ~isEnabled(d) \/ ~exists(getPath(d, ".o"))

\* Both generators: the type hierarchy is kept, the source file written.
generateCode(d) ==
  /\ At(d, "generate")
  /\ LET root == getRootType(Program(d), Drgn(d), descsOf(d), req(d), Attached(d))
         config == oid[d].config.generatorConfig
         info == [build |-> oid[d].build, root |-> root, config |-> config]
     IN IF root = Null THEN Exit(d, "CompilationError") /\ UNCHANGED disk
        ELSE /\ write(getPath(d, ".cc"), [source |-> TRUE])
             /\ Become(d, [oid[d] EXCEPT
                  !.pc = "compile",
                  !.typeInfos = IF "TypeGraph" \in config.features THEN assigned(d, info)
                                ELSE emplaced(d, info),
                  !.doCompile = doCompile(d)])
  /\ UNCHANGED <<env, build, fds>>

\* Mutant: a compilation that fails leaves a half written object file.
compile_leftover(d) ==
  /\ At(d, "compile")
  /\ oid[d].doCompile
  /\ write(getPath(d, ".o"), Partial)
  /\ Fail(d, "CompilationError")
  /\ UNCHANGED <<env, build, fds>>

\* clang writes a temporary file and renames it, so an object file is complete.
\* What it holds: code for the type of the request, or the code of -k.
compile(d) ==
  /\ At(d, "compile")
  /\ LET next == [oid[d] EXCEPT
                    !.pc = IF isEnabled(d) THEN "store" ELSE "next",
                    !.entity = IF isEnabled(d) THEN DescsExt(d) ELSE "",
                    !.doCompile = FALSE]
         info == oid[d].typeInfos[req(d)]
     IN \/ ~oid[d].doCompile /\ Become(d, next) /\ UNCHANGED disk
        \/ /\ oid[d].doCompile
           /\ write(getPath(d, ".o"),
                    [build |-> info.build, config |-> info.config,
                     type |-> getTypeName(info.root.type),
                     custom |-> oid[d].config.customCode])
           /\ Become(d, next)
        \/ /\ oid[d].doCompile /\ "compile_fail" \in env.events
           /\ Fail(d, "CompilationError") /\ UNCHANGED disk
  /\ UNCHANGED <<env, build, fds>>

afterStore(d, ext) ==
  CASE ext \in {".fd", ".gd"} -> [oid[d] EXCEPT !.entity = ".th"]
    [] ext = ".th" -> [oid[d] EXCEPT !.entity = ".pd"]
    [] ext = ".pd" -> [oid[d] EXCEPT !.pc = "next", !.entity = ""]

\* store: the descriptors, the type hierarchy and the padding information, one
\* after the other.  The stream truncates the file when it is opened, and is
\* not opened without a build id; what store returns is not looked at.
storeOpen(d) ==
  /\ At(d, "store")
  /\ \/ /\ locateBuildID(Program(d)) # NoBuildId
        /\ write(getPath(d, oid[d].entity), Partial)
        /\ Become(d, [oid[d] EXCEPT !.pc = "storing"])
     \/ /\ locateBuildID(Program(d)) = NoBuildId \/ "store_fail" \in env.events
        /\ Become(d, afterStore(d, oid[d].entity))
        /\ UNCHANGED disk
  /\ UNCHANGED <<env, build, fds>>

storeWrite(d) ==
  /\ At(d, "storing")
  /\ LET ext == oid[d].entity
         data == CASE ext \in {".fd", ".gd"} -> descsOf(d)
                   [] ext = ".th" -> oid[d].typeInfos[req(d)]
                   [] ext = ".pd" -> [padding |-> oid[d].build]
     IN /\ write(getPath(d, ext),
                 [buildId |-> locateBuildID(Program(d)), data |-> data])
        /\ Become(d, [afterStore(d, ext) EXCEPT
                        !.pc = IF ext = ".pd" THEN "next" ELSE "store"])
  /\ UNCHANGED <<env, build, fds>>

nextArg(d) ==
  /\ At(d, "next")
  /\ Become(d, [oid[d] EXCEPT
       !.objectFiles = @ \cup {getPath(d, ".o")},
       !.arg = IF @ < argCount(d) THEN @ + 1 ELSE @,
       !.pc = IF oid[d].arg < argCount(d) THEN "descs"
              ELSE IF Attached(d) THEN "link" ELSE "upload"])
  /\ UNCHANGED <<env, build, disk, fds>>

(***************************************************************************)
(* The text segment.  Addresses in it count from its base.                 *)
(***************************************************************************)

textSegSize == 4194304 + 1048576
prologueLength == 64
constLength == 64
replayInstSize == 512
constStart == prologueLength
jitCodeStart == constStart + constLength

syntheticSymbols ==
  [x \in {"dataBase", "dataSize", "cookieValue", "logFile"} |->
     constStart + 8 * CASE x = "dataBase" -> 0 [] x = "dataSize" -> 1
                        [] x = "cookieValue" -> 2 [] x = "logFile" -> 3]

tooLarge(segments) ==
  LET lastSeg == segments[Len(segments)] IN
  lastSeg.RelocAddr + lastSeg.Size > textSegSize

\* Object files, each code for a type and compiled for a build, relocated for the
\* target: their symbols are those of their own build.
relocated(d, files) ==
  applyRelocs(jitCodeStart,
              [i \in DOMAIN files |->
                 merge([defines |-> {files[i].type}],
                       env.objects[files[i].build][files[i].type.name])],
              syntheticSymbols, Program(d), env.weak)

\* Two movabs and a call for every argument.
callSize == 2 + 8 + 2 + 8 + 2

\* The end of compileCode: relocate, write the segments and the constants, and
\* write the prologue, which calls the code for the type of each argument and
\* ends in an INT3.  A third argument is past the end of newInsts.
link(d) ==
  /\ At(d, "link")
  /\ LET o == oid[d]
         paths == SetToSeq(o.objectFiles)
         files == [i \in DOMAIN paths |-> disk[paths[i]]]
         res == relocated(d, files)
         target(i) == TargetObject(Program(d), Drgn(d), descsOf(d),
                                   getReqForArg(d, i), Attached(d)).typeName
         image == [written |-> TRUE, fatal |-> FALSE, fits |-> res.fits,
                   sections |-> res.sections, externals |-> res.externals,
                   code |-> [t \in {f.type : f \in Range(files)} |->
                               CHOOSE f \in Range(files) : f.type = t],
                   calls |-> [i \in 1 .. argCount(d) |-> target(i)],
                   logFile |-> o.logFd]
     IN CASE res.fatal ->
               Become(d, [Exited(d, "Aborted") EXCEPT !.image.fatal = TRUE])
          [] ~res.fatal ->
               IF \/ res.failed \/ tooLarge(res.relocInfos)
                  \/ \E i \in 1 .. argCount(d) : target(i) \notin DOMAIN res.symbols
                 THEN Exit(d, "CompilationError")
               ELSE IF argCount(d) * callSize + 1 > prologueLength
                 THEN Exit(d, "Aborted")
               ELSE Become(d, [o EXCEPT
                      !.pc = IF o.config.compAndExit THEN "upload" ELSE "probe",
                      !.image = image])
  /\ UNCHANGED <<env, build, disk, fds>>

(***************************************************************************)
(* The probe and what follows it                                           *)
(***************************************************************************)

\* Patching, the loop over processTrap and removeTraps.  A global is read by
\* the main thread alone, and threadList stays empty.
probe(d, interrupted) ==
  /\ At(d, "probe")
  /\ \E threads \in IF preq(d).type = "global" THEN {<<>>}
                    ELSE {<<"main", "worker">>, <<"worker", "main">>} :
       Become(d, [oid[d] EXCEPT !.pc = "restore", !.threads = threads,
                                !.stops = AllRun, !.interrupted = interrupted])
  /\ UNCHANGED <<env, build, disk, fds>>

\* Mutant: the system call is made in any thread that is stopped.
remoteClose_anyThread(d, fd) == fds' = [fds EXCEPT ![d][fd] = "free"]

\* The main thread is stopped when it is the thread at hand, and may have stopped
\* earlier.
mainStopped(d) ==
  /\ "main" \in Range(oid[d].threads)
  /\ Head(oid[d].threads) = "main" \/ oid[d].stops["main"] # "runs"

\* remoteSyscall<SysClose>: works only while the main thread is stopped.
remoteClose(d, fd) ==
  fds' = IF mainStopped(d) THEN [fds EXCEPT ![d][fd] = "free"] ELSE fds

\* Called for every thread that is not skipped; the descriptors are not forgotten.
cleanupLogFile(d) ==
  IF oid[d].logFd = NoFd THEN UNCHANGED fds ELSE remoteClose(d, oid[d].logFd)

\* What is left of the main thread's stop once cleanupLogFile has used it: an event
\* is taken by remoteSyscall's waitpid, and not seen again.  At its own turn oid
\* then waits for a stop until a signal ends the wait, and goes on.
stopsAfterClose(d) ==
  IF oid[d].logFd # NoFd /\ mainStopped(d)
    THEN [oid[d].stops EXCEPT !["main"] = IF @ = "event" THEN "stopped" ELSE @]
  ELSE oid[d].stops

\* One turn of restoreState's loop: stop, clean up, detach.  A thread that reports
\* an event, or has come to its end, is skipped before the cleanup.
restoreThread(d) ==
  /\ At(d, "restore")
  /\ \/ /\ oid[d].threads = <<>>
        /\ Become(d, [oid[d] EXCEPT
             !.pc = IF oid[d].interrupted THEN "upload" ELSE "decode"])
        /\ UNCHANGED fds
     \/ /\ oid[d].threads # <<>> /\ oid[d].stops[Head(oid[d].threads)] = "event"
        /\ Become(d, [oid[d] EXCEPT !.threads = Tail(@)])
        /\ UNCHANGED fds
     \/ /\ oid[d].threads # <<>> /\ oid[d].stops[Head(oid[d].threads)] # "event"
        /\ cleanupLogFile(d)
        /\ Become(d, [oid[d] EXCEPT !.threads = Tail(@), !.stops = stopsAfterClose(d)])
  /\ UNCHANGED <<env, build, disk>>

\* processTargetData; that the data may not be decodable is DataSegment's.
processTargetData(d) ==
  /\ At(d, "decode")
  /\ \/ /\ \A i \in 1 .. argCount(d) :
             getReqForArg(d, i) \in DOMAIN oid[d].typeInfos
        /\ Become(d, [oid[d] EXCEPT !.pc = "upload"])
     \/ Fail(d, "ProcessingTargetDataError")
  /\ UNCHANGED <<env, build, disk, fds>>

\* upload, in a build without the remote cache.
uploadCache(d) ==
  /\ At(d, "upload")
  /\ IF oid[d].config.cacheRemoteUpload /\ preq(d).args # <<>>
       THEN Exit(d, "CacheUploadError") ELSE Exit(d, "Success")
  /\ UNCHANGED <<env, build, disk, fds>>

(***************************************************************************)
(* The surroundings                                                        *)
(***************************************************************************)

kill(d) ==
  /\ "kill" \in env.events
  /\ oid[d].pc \notin {"idle", "done"}
  /\ Become(d, Fresh)
  /\ UNCHANGED <<env, build, disk, fds>>

rebuild ==
  /\ "rebuild" \in env.events
  /\ build = 1
  /\ build' = 2
  /\ UNCHANGED <<env, disk, fds, oid>>

\* A thread stops before restoreState comes to it: a signal, or an event; the end of
\* a worker counts as one.
threadStops(d, t, stop) ==
  /\ "stop" \in env.events
  /\ At(d, "restore")
  /\ t \in Range(oid[d].threads) /\ oid[d].stops[t] = "runs"
  /\ Become(d, [oid[d] EXCEPT !.stops[t] = stop])
  /\ UNCHANGED <<env, build, disk, fds>>

\* The target opens and closes files of its own.
openFile(d) ==
  /\ "open" \in env.events
  /\ Cardinality(freeFds(d)) > 1 \* bound: one is left for the log
  /\ fds' = [fds EXCEPT ![d][Min(freeFds(d))] = "app"]
  /\ UNCHANGED <<env, build, disk, oid>>

closeFile(d, fd) ==
  /\ fds[d][fd] = "app"
  /\ fds' = [fds EXCEPT ![d][fd] = "free"]
  /\ UNCHANGED <<env, build, disk, oid>>

Next ==
  \/ \E d \in Debuggers :
       \/ \E options \in env.invocations : main(d, options)
       \/ runScript(d) \/ setupLogFile(d)
       \/ loadDescs(d) \/ checkCache(d) \/ loadPadding(d) \/ generateCode(d)
       \/ compile(d) \/ storeOpen(d) \/ storeWrite(d) \/ nextArg(d) \/ link(d)
       \/ \E interrupted \in BOOLEAN : probe(d, interrupted)
       \/ restoreThread(d) \/ processTargetData(d) \/ uploadCache(d)
       \/ kill(d)
       \/ \E t \in {"main", "worker"}, stop \in {"stopped", "event"} :
            threadStops(d, t, stop)
       \/ openFile(d)
       \/ \E fd \in 0 .. LastFd : closeFile(d, fd)
  \/ rebuild

Spec == Init /\ [][Next]_vars

(***************************************************************************)
(* Properties                                                              *)
(***************************************************************************)

Statuses ==
  {"Success", "UsageError", "FileNotFoundError", "ScriptParsingError",
   "SegmentInitError", "SegmentRemovalError", "CompilationError",
   "ProcessingTargetDataError", "CacheUploadError", "Aborted"}

PCs == {"idle", "script", "segments", "descs", "check", "padding", "generate",
        "compile", "store", "storing", "next", "link", "probe", "restore",
        "decode", "upload", "done"}

\* The state is of its type: in particular only the archives of OICache are ever
\* half written, so that an object file in the cache can be loaded.
TypeOK ==
  /\ build \in {1, 2}
  /\ \A p \in DOMAIN disk : disk[p] = Partial => p[3] \in {".fd", ".gd", ".th", ".pd"}
  /\ \A d \in Debuggers :
       /\ oid[d].pc \in PCs /\ oid[d].status \in Statuses
       /\ oid[d].build \in {1, 2} /\ oid[d].logFd \in -1 .. LastFd
       /\ oid[d].objectFiles \subseteq DOMAIN disk
       /\ fds[d] \in [0 .. LastFd -> {"free", "app", "log"}]

\* A method is recognized by its this, if that has a location.
thisLocated(f) == \A i \in DOMAIN f.params : f.params[i].name = "this" => f.params[i].located

\* The type of what a request names, as its user sees it: the arguments of a
\* method are counted without this.
DeclaredType(prog, r) ==
  LET f == prog.funcs[r.func]
      visible == {i \in DOMAIN f.params : f.params[i].name # "this"}
      position(n) == CHOOSE i \in visible : Cardinality({j \in visible : j <= i}) = n
  IN CASE r.type = "global" -> prog.globals[r.func]
       [] r.type # "global" /\ r.arg = Retval -> f.ret
       [] r.type # "global" /\ r.arg = This -> f.params[1].type
       [] r.type # "global" /\ r.arg.n >= 0 -> f.params[position(r.arg.n + 1)].type

\* What the data of the target is decoded with was made from the debug information
\* of the build the target executes, whatever runs for another build left in the
\* cache (load compares the build id), and, unless it is an argument of a method
\* whose this has no location, for the type of the argument the user asked for
\* (getArgumentIndex, getRootType, the descriptors in the cache).  In such a method
\* argN is the parameter in front of the one that is meant, and what is captured is
\* of its type.
HierarchyOfRequest ==
  \A d \in Debuggers : \A r \in DOMAIN oid[d].typeInfos :
    LET info == oid[d].typeInfos[r] IN
    /\ info.build = oid[d].build
    /\ r.type = "global" \/ r.arg = Retval \/ thisLocated(Program(d).funcs[r.func])
         => getTypeName(info.root.type) = getTypeName(DeclaredType(Program(d), r))

\* The code each argument's call reaches is the code its type hierarchy belongs
\* to: made from the same build with the same configuration.
codeMatches(d) ==
  oid[d].image.written =>
    \A i \in 1 .. argCount(d) :
      LET info == oid[d].typeInfos[getReqForArg(d, i)]
          code == oid[d].image.code[oid[d].image.calls[i]]
      IN /\ code.build = info.build /\ code.config = info.config
         /\ code.type = getTypeName(info.root.type)

\* The configurations of an environment's runs, of those that come to compile
\* something: their script is a list of one probe.
Proceeds(c) ==
  c.status = "Success" /\ c.script.reqs # <<>> /\ ~(Len(c.script.reqs) > 1)
proceeding(e) == {c \in {Config(options) : options \in e.invocations} : Proceeds(c)}

\* What OIParser returns for the arguments of a probe is a list, and a function's
\* probe names one at least: without, there would be no segment to write.
argumentsListed(e) ==
  \A c \in proceeding(e) :
    LET p == c.script.reqs[1] IN
    Len(p.args) \in Nat /\ (p.type # "global" => Len(p.args) > 0)

\* A cache directory is used with one configuration of the generator: its files are
\* named after the type alone.
oneConfigPerCache(e) ==
  \A first, second \in proceeding(e) :
    first.cacheBasePath = second.cacheBasePath
      => first.generatorConfig = second.generatorConfig

\* As long as the program is not built anew, or the cache is not used and no
\* other run works in the same directory, the code in the target and the type
\* hierarchy match, even when runs are killed between the steps of compileCode,
\* stores fail, and two runs read and write the same files.
SteadyCodeMatches ==
  \A d \in Debuggers :
    build = 1 \/ (~isEnabled(d) /\ env.debuggers = {d}) => codeMatches(d)

\* With the build id compared by load, code and type hierarchy match always.
CodeMatchesHierarchy == \A d \in Debuggers : codeMatches(d)

\* What a run asks for, looked up with no descriptor known.
rootOf(d, i) == getRootType(Program(d), Drgn(d), <<>>, getReqForArg(d, i), Attached(d))
typesOf(d) == {getTypeName(rootOf(d, i).type) : i \in 1 .. argCount(d)}

\* Object files for some types, that of type t compiled for builds[t], do not link
\* with the target.
notLinked(d, builds) ==
  LET types == SetToSeq(DOMAIN builds)
      res == relocated(d, [i \in DOMAIN types |-> [type |-> types[i], build |-> builds[types[i]]]])
  IN res.failed \/ tooLarge(res.relocInfos)

\* Why a run may fail that nothing happened to: its options, or what it asks for.
explained(d) ==
  LET o == oid[d]
  IN \/ o.config.status # "Success" \/ ~validateCache(o.config)
     \/ Len(o.config.script.reqs) # 1 \/ o.config.removeMappings
     \/ o.config.cacheRemoteDownload \/ o.config.cacheRemoteUpload
     \/ argCount(d) > 2
     \/ \E i \in 1 .. argCount(d) :
          \/ TargetObject(Program(d), Drgn(d), <<>>, getReqForArg(d, i), Attached(d)) = Null
          \/ rootOf(d, i) = Null
     \/ notLinked(d, [t \in typesOf(d) |-> o.build])

\* Or an object file that was made for the other build, which is used wherever it is
\* found: it may refer to what this build does not define.
staleObject(d) ==
  /\ build = 2 /\ (isEnabled(d) \/ env.debuggers # {d})
  /\ \E builds \in [typesOf(d) -> {1, 2}] : notLinked(d, builds)

\* Whatever files earlier or concurrent runs left, half written ones included, a
\* run fails only for reasons of its own: it would fail with an empty cache.  The one
\* exception are object files that do not link, once the program has been built anew.
LeftoversHarmless ==
  \A d \in Debuggers :
    At(d, "done") /\ oid[d].status # "Success"
      => oid[d].fault \/ explained(d) \/ staleObject(d)

\* Where a symbol may be: a definition in a code module of the program.
definitions(prog, x) ==
  {s.value : s \in {s \in UNION {Range(m.symbols) :
                                 m \in {m \in Range(prog.modules) : ~m.debuginfo}} :
                     s.name = x /\ s.defined}}

\* The padding between constants and data is within what the slab adds for it.
objectsLinkable(e) ==
  \A b \in {1, 2} : \A name \in DOMAIN e.objects[b] :
    IsObject(e.objects[b][name]) /\ dataPadding(e.objects[b][name].sections) <= 128

\* The reservation LLVM announces, with the 128 bytes reserveAllocationSpace adds,
\* is enough for the sections it then allocates, for the objects of the run, and the
\* segments of a slab fit into its block (the assertion of Slab).  The relocated
\* sections are aligned, do not overlap, and are behind the prologue and the
\* constants and in front of the replay area, the last bytes of the segment, although
\* compileCode compares them with the end of the segment: slabs are whole pages, and
\* what is in front of them keeps their ends off the last page.  Every symbol is a
\* constant oid writes, a definition of the target, or weak and undefined.
CodeLinked ==
  \A d \in Debuggers :
    LET image == oid[d].image IN
    /\ ~image.fatal /\ image.fits
    /\ image.written =>
         /\ \A s, t \in image.sections : s # t => Disjoint(s, t)
         /\ \A s \in image.sections :
              /\ s.addr % s.section.align = 0
              /\ s.addr >= jitCodeStart
              /\ s.addr + s.section.size <= textSegSize - replayInstSize
         /\ \A x \in DOMAIN image.externals :
              LET v == image.externals[x] IN
              IF x \in DOMAIN syntheticSymbols THEN v = syntheticSymbols[x]
              ELSE \/ v \in definitions(Program(d), x)
                   \/ x \in env.weak /\ v = Unresolved

\* The features of a run are those asked for and what they require, nothing
\* else; none was disabled on the command line and no two conflict.
FeaturesClosed ==
  \A d \in Debuggers :
    ~At(d, "idle") /\ oid[d].config.status = "Success" =>
      LET c == oid[d].config
          fs == c.generatorConfig.features
          asked == {f \in DOMAIN c.features : c.features[f]}
                     \cup UNION {file.features : file \in c.configFiles}
      IN /\ \A f \in fs : requirements(f) \subseteq fs /\ conflicts(f) \cap fs = {}
         /\ \A f \in DOMAIN c.features : c.features[f] <=> f \in fs
         /\ \A f \in fs : f \in asked \/ \E g \in fs : f \in requirements(g)

\* The main thread's turn comes last and it was stopped before: another turn may
\* have closed the log.
closedEarly(d) == oid[d].threads = <<"main">> /\ oid[d].stops["main"] = "stopped"

\* oid closes the log file in the target, in whatever order the threads are listed,
\* and never a descriptor the target has opened, although cleanupLogFile is called
\* once more for every thread and a number is used again after the first.  There are
\* two exceptions: a main thread that reports an event at its turn is skipped, and
\* the log stays open; and one that had stopped before its turn may close the log at
\* another thread's turn and the number once more at its own.
ClosesLogOnly ==
  [][\A d \in Debuggers :
       /\ \A n \in 0 .. LastFd :
            fds[d][n] = "app" /\ fds'[d][n] # "app" => oid' = oid \/ closedEarly(d)
       /\ At(d, "restore") /\ oid'[d].pc \in {"decode", "upload"}
            /\ oid[d].logFd # NoFd /\ preq(d).type # "global"
            /\ oid[d].stops["main"] # "event"
            => fds[d][oid[d].logFd] # "log"]_vars
=============================================================================
