# A verification of object-introspection

`oid` (object-introspection) attaches to a running process, plants breakpoints
in a function, sends one thread of the process through C++ code it has compiled
for the type of an argument, reads back the sizes that code has measured, and
leaves. This directory holds TLA+ models of the parts where that can go wrong,
TLC configurations for small instances, and TLAPS proofs for every instance.
`PROJECT.json` records, for each definition, the source lines it stands for.

## The system

| Part | State | Operations | Talks to |
|---|---|---|---|
| driver, `runScript` (OID.cpp) | `oidShouldExit`, config | attach, compile, patch, wait loop, drain, decode, restore | everything; SIGINT and SIGALRM handlers set a flag it polls |
| debugger core (OIDebugger.cpp) | `threadList`, `threadTrapState`, `activeTraps`, `count`, argument slots | `targetAttach`, `stopTarget`, `processTrap` (clone, exit, SEGV, BUS/ILL, TRAP), `removeTraps`, `restoreState` | the target's threads, through ptrace and waitpid |
| text patching | `activeTraps`, `replayInstMap`, the text of the target | `functionPatch`, `removeTrap`, `removeTraps`, `nextReplayInstrAddr` | 8-byte POKETEXTs, while other threads run |
| segments | the target's memory map, the segment config file, `segConfig` | `segmentInit`, `setupSegment`, `unmapSegments`, `createSegmentConfigFile`, `deleteSegmentConfig` | system calls injected by `remoteSyscall`; later runs of oid, through the file |
| data segment | header (magic, cookie, size), varints | generated `getSize`/`StoreData`; `decodeTargetData`, `processTargetData` | JIT'd code writes, oid reads, the target may stop in between |
| pointer tracking | `data`, `numEntries`, `twang` hash | `initialize`, `add` (OITraceCode.cpp) | the generated traversal |
| compilation, cache | `typeInfos`, descriptors; object, source and archive files | `compileCode`, `OICache::load`, `store` | clang and LLVM, the file system, other runs of oid |
| linking (OICompiler.cpp) | slabs, relocated segments | `reserveAllocationSpace`, `allocate`, `applyRelocs`, `findSymbol` | LLVM; the text segment of the target |
| JIT log file | `logFds`, a descriptor in the target | `setupLogFile`, `cleanupLogFile` | remote system calls; called once per thread by `restoreState` |
| symbol service | descriptors of functions and globals | `locateSymbol`, `findFuncDesc`, `getRootType`, `locateBuildID` | ELF and DWARF of the target |
| type graph | nodes, containers, members | `DrgnParser`, 13 passes (Flattener, AlignmentCalc, AddPadding, TopoSorter, Prune, RemoveMembers, NameGen, ...), code generators | each pass rewrites the graph for the next |
| results | tree of measured elements | `TreeBuilder`, `IntrospectionResult`, exporters | the words the generated code wrote |
| library (oil), oilgen | one JIT'd function per type | `init`, `introspect` | the same pipeline in one process |
| features, configuration, probe language | sets of features, probe | feature resolution, TOML, parsing | |

What is hard here: all threads of the target run while oid, single-threaded,
handles one stop after another; threads start, exit and fault at any time;
stops are reported in any order and can be lost; signals reach oid between any
two of its steps; several runs of oid share the segments in the target through
a file; and the reader and the writer of the data segment share nothing but its
bytes. `PROJECT.json` lists these hazards line by line with the properties that
watch them.

What makes each part correct, in short:

* text patching: a trap in the map is armed in the text; nothing else is; after
  removal the text is the original; a replay slot holds original bytes;
* debugger core: one thread at most is in the JIT'd code and it can come back;
  a thread never continues in the middle of an instruction; the JIT'd code looks
  at the argument of the thread that runs it; seen without oid, the threads do
  what they would have done anyway; no INT3 stays; oid comes to its end and
  leaves no thread stopped;
* segments: oid writes to and unmaps only its own pages, and can find all of
  them again;
* data segment: what is decoded was stored, in this run, and what fits is
  decoded;
* pointer tracking: the array is a bounded set, and every call returns;
* type graph: flattening keeps members, the generated types have the layout of
  the program's types, definitions come after what they need, no pass fails;
* results: the reader takes exactly the words that were written, each for the
  object it was written about, and every byte is counted once;
* compilation and cache: data is decoded with the hierarchy of the build that runs
  and of the type that was asked for; code and hierarchy match; files of other
  runs, half written ones too, do not make a run fail (but for object files of
  another build that do not link);
* linking: sections do not overlap, are aligned and stay clear of prologue and
  replay area; every symbol is resolved to the target's code or oid's constants;
* log file: oid closes it, whatever the order of the threads, and with two
  exceptions (below) nothing else;
* features: closed under requirements, free of conflicts, and no larger.

## The modules

| Module | Models |
|---|---|
| `TextPatch`, `MCTextPatch` | traps as byte windows of the text |
| `TextPatchProofs` | theorems about `TextPatch` |
| `OIDebugger`, `MCOIDebugger` | one capture by function probe: threads, kernel and debugger |
| `Target` | the abstract specification: threads of a process nobody debugs |
| `OIDebuggerProofs` | theorems about `OIDebugger`, and the refinement of `Target` |
| `SegConfig`, `MCSegConfig` | the segments and the config file over many runs of oid |
| `SegConfigProofs` | theorems about `SegConfig` |
| `DataSegment` | writer and reader of the data segment |
| `DataSegmentProofs` | theorems about `DataSegment` |
| `PointerHashSet` | the open-addressing table, one probe per step |
| `PointerSet` | the abstract specification: a bounded set |
| `PointerHashSetProofs` | theorems and refinement proof for `PointerHashSet` |
| `TypeGraph`, `DrgnParser`, `TypeGraphPasses` | the graph and its visitors, the parser that builds it, the passes as operators |
| `CodeGen`, `TreeBuilder`, `IntrospectionResult` | the generated code (definitions, layout, what it writes) and the two readers of what it wrote |
| `Introspection`, `MCIntrospection` | their composition: one type from its debug information to the tree of an object |
| `Features`, `SymbolService`, `OICompiler` | feature sets and config files, look-ups in the target, slabs and relocation |
| `Session`, `MCSession` | their composition with cache and log file: runs of oid from the command line to the exit status |
| `OICompilerProofs` | slabs and relocation for every object file, for `SessionProofs` |
| `SessionProofs` | theorems about `Session` |
| `RecursionLemmas` | induction and recursive functions, for the proofs |

The three large models divide the work of one run of oid. `Session` is the whole
run with its files; in it a type hierarchy is its type, build and configuration,
and a probe is one step. `Introspection` opens the type hierarchy and the
generated code, `OIDebugger` the probe, `SegConfig` the segments, `DataSegment`
the bytes between target and oid.

`OIDebugger` uses two results of the other modules instead of their detail. A
POKETEXT changes one place and no other: `TextPatch` (`Int3sAreActiveTraps`). The
bytes the JIT'd code writes are left to `DataSegment`, whose `early_read` event is the case that the loop ends while a thread is still in
the JIT'd code.

### TextPatch

`text` is a function from addresses to bytes: original, INT3, or zero. A trap
saves `Window` bytes and writes them back with an INT3 in front. `functionPatch`
computes the sites (entry and/or returns, by probe), allocates replay slots and
puts the traps into `tiVec`; each POKETEXT is a step (`pokeTrap`), which may
fail (`pokeTrapFails`); `removeTrap` re-arms the overlapping higher traps it
finds in `activeTraps`, as the code does; `removeTraps` removes all. When
POKETEXTs fail in it, the traps are forgotten all the same (`removeTrapsFails`,
phase `dirty`); when the one of `removeTrap` fails, nothing changes. Neighbouring
traps are nearer than `Window`, so that writes do overlap (3 bytes in the model,
8 in the code: the code depends only on the distance being smaller).

### OIDebugger and Target

A thread is a record: the place it is at (`out`, `entry`, `body`, `tail`, a
return, `jit`, `jitret`, and `zero`, where a call through an unset pointer ends),
whether `%rip` is one byte too far (`off`), whether it runs, the stop it has and
whether waitpid has `seen` it, and its ptrace attributes. Three groups of
actions interleave:

* the target and the kernel, marked external: `Step`, `HitTrap`, `RunJit`,
  faults, `Clone`, `Exit`, `StopOnInterrupt`;
* the debugger, in the order of runScript's `pc`: `Seize`/`Seized`
  (targetAttach), `InterruptMain`/`WaitMain` (stopTarget), `PatchFunctions` or
  `PatchFunctionsFails`, after which oid leaves with the traps it has planted,
  then the loop: `CheckLoop` tests the flag, `CallWait` enters waitpid, and one
  handler runs to its PTRACE_CONT: `HandleDeath`, `HandleEvent`, `HandleClone`
  and `WaitChild`, `HandleSegv`, `HandleBusOrIll`, `SkipTrap`, `StrayTrap`,
  `processFuncTrap`, `processFuncTrapFails`, `processJitCodeRet`. Then
  `RemoveTraps`/`RemoveWait`, the non-blocking drain, and `Restore*`, one thread
  of the list at a time;
* the signals to oid: `Interrupt`, at any moment and any number of times, and
  `Timeout`, once.

`replays` is the replay of an instruction, with the signal to oid that ends its
wait for the single step: the thread is then somewhere else (`lost`). The
registers saved in the trap state of a return probe's entry have already been
moved past the instruction by its replay (`regsMovedOn`), and who restores them
later loses the thread's place as well (`replaysSaved`, `restored`).

A handler is one step because the thread it works on is stopped and the maps it
changes belong to the debugger; each *waitpid* is a step of its own, because in
between anything may happen. `Env` names what the environment may do in a run,
so that a property can be checked with everything that does not break it.

`Target` is the process without oid: each thread moves along the function,
and nothing else. `Transparent` maps a thread in the JIT'd code, at a trap, or
between an INT3 and its replay to the place it will continue at.

### SegConfig

Memory is pages with an owner. A run of oid reads the file
(`createSegmentConfigFile`), then either removes (`unmapText`, `unmapData`,
`deleteSegmentConfig`) or sets up (`segmentInitExisting`, `segmentInitResize`,
`setupText`, `setupData`, `writeConfig`); between any two the target maps and
unmaps, execs, or oid is killed (`Killed`: the handlers are installed later).
A failing call, and a signal that takes the place of the single step of an
injected system call, are alternatives of `mmap` and `munmap`.

### DataSegment

`mem` is the segment, never cleared, and the memory above it. The JIT'd code
writes magic, cookie, size 0, values and sentinels as varints, each store a
step, and the size last; oid reads when the code has ended, has faulted, or
(`early_read`) at any time. A read past what oid has copied may return anything
(`readPast`). The decoder is the source's loop, one cell after the other
(`readCell`, from `LoopStart`): the value so far, the place of the next digit, and
whether two sentinels in a row have been seen. The radix and the sentinel are small; a sentinel takes two bytes,
a value one or two, as in the code it takes four and one to ten. A header is
three words of one cell each; the three words of statistics are left out. A
segment has room for a header (`DataSize >= HeaderSize`): `-x` rounds up to pages.

### PointerHashSet and PointerSet

One step of `add` looks at one cell. The hash is a variable that no step
changes, so that TLC and the proof cover every hash function. `PointerSet` says
what a caller may rely on: `add` returns true exactly for a new pointer while
there is room.

### TypeGraph, DrgnParser, TypeGraphPasses, CodeGen

A graph is a sequence of nodes (`types_`), roots and final types; a reference is
an index, so that cycles are what they are in the code. `Walk` is the recursive
visitor with its `NodeTracker`, made explicit as a list of things left to do;
each pass of `CodeGen::transform` is an operator built on it that keeps the
source's order of visits, which decides what a pass sees of a node that is still
being worked on. Names are sequences of tokens: `NameGen` and `TopoSorter`
depend only on which names contain which. Debug information is a function from
drgn types to records; drgn is external.

`CodeGen` says which definitions the text has (`DefinitionCompiles`: what must
precede each), what offsets a C++ compiler gives the members (`Layout`,
`StaticAssertsHold`: the assertions the text brings along) and, as an
interpreter of the traversal, which words it writes about an object whose
contents are a member of `Memories`.

### TreeBuilder, IntrospectionResult, Introspection

`TreeBuilder` reads the words recursively along the exported type hierarchy;
`IntrospectionResult` is the iterator over instructions, a stack machine, one
`operator++` per step. `Introspection` has one action per stage and per pass
(`registerContainers`, `addDrgnRoot`, the passes, `generate`, `compile`,
`introspect`, `build` or `increment`); the feature `TreeBuilderV2` selects the
reader. Both readers keep a log of the words they took for each object, to be
compared with the log of the writer.

### Features, SymbolService, OICompiler, Session

Each debugger of `Session` is run again and again on a process of its own; all
processes execute the same program, of which there are two builds, and runs
with `-o` share the cache directory. The actions follow `runScript` and
`compileCode`: `main`, `runScript`, `setupLogFile`, `loadDescs`, then per
argument `checkCache`, `loadPadding`, `generateCode`, `compile`, `storeOpen` and
`storeWrite` for each archive, then `link`, `probe`, `restoreThread`,
`processTargetData`, `uploadCache`. A run may be killed between any two
(`kill`), a store or a compilation may fail, and the program may be built anew
(`rebuild`) between runs. While restoreState walks over the threads, those it has
not come to may stop (`threadStops`): a thread that reports an event is skipped,
and a main thread that has stopped early lets `remoteClose` work at another
thread's turn. An object file has the symbols of the build it was compiled for.
`disk` maps paths to contents, where an archive is
half written from `storeOpen` to `storeWrite`; the compiler renames a finished
object into place. `OICompiler` computes with real sizes: pages, 128-byte
alignment, the 5 MB text segment, prologue, constants and replay area.

## What TLC checks

State counts are of the configurations here. Bounds: threads and return sites
are few, but every handler is about one thread, and every race known of is
between two or three (main, probed, other). Two return sites are the fewest with
which two threads can be on their way into the JIT'd code at once, since a trap
that has been taken is removed. Two runs of oid reach any pair of older and
current contents of the data segment. An array of three cells has a full state, a
wrap-around and a collision.

| Run | Instance | States | Shows |
|---|---|---|---|
| `TextPatch` | windows of 3, 4 slots, every request | 1.4 k | the INT3s in the text are those of the active traps at every step (`Int3sAreActiveTraps`), the text is restored (`TextRestored`) and replay slots hold original bytes (`ReplayIsOriginal`), the first for functions whose neighbouring traps are installed upwards |
| `DebuggerQuiet` | 3 threads, 2 returns; the main thread does not call the function; JIT faults, failed lookups | 48.7 k | at the end no INT3 is left in the target's own code and no thread is in the JIT'd code or inside an instruction (`CleanDetach`), no self-wait (`NoSelfWait`); refinement of `Target` (`Transparent`) |
| `DebuggerStorm` | 2 threads, one started during the run, 2 returns; clones, exits, all faults, failed lookups, traps planted half-way, SIGINT again and again, also at the single step of a replay | 3.91 M | one probe at a time (`OneProbeAtATime`), with a way back (`JitHasWayBack`) |
| `DebuggerLive` | 3 threads, busy target, timer, JIT faults, failed lookups | 78.4 k | oid detaches (`Detaches`), and no thread stays stopped (`StoppedThreadsResume`) |
| `SegConfig` | 7 pages, sizes that round to the same pages, with exec and kill during -r, or failing calls and kill during set-up; 17 pages, two sizes, a free page around each mapping, with and without signals at the single step | 2.51 M | nothing leaks over runs, -r and exec (`NoLeak`); own pages only, even when calls fail (`WritesOwnSegments`); no page of the target is unmapped (`TargetUntouched`) |
| `DataSegment` | 16 cells, 1 or 2 arguments of up to 5 values, 2 runs; faults, no hit, or reads at any time | 1.17 M | decoded = stored (`DecodedIsStored`); what fits is decoded and too small is reported (`DecodedOrReported`); one argument's writes stay inside (`WritesInSegment`) |
| `PointerHashSet` | 4 pointers and null, 3 cells, all hashes | 89.6 k | no gap in a probe sequence (`NoGap`), refinement of `PointerSet` (`ImplementsSet`), each call returns (`AddReturns`) |
| `Introspection` | 49 types, 6 layouts of the smallest class, members of 25 types, single and multiple inheritance, dynamic hierarchies of two levels, shared and cyclic pointers, 11 configurations, 22 further kinds of container, 30 contents | 74.7 k | no pass fails but in the two cases named below (`PassesSucceed`), `MembersKept`, `DefinitionsInOrder`, `LayoutPreserved`, `ReadsWhatWasWritten`, `BytesCountedOnce`, `ResultIsTree`; the pipeline ends (`Ends`) |
| `Session` | see below | 366 k | `HierarchyOfRequest`, `SteadyCodeMatches`, `LeftoversHarmless`, `CodeLinked`, `FeaturesClosed`, `ClosesLogOnly` |

The contents of an object are a short list of numbers that the generated code
takes in order (the length of a vector, which object a pointer is to, whether an
optional is set); `<<2,1,1,1,2,2>>` makes nested sequences and shared pointers,
`<<4,1,2>>` a container that reaches `ContainerSizeThreshold`, here 100 bytes
instead of 256 GB (`1ULL<<38`). The layouts of the smallest class have padding
inside, at the end, none (packed), bitfields with gaps of bits (`bits`) and of
bits and bytes (`bytes`), or nothing at all, which is what decides the cases
of `AddPadding`, `AlignmentCalc` and of an empty base.

`Session` takes five groups of environments: *Shared* (two runs at a time with
one cache, killed and failing to store; one run with two arguments), *Rebuilt*
(two builds, with cache, without, without build ids, and with code that needs
a symbol only its own build has), *Logging* (three
descriptors, the target opens and closes its own, its threads stop at any moment), *Layout* (60 shapes of
object files: kinds and alignments in turn, sizes next to a multiple of 128 or of
a page, code that fills the text segment), *Options* (every pair of related
features and of a feature and a config file; every option and kind of request).
Two debuggers are enough: a file has one writer and one reader at a time, and a
third run only repeats one of them.

Assumptions about what is external: inheritance in debug information is acyclic
and each parameter of a function has one entry; clang renames object files into
place; LLVM maps whole pages and announces sizes as
`RuntimeDyld::computeTotalAllocSize` does; the build has no remote cache, as the
repository's own build has none. A command line is finite. In debug
information only the first parameter of a function is called `this`; two builds of the target that have a build id have different ones.

`Envs` of `SegConfig` and `DataSegment` is a set of environments; a behaviour has
one of them (`env`), and a property that does not hold in all says in which it
does. Deadlock is not checked where the system may stop: oid is done, or the
bound on its runs is reached.

### Fairness

`FairSpec` of `OIDebugger`: the debugger's process is scheduled (`WF` of
`Debugger`), the timer of `-t` runs out (`WF` of `Timeout`), and the kernel
delivers a stop that a thread has run into (`WF` of `Kernel(t)`, `Derail(t)`).
The threads of the target owe oid nothing, so they have no fairness there;
`BusySpec` adds that threads keep running (`WF` of `Step(t)`), and is used where
the property says "in a busy target"; without it a SIGALRM between the test of
the flag and waitpid is not seen (below). In `PointerHashSet` a call that has begun goes on (`WF` of `Step`):
it is straight code of one thread. In `Introspection` the pipeline goes on until it
halts (`Fairness`, weak fairness of `Next` written without ENABLED): it is one
thread as well, and `Ends` says that it does not go on for ever.

## Where the code and its own words disagree

Each of these runs has one property, taken from a comment or a message of the
repository, and TLC's counterexample is what the code does. The quotes are in
`PROJECT.json`.

| Run | What happens |
|---|---|
| `SegConfigGrow` | the old data segment is unmapped with the new, larger size |
| `IntrospectionCycle` | a class is flattened while its base still has a base, through a pointer in that one: it loses members, and what they lead to is not measured |
| `SessionStaleObject` | after a rebuild the archives in the cache are refused and made anew, but the old object file is linked: old code, new hierarchy, and both are in the cache from then on |

## What the environments leave out, and why

A property is checked in the largest environment it holds in. What lies outside
was found by adding the event to the run's constants, or by reading the code; the
line is where it bites. In some rows the property itself names the case
(*excepted*): it is in the run, and the property allows it.

| Property | Does not survive | Because |
|---|---|---|
| `Int3sAreActiveTraps` | a range right below the entry, installed later | its 8-byte write restores the byte of the higher trap (OIDebugger.cpp:1564) |
| `TextRestored` | a POKETEXT that fails half way | runScript returns without removeTraps (OID.cpp:451) |
| `Int3sAreActiveTraps`, `TextRestored` | a POKETEXT of removeTraps that fails (*excepted*) | it is logged, the trap is erased and its INT3 stays (OIDebugger.cpp:1857) |
| all threads are traced | `clone_attach` | /proc/pid/task is read once (OIDebugger.cpp:2618) |
| the captured argument is the thread's own | a thread inside the function when the traps are planted | it reaches the return trap with another thread's argument in the slots (OIDebugger.cpp:1233) |
| `Transparent` | `main_calls` | removeTraps takes a SIGTRAP of the main thread for the stop it asked for (OIDebugger.cpp:1840) |
| `Transparent` | `user_segv` | the target's own fault counts as one of the JIT'd code (OIDebugger.cpp:1125) |
| `Transparent` | `user_segv` with the trap state of a return probe's entry | its saved registers have been moved on by the replay: the instruction takes effect twice (OIDebugger.cpp:731, 1144; restoreState has the same at 2509) |
| `CleanDetach` | `patch_fail` | the traps planted before the failure stay (OIDebugger.cpp:1572, OID.cpp:451) |
| `CleanDetach` | `interrupt` at the single step of a replay | the wait is not repeated: registers are read and set too early, and the thread goes on elsewhere (OIDebugger.cpp:141) |
| `CleanDetach` | `timeout` | a thread still in the JIT'd code is detached there (OIDebugger.cpp:2437) |
| `CleanDetach` | `exit` of the main thread | removeTraps gives up before it erases a trap (OIDebugger.cpp:1834) |
| `CleanDetach` | `interrupt` | EINTR in removeTraps: the pokes fail and the traps are forgotten (OIDebugger.cpp:1840) |
| `NoSelfWait` | `jit_bus`, `user_bus`, `user_ill` | the thread is left stopped and waited for later (OIDebugger.cpp:1155) |
| `Detaches` | an idle target | SIGALRM between the test of the flag and waitpid (OID.cpp:463) |
| `Detaches` | a last trap that a failed lookup has removed, with `timeout` | SIGALRM between the test and waitpid again: nothing stops a thread any more, so in a busy target too (OID.cpp:463, OIDebugger.cpp:664) |
| `Detaches` | `clone` and `exit` | a cloned thread has lost PTRACE_O_TRACEEXIT and stays in the list: the drain spins (OIDebugger.cpp:1013) |
| `WritesOwnSegments`, `TargetUntouched` | `kill_remove` | the segments are unmapped and the file still names them (OIDebugger.cpp:1806, 392) |
| `NoLeak` | -r after another -x; `mmap_fail` | the default size is unmapped (OIDebugger.cpp:1790); the text segment stays when the data segment fails (:295) |
| `WritesOwnSegments` | another -x with `mmap_fail`; `step_signal` | the file names an unmapped segment (:304); the number of the system call is taken for its result (:1714) |
| `DecodedIsStored` | a value equal to the sentinel; `early_read` | it is dropped (:2810); the cookie is stored before the size is reset (FuncGen.cpp:335) |
| `WritesInSegment` | two arguments | the room of the second is computed from the start of the segment (FuncGen.cpp:347) |
| the needed size oid prints is enough | data that end at the end of the segment | it is one byte too small (FuncGen.cpp:240) |
| `HierarchyOfRequest` | a method whose `this` has no location (*excepted*) | parseFormalParam returns before it looks at the name: the arguments are counted with `this`, and the one captured is the one before (SymbolService.cpp:507, 524, 888) |
| `LeftoversHarmless` | an object file of the other build whose symbols this build lacks (*excepted*) | it is linked wherever it is found, and relocation fails (OIDebugger.cpp:2280, OICompiler.cpp:719) |
| `ClosesLogOnly` | the main thread in a signal stop before its turn comes last (*excepted*) | remoteSyscall works at another thread's turn already: the log is closed there, and its number again at the main thread's turn (OIDebugger.cpp:1603, 2585) |
| `ClosesLogOnly` | the main thread in an event stop at its turn (*excepted*) | the turn ends before cleanupLogFile: the log stays open (OIDebugger.cpp:2485) |
| `SteadyCodeMatches` | different features or config files with one cache | the key is the type's name alone (OICache.cpp:65) |
| `CodeLinked` | three changes between constants and data aligned to 128 bytes | 128 bytes are added for padding (OICompiler.cpp:330) |
| `ReadsWhatWasWritten` | a pointer to a const typedef of an incomplete type | the typedef is remembered as complete (DrgnParser.cpp:145) |
| `ReadsWhatWasWritten` | polymorphic inheritance without `TreeBuilderV2` and without `PruneTypeGraph` | the code stores an index for each dynamic class; TreeBuilder knows of none (TreeBuilder.cpp:505) |
| `LayoutPreserved` | a gap of a byte or more that ends inside a byte (an unnamed bitfield, bits 3 to 13) | the bytes of padding are put over the bits: a static assertion of the generated code fails (AddPadding.cpp:124) |
| `PassesSucceed` | a dynamic class with two children, one of which has a child (*excepted*) | Flattener appends to the vector it iterates over: undefined (Flattener.cpp:202) |
| `PassesSucceed` | a dynamic class with a child, without `TreeBuilderV2` (*excepted*) | the vtables are looked up in a vector that has been cleared: undefined (CodeGen.cpp:578, 598) |

A new thread's first stop may also be reported before its parent's clone event
(OIDebugger.cpp:1054); oid then waits for the child's next stop, and
`OneProbeAtATime` holds all the same (`DebuggerStorm`).

## What TLAPS proves

TLC shows a property on the instances of the table above; the theorems below hold
for every value of the constants that satisfies the named assumptions of the
module. Where a property is not inductive, the invariant that is was checked by
TLC on the run first.

`TextPatchProofs`, for any functions, replay area and width of a write
(`PatchAssumption`, `LayoutAssumption`: a function's traps lie in the text):

* `TypeCorrect`, `Restored` (`TextRestored`) and `ReplayOriginal`
  (`ReplayIsOriginal`) hold for every layout of the traps, overlapping or not and
  in any order. `IndInv` says that an INT3 in the text is one of an active trap
  (`TextInv`), that every trap being installed has seen the original word and has
  it in a slot of its own (`TiInv`), and that active traps are among those that
  have been poked (`TrapInv`). The lemmas on `nextReplayInstrAddr` say that the
  slots in use stay below the index and are not shared.
* A POKETEXT of removeTraps that fails leaves the text `dirty`: `Restored` does
  not speak of it, and `Int3sActive` only of the traps that are still active.
* `Int3sActive` (`Int3sAreActiveTraps`) needs `AscendingLayouts`: of two traps
  closer than a write the later is the higher. Without it the property is false
  (see the table above).

`OIDebuggerProofs`, for any set of threads, return sites, probe and environment
(assumption `DebuggerAssumption` only):

* `TypeCorrect`, `SingleProbe` (`OneProbeAtATime`), `WayBack` (`JitHasWayBack`).
  `OneProbeAtATime` is not inductive: it does not say why a second thread cannot
  enter. `IndInv` adds that at most one thread has trap state (`OneTrapState`),
  that a thread in the JIT'd code has it, of a trap that vectors there
  (`JitHasWayBack`), the type of every thread record (`TypeOK`, `ThreadsOK`), and
  what the program counter says of the thread being handled and of the list that
  restoreState walks over (`ControlInv`). `canProcessTrapForThread` is what
  preserves it: a handler creates trap state only when no other thread has any.

With the events of the run `DebuggerQuiet` (`Quiet`: the JIT'd code may fault, an
argument may not be found) and otherwise as general:

* `DetachesCleanly` (`CleanDetach`), `WaitsAreAnswered` (`NoSelfWait`).
  `QuietInv`, next to `IndInv`, says why a thread is stopped and that oid leaves
  none stopped but the main thread (`QuietThreads`), which INT3s there are at each
  step of runScript (`QuietTraps`), and that threads are in the JIT'd code during
  the loop only (`QuietControl`): `count` is 0 until the loop ends.
* `RunsUndisturbed`: `Spec => Transparent`, the refinement of `Target`. A step of
  a thread is a step of `Target` or none; a step of oid moves no thread along
  its path, because the place a thread is mapped to (`PathPos`) is the same
  before an INT3, at it, in the JIT'd code and after the replay. `Quiet` cannot be
  dropped: see `Transparent` in the table above.

`SegConfigProofs`, for any sizes, address space, layout of the target and number
of runs:

* `TypeCorrect`, in every environment;
* `OwnSegments` (`WritesOwnSegments`), `NothingLeaks` (`NoLeak`) and
  `NoTargetPageUnmapped` (`TargetUntouched`), as long as all runs ask for the same
  number of pages (`SameSize`); `SegConfigGrow` shows what happens otherwise. The
  invariant relates oid's copy of the config to the file at every step
  (`ConfigInv`), says that an address is one mmap returned (`BasesInv`), that what
  the file names is still mapped (`OwnedInv`), and that what is mapped is named by
  the file or about to be (`LeakInv`).

`DataSegmentProofs`, for any radix, sizes, values and number of arguments and runs:

* `TypeCorrect`: no more arguments are ended, begun or decoded than there are;
* `NothingBehind` (`WritesInSegment`). It needs that `EncodeVarintSize` is the
  length of what `EncodeVarint` writes (`VarintSize`, by induction on the value),
  and that the first argument starts at the segment (`Progress`);
* `DecodesOrReports` (`DecodedOrReported`) and `DecodesWhatWasStored`
  (`DecodedIsStored`, if no value equals the sentinel: `Sentinel \notin Values`,
  without which it is false). `DecodeInv` follows writer and decoder together. It
  says where each argument starts (`Cursors`), that the size in the current header
  is 0 until the data are there (`Header`), and in which state the decoder would
  be if it had read exactly what has been stored so far (`Here`, and `Past` for the
  arguments before). One lemma per kind of store moves that state on: a varint is
  read back as the value it was written from (`VarintRead`, by induction on its
  digits), and cells that are not read do not matter (`LoopLocal`). Two cases made
  the invariant what it is. The header of an earlier run may still be there when
  the code faults before its first store: the cookie in it is smaller
  (`OldCookie`), so it is refused. And data that end exactly with the segment lose
  their last byte, the end of a sentinel: what is left is no varint, or one that
  is no sentinel (`CutSentinel`), so the decoder reports an error and never hands
  over a part (`ReadsIfDone`).

`PointerHashSetProofs`, for any array size, pointers and hash
(the assumptions of `PointerHashSet` only):

* `TypeCorrect`, `Counting` (`CountExact`: numEntries is the number of cells in
  use), `Findable` (`NoGap`);
* `Refinement`: `Spec => ImplementsSet`. The invariant behind it says that the
  cells a search has passed are in use by other pointers, so that an empty cell
  means the pointer is absent (`EmptyMeansAbsent`), and that after `Size` probes
  all cells have been seen (`AllProbed`, from the arithmetic lemmas on `Slot`),
  so that a refusal means the array is full.

`SessionProofs`, for any number of debuggers, programs, command lines, config
files and object files, and whatever happens to a run:

* `TypeCorrect`: only archives are ever half written, and every object file a run
  will link is on disk although other runs write there;
* `HierarchiesOfRequests` (`HierarchyOfRequest`), for debug information as
  `WellFormed` says and builds whose ids differ; of a method whose `this` has no
  location only the return value and the build are spoken of (`thisLocated`), as
  there the type is that of another argument. `InfoInv`, next to `SessionInv`,
  says that the descriptors of a run are those of its build (`RunInfo`), and that
  an archive that is complete is of the build whose id it has, and a type
  hierarchy of the type its name says (`ArchivesOf`): so `Loaded` may compare
  nothing but the id. `ArgumentDeclared` shows that getArgumentIndex counts as the
  user does, `ObjectDeclared` and `RootDeclared` that the descriptor, the name of
  the cache file and the code are about the same type;
* `FeaturesOfRun` (`FeaturesClosed`): `handleFeatureConflicts` works in rounds;
  after each one the features still to be checked are the only ones whose
  requirements may be missing (`RoundStep`), and the chain of requirements is two
  long (`Requirements`). `ConfigParsed` carries it through getopt's loop and the
  config files, for a command line of any length;
* `OnlyLogClosed` (`ClosesLogOnly`): `SessionInv` holds, for every debugger, what
  the type of its record says at each step (`RunTyped`), that the descriptor in
  `logFds` is the log file until the main thread is restored (`LogHeld`), and that
  the object files are there (`FilesThere`). The log is closed by the first call of
  cleanupLogFile that finds the main thread stopped, which is at its own turn if not
  before; after that turn no call reaches the target. Between an earlier close and
  its turn a number may be used again: that is the exception `closedEarly`, and a
  main thread that is skipped for an event the other;
* `CodeOfHierarchies` (`SteadyCodeMatches`), if the runs that use one cache
  directory have one configuration (`oneConfigPerCache`; OICache does not check it,
  see the hazard at OICache.cpp:65) and the arguments of a probe are a list, not
  empty for a function (`argumentsListed`). `CodeInv` says that an object file is of the type in its
  name, that it and a type hierarchy are of the configuration of their directory
  (`FilesCode`), that what a run holds and has linked agrees with them (`RunCode`),
  and that without a cache its object files are of its own build (`OwnFiles`). TLC
  evaluates both hypotheses for the run's environments (`CachesUsedAlike`);
* `CodeIsLinked` (`CodeLinked`), if sections are aligned to at most 128 bytes and
  the data of an object need at most 128 bytes of padding (`objectsLinkable`).
  LLVM announces the sizes of constants and of data separately, each with its own
  alignment, and the slab puts both into one segment: `dataPadding` bounds what
  that costs. `LinkInv` says that every object file on disk is the code of a type
  of a program (`ObjectsTyped`) and that the image of every run is as the property
  says (`RunLinked`). The sections of one slab are apart and inside it
  (`OICompilerProofs`, below). Every slab is whole pages, and the first starts 128
  bytes into a page, so each ends 128 bytes into a page; an end that is not above
  `textSegSize` is therefore also not above the replay area, which takes less
  than a page, although `link` compares with `textSegSize` only. The assumption on
  code types in `SessionAssumption` says that LLVM has an object for whatever
  is compiled. The run has, besides such objects, some with more than 128 bytes by
  this bound that do fit (`ObjectsAsExpected`): the hypothesis is sufficient, not
  necessary;
* `FailuresExplained` (`LeftoversHarmless`), under `argumentsListed` and
  `objectsLinkable`, except for object files of another build that do not link
  after the program has been built anew (`staleObject`). `FailInv` says of every run that has ended what the property
  says; it needs the three invariants above, because a run fails in the lookup of
  what it asks for or in linking. A descriptor from the cache is the one of the
  build, so a lookup that fails with it fails without (`FoundWithout`). When the
  code is linked, the object files are one for each type that is asked for
  (`LinkedTypes`), and their set is linked in an order nobody chose: whether it
  fails does not depend on the order (`SameRelocation`), as every slab is whole
  pages and the end of the last is the sum of all sizes (`EndOfSlabs`, `SameSum`).
  All other steps go on, whatever they find in the cache (`OthersGoOn`).

`OICompilerProofs`, for an object file with any number of sections of any size:

* `ReservationSuffices`: what `reserveAllocationSpace` asks for is enough for the
  sections that are then allocated one by one. The invariant of the loop
  (`Reserved`) compares the end of the data with the two announced sums and with
  the padding of the sections so far;
* `SlabOfObject`, `SlabsFollow`, `SlabsApart`, `SlotPlaced` and `SlotsPlacedApart`:
  the sections are aligned and apart in a slab, and the slabs in the target;
* `SameSum`: two lists of the same members add up to the same.

`RecursionLemmas` makes induction possible where the library's induction theorems,
which take an operator, cannot be used: a set of naturals that is not empty has a
least member (`MinExists`), so a proof takes the least counterexample; and a
definition by recursion on smaller arguments has a value that satisfies its
equation (`RecursiveFunction`, `CourseOfValues`). tlapm does not know `@@` and
`:>` of TLC nor recursive functions of several arguments: `Session` defines
`merge` and `assign` on functions, and the loops of `DataSegment` and `OICompiler`
are recursive functions of one index.

Only model-checked:

* liveness (`Detaches`, `StoppedThreadsResume`, `AddReturns`, `Ends`): the prover
  handles neither fairness nor ENABLED;
* `Introspection`: it walks graphs with RECURSIVE operators.

## Not modelled, and why

* Global probes (`processGlobal`), fork of the target, failing PTRACE_GETREGS,
  and signals that are only passed on: left out of `OIDebugger` so far.
* A signal to the *target's* thread at the single step of a replayed instruction (one
  to oid is modelled); a POKETEXT that fails in processTrap's removal of a single
  trap, which oid ignores (`TextPatch` has it: nothing changes); the x86 semantics of
  the replayed instruction (relative addressing), which would need instruction
  contents.
* LLVM, drgn, clang, libdw: external libraries, modelled by what the code asks of
  them. Decoding of instructions and the registers of arguments.
* A probe of a function without arguments (`argumentsListed`): no object file is
  linked for it, and `compileCode` takes the last of no segments
  (OIDebugger.cpp:2330).
* `OICodeGen`, the first code generator, used when the feature `type-graph` is
  off: it substitutes names in strings throughout and is superseded by `CodeGen`.
* `ClangTypeParser`, `Printer`, JSON, CSV and RocksDB output, the padding hunter,
  the type checking walker: the same as a modelled part for another library, or
  output formats.
* Where a container's own TOML file says how its words are read, the containers of
  `MCIntrospection` stand for it: six with `TreeBuilderV2`, all kinds that
  `TreeBuilder` distinguishes without.
* The remote cache, which is compiled out; the library, which is the middle part
  of the pipeline in one process; the probe language, a generated parser; the
  command line tools around the parts above.

## Plan

Modelled, in this order: `TextPatch`, `OIDebugger` with its proofs, `SegConfig`,
`DataSegment`, `PointerHashSet` with its refinement proof; the type graph with
`Introspection`; `Session` with cache, linking, log file and features. Proved
since: `TextPatch`, `SegConfig`, the quiet `OIDebugger` with the refinement of
`Target`, writer and reader of `DataSegment`, type hierarchies, code, linking,
failures, features and log file of `Session`. Next:

1. Signals to the threads in `OIDebugger`, at a replay's single step too, and
   `processGlobal`.
2. The bound checks of the typed data segment buffer in `DataSegment`.
3. `Introspection`'s passes as recursive functions instead of RECURSIVE operators,
   so that `MembersKept` can be proved for any class hierarchy.
