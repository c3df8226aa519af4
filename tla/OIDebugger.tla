---------------------------- MODULE OIDebugger -----------------------------
(***************************************************************************)
(* How oid captures one object: the threads of the target, the kernel's    *)
(* ptrace and wait interface, and the single-threaded debugger that        *)
(* seizes the threads, plants the traps, sends one thread through the      *)
(* JIT'd code and detaches again (OIDebugger.cpp from targetAttach to      *)
(* restoreState, driven by runScript in OID.cpp, function probes only).    *)
(*                                                                         *)
(* A thread is at an instruction of the probed function ("entry", "body",  *)
(* "tail", one of Rets), elsewhere in the target ("out"), in the JIT'd     *)
(* code ("jit"), at the INT3 that ends it ("jitret") or at address 0       *)
(* ("zero").                                                               *)
(* off = 1 says that %rip points one byte past the start of that           *)
(* instruction, where an INT3 leaves it.  A POKETEXT changes the one place *)
(* it is for and no other: that is the result of TextPatch.                *)
(*                                                                         *)
(* A handler runs from waitpid to PTRACE_CONT in one step: the thread it   *)
(* works on is stopped and the maps it changes belong to the debugger.     *)
(***************************************************************************)
EXTENDS Integers, Sequences, FiniteSets, SequencesExt

CONSTANTS
  Threads,   \* the threads of the target, alive or not yet started
  Main,      \* the main thread (traceePid)
  Unborn,    \* threads that do not exist yet when oid attaches
  Rets,      \* the return instructions of the probed function
  Probe,     \* "entry", "retval" (return:f:retval) or "retarg" (return:f:arg0)
  Env        \* what the environment may do in this model

EnvEvents ==
  {"main_calls",   \* the main thread calls the probed function
   "clone",        \* a traced thread starts another
   "clone_attach", \* a thread not seized yet starts another
   "exit",         \* a thread exits
   "patch_fail",   \* planting the traps fails, possibly half-way
   "locate_fail",  \* an argument cannot be located
   "jit_segv", "jit_bus",   \* the JIT'd code faults
   "user_segv", "user_bus", "user_ill", \* the target's own code faults
   "interrupt",    \* SIGINT reaches oid, any number of times
   "timeout"}      \* oid runs with -t

ASSUME DebuggerAssumption ==
  /\ Main \in Threads
  /\ Unborn \subseteq Threads \ {Main}
  /\ Rets # {}
  /\ Rets \cap {"out", "entry", "body", "tail", "jit", "jitret", "zero", "lost"} = {}
  /\ Probe \in {"entry", "retval", "retarg"}
  /\ Env \subseteq EnvEvents

Code   == {"out", "entry", "body", "tail"} \cup Rets
Sites  == {"entry"} \cup Rets
Places == Code \cup {"jit", "jitret", "zero", "lost"}
Stops  == {"none", "SIGTRAP", "SIGSEGV", "SIGBUS", "SIGILL",
           "EVENT_STOP", "EVENT_EXIT", "EVENT_CLONE"}
Runs   == {"unborn", "running", "stopped", "zombie", "gone"}

\* What the thread would be doing without oid.
succ(s) == CASE s = "out"   -> {"entry"}
             [] s = "entry" -> {"body"}
             [] s = "body"  -> {"tail"}
             [] s = "tail"  -> Rets
             [] OTHER       -> {"out"}

VARIABLES
  th,              \* the threads: see Thread below
  int3,            \* the places where the text holds an INT3
  activeTraps,     \* the places that have an active trap
  threadTrapState, \* thread -> the trap it is being processed for
  remoteObj,       \* whose argument the JIT'd code would look at
  threadList,      \* the threads oid believes it traces, a vector
  count,           \* JIT runs completed
  oidShouldExit,   \* set by the SIGINT/SIGALRM handler
  pc,              \* where runScript is
  cur,             \* the thread whose clone event is being handled
  done             \* how many of threadList restoreState has dealt with

vars == <<th, int3, activeTraps, threadTrapState, remoteObj, threadList, count,
          oidShouldExit, pc, cur, done>>

Thread == [loc: Places, off: {0, 1}, run: Runs, stop: Stops,
           seen: BOOLEAN, traced: BOOLEAN, intr: BOOLEAN,
           traceexit: BOOLEAN, child: Threads \cup {"none"}]

\* Mutant: the prologue's trap is set up with the kind of a return trap.
trapKind_jitAsRet(s) ==
  IF s = "entry" THEN IF Probe = "entry" THEN "OID_TRAP_VECT_ENTRY"
                                         ELSE "OID_TRAP_VECT_ENTRYRET"
                 ELSE "OID_TRAP_VECT_RET"

trapKind(s) ==
  CASE s = "jitret"                        -> "OID_TRAP_JITCODERET"
    [] s = "entry" /\ Probe = "entry"      -> "OID_TRAP_VECT_ENTRY"
    [] s = "entry" /\ Probe # "entry"      -> "OID_TRAP_VECT_ENTRYRET"
    [] OTHER                               -> "OID_TRAP_VECT_RET"

\* The places functionPatch instruments for the probe.
probeSites == CASE Probe = "entry"  -> {"entry"}
                [] Probe = "retval" -> Rets
                [] OTHER            -> {"entry"} \cup Rets

PCs == {"attach", "interruptMain", "waitMain", "patch", "loop", "call", "wait",
        "waitChild", "removeTraps", "removeWait", "drain", "drainChild",
        "restore", "restoreWait", "done"}

TypeOK ==
  /\ th \in [Threads -> Thread]
  /\ int3 \subseteq (Sites \cup {"jitret"})
  /\ activeTraps \subseteq (Sites \cup {"jitret"})
  /\ DOMAIN threadTrapState \subseteq Threads
  /\ \A t \in DOMAIN threadTrapState : threadTrapState[t] \in Sites
  /\ remoteObj \in Threads \cup {"none"}
  /\ threadList \in Seq(Threads)
  /\ count \in Nat
  /\ oidShouldExit \in BOOLEAN
  /\ pc \in PCs
  /\ cur \in Threads \cup {"none"}
  /\ done \in 0 .. Len(threadList)

(***************************************************************************)
(* The threads and the kernel (external: ptrace(2), waitpid(2), x86)       *)
(***************************************************************************)

running(t) == th[t].run = "running"

\* t stops and the stop is there for waitpid to report.
stopped(r, reason) == [r EXCEPT !.run = "stopped", !.stop = reason, !.seen = FALSE]

\* waitpid has returned the stop; PTRACE_INTERRUPT is asked for; PTRACE_SEIZE.
reported(r)    == [r EXCEPT !.seen = TRUE]
interrupted(r) == [r EXCEPT !.intr = TRUE]
seized(r)      == [r EXCEPT !.traced = TRUE, !.traceexit = TRUE]

\* PTRACE_SETREGS: the thread goes on at the start of the instruction at s.
setRip(r, s) == [r EXCEPT !.loc = s, !.off = 0]

\* PTRACE_CONT of a stopped thread; anything else is an error without effect.
resumed(r) ==
  IF r.run # "stopped" THEN r
  ELSE IF r.stop = "EVENT_EXIT"
    THEN [r EXCEPT !.run = "zombie", !.stop = "none", !.seen = FALSE]
    ELSE [r EXCEPT !.run = "running", !.stop = "none", !.seen = FALSE]

\* PTRACE_DETACH of a stopped thread.
detached(r) ==
  IF r.run # "stopped" THEN r
  ELSE [resumed(r) EXCEPT !.traced = FALSE, !.intr = FALSE]

\* waitpid has returned the death of a thread.
reaped(r) == [r EXCEPT !.run = "gone"]

\* The kernel's side of a clone: the child of a traced thread is attached with
\* the options of its parent and stopped.
attached(r, parent) ==
  [stopped(r, "EVENT_STOP") EXCEPT !.traced = TRUE, !.traceexit = parent.traceexit]

\* waitpid has a status to report for t: a new stop, or its death.
reportable(t) ==
  /\ th[t].traced
  /\ \/ th[t].run = "stopped" /\ ~th[t].seen
     \/ th[t].run = "zombie"

DebuggerUnchanged ==
  UNCHANGED <<int3, activeTraps, threadTrapState, remoteObj, threadList, count,
              oidShouldExit, pc, cur, done>>

\* The next instruction of the target's own code.
Step(t) ==
  /\ running(t) /\ th[t].off = 0 /\ th[t].loc \in Code \ int3
  /\ t = Main /\ th[t].loc = "out" => "main_calls" \in Env
  /\ \E s \in succ(th[t].loc) : th' = [th EXCEPT ![t].loc = s]
  /\ DebuggerUnchanged

\* An INT3: a stop the tracer sees, or the end of a process without one.
HitTrap(t) ==
  /\ running(t) /\ th[t].off = 0 /\ th[t].loc \in int3
  /\ th' = IF th[t].traced
             THEN [th EXCEPT ![t] = [stopped(@, "SIGTRAP") EXCEPT !.off = 1]]
             ELSE [th EXCEPT ![t].loc = "lost"]
  /\ DebuggerUnchanged

\* The JIT'd code runs to its end.
RunJit(t) ==
  /\ running(t) /\ th[t].loc = "jit"
  /\ th' = [th EXCEPT ![t].loc = "jitret"]
  /\ DebuggerUnchanged

Fault(t, sig) ==
  th' = IF th[t].traced THEN [th EXCEPT ![t] = stopped(@, sig)]
                        ELSE [th EXCEPT ![t].loc = "lost"]

JitFault(t) ==
  /\ running(t) /\ th[t].loc = "jit"
  /\ \/ "jit_segv" \in Env /\ Fault(t, "SIGSEGV")
     \/ "jit_bus" \in Env /\ Fault(t, "SIGBUS")
  /\ DebuggerUnchanged

\* The target's own code faults; it has a handler, so the thread lives on.
UserFault(t) ==
  /\ running(t) /\ th[t].off = 0 /\ th[t].loc \in Code /\ th[t].traced
  /\ \/ "user_segv" \in Env /\ Fault(t, "SIGSEGV")
     \/ "user_bus" \in Env /\ Fault(t, "SIGBUS")
     \/ "user_ill" \in Env /\ Fault(t, "SIGILL")
  /\ DebuggerUnchanged

\* Execution from the middle of an instruction: anything may happen next.
Derail(t) ==
  /\ running(t) /\ th[t].off = 1
  /\ th' = [th EXCEPT ![t] = setRip(@, "lost")]
  /\ DebuggerUnchanged

\* An instruction fetch from address 0, or from the zeros that removeTrap
\* leaves where the JIT'd code ended.
FetchFault(t) ==
  /\ running(t)
  /\ \/ th[t].loc = "zero"
     \/ th[t].loc = "jitret" /\ "jitret" \notin int3
  /\ Fault(t, "SIGSEGV")
  /\ DebuggerUnchanged

\* A traced thread starts u: u is attached, and both stop.  A thread that is
\* not traced starts a thread that is not traced either.
Clone(t, u) ==
  /\ running(t) /\ th[t].loc = "out" /\ th[t].off = 0
  /\ th[u].run = "unborn"
  /\ IF th[t].traced THEN "clone" \in Env ELSE "clone_attach" \in Env
  /\ th' = IF th[t].traced
             THEN [th EXCEPT ![t] = [stopped(@, "EVENT_CLONE") EXCEPT !.child = u],
                             ![u] = attached(@, th[t])]
             ELSE [th EXCEPT ![u].run = "running"]
  /\ DebuggerUnchanged

\* t exits.  PTRACE_O_TRACEEXIT stops it on the way; a thread attached by a
\* clone loses that option to the SETOPTIONS in processTrap.
Exit(t) ==
  /\ "exit" \in Env
  /\ running(t) /\ th[t].loc \in {"out", "body"} /\ th[t].off = 0
  /\ t = Main => \A u \in Threads \ {Main} : th[u].run \in {"unborn", "gone"}
  /\ th' = [th EXCEPT ![t] = IF ~@.traced THEN reaped(@)
                             ELSE IF @.traceexit THEN stopped(@, "EVENT_EXIT")
                             ELSE [@ EXCEPT !.run = "zombie"]]
  /\ DebuggerUnchanged

\* A PTRACE_INTERRUPT takes effect.
StopOnInterrupt(t) ==
  /\ running(t) /\ th[t].traced /\ th[t].intr
  /\ th' = [th EXCEPT ![t] = [stopped(@, "EVENT_STOP") EXCEPT !.intr = FALSE]]
  /\ DebuggerUnchanged

(***************************************************************************)
(* Attaching                                                               *)
(***************************************************************************)

\* targetAttach: one PTRACE_SEIZE per entry of /proc/<pid>/task, while the
\* threads run.  The directory lists the threads that were there when it was
\* opened and possibly younger ones.
Seize(t) ==
  /\ pc = "attach"
  /\ running(t) /\ ~th[t].traced
  /\ th' = [th EXCEPT ![t] = seized(@)]
  /\ threadList' = Append(threadList, t)
  /\ UNCHANGED <<int3, activeTraps, threadTrapState, remoteObj, count,
                 oidShouldExit, pc, cur, done>>

Seized ==
  /\ pc = "attach"
  /\ \A t \in Threads \ Unborn : th[t].traced \/ th[t].run = "gone"
  /\ pc' = "interruptMain"
  /\ UNCHANGED <<th, int3, activeTraps, threadTrapState, remoteObj, threadList,
                 count, oidShouldExit, cur, done>>

\* PTRACE_INTERRUPT, unless the thread is dead.
interruptible(t) == th[t].traced /\ th[t].run \in {"running", "stopped"}

\* The end of oid: the kernel detaches the threads oid still traces.  One left
\* in a signal stop gets that signal.
released(r) ==
  IF r.run = "stopped" /\ r.stop = "SIGTRAP"
    THEN setRip(detached(r), "lost")
    ELSE IF r.run = "zombie" THEN [reaped(r) EXCEPT !.traced = FALSE]
    ELSE [detached(r) EXCEPT !.traced = FALSE, !.intr = FALSE]

oidExits ==
  /\ th' = [t \in Threads |-> IF th[t].traced THEN released(th[t]) ELSE th[t]]
  /\ pc' = "done"

InterruptMain ==
  /\ pc = "interruptMain"
  /\ IF interruptible(Main)
       THEN th' = [th EXCEPT ![Main] = interrupted(@)] /\ pc' = "waitMain"
       ELSE oidExits
  /\ UNCHANGED <<int3, activeTraps, threadTrapState, remoteObj, threadList,
                 count, oidShouldExit, cur, done>>

\* waitpid(traceePid) does not look at what kind of stop it was told of.
WaitMain ==
  /\ pc = "waitMain"
  /\ reportable(Main)
  /\ IF th[Main].run = "zombie" THEN oidExits
       ELSE th' = [th EXCEPT ![Main] = reported(@)] /\ pc' = "patch"
  /\ UNCHANGED <<int3, activeTraps, threadTrapState, remoteObj, threadList,
                 count, oidShouldExit, cur, done>>

\* patchFunctions, then contTargetThread(false).
PatchFunctions ==
  /\ pc = "patch"
  /\ int3' = int3 \cup probeSites
  /\ activeTraps' = activeTraps \cup probeSites
  /\ th' = [th EXCEPT ![Main] = resumed(@)]
  /\ pc' = "loop"
  /\ UNCHANGED <<threadTrapState, remoteObj, threadList, count, oidShouldExit, cur, done>>

\* patchFunctions fails, before a trap is planted or at a POKETEXT: oid lets
\* go of the target and ends, with the traps it has planted left in the text.
PatchFunctionsFails ==
  /\ pc = "patch" /\ "patch_fail" \in Env
  /\ \E planted \in SUBSET probeSites :
       /\ planted # probeSites
       /\ "entry" \in probeSites \ planted => planted = {}  \* it comes first
       /\ int3' = int3 \cup planted
  /\ oidExits
  /\ UNCHANGED <<activeTraps, threadTrapState, remoteObj, threadList, count,
                 oidShouldExit, cur, done>>

(***************************************************************************)
(* The main loop                                                           *)
(***************************************************************************)

\* Mutant: the loop does not look at the flag.
CheckLoop_ignoresFlag ==
  /\ pc = "loop"
  /\ pc' = IF threadList = << >> THEN "removeTraps" ELSE "call"
  /\ UNCHANGED <<th, int3, activeTraps, threadTrapState, remoteObj, threadList,
                 count, oidShouldExit, cur, done>>

\* while (!isInterrupted()), and processTrap's look at the thread list.
CheckLoop ==
  /\ pc = "loop"
  /\ pc' = IF oidShouldExit \/ threadList = << >> THEN "removeTraps" ELSE "call"
  /\ UNCHANGED <<th, int3, activeTraps, threadTrapState, remoteObj, threadList,
                 count, oidShouldExit, cur, done>>

\* processTrap enters waitpid.
CallWait ==
  /\ pc = "call"
  /\ pc' = "wait"
  /\ UNCHANGED <<th, int3, activeTraps, threadTrapState, remoteObj, threadList,
                 count, oidShouldExit, cur, done>>

\* There is no thread left to wait for: ECHILD falls through to "process not
\* stopped", OID_ERR when blocking and OID_CONT when not.
NoChild ==
  /\ pc \in {"wait", "drain"}
  /\ threadList # << >>
  /\ \A t \in Threads : th[t].traced => th[t].run \in {"gone", "unborn"}
  /\ pc' = IF pc = "wait" THEN "loop" ELSE "drain"
  /\ UNCHANGED <<th, int3, activeTraps, threadTrapState, remoteObj, threadList,
                 count, oidShouldExit, cur, done>>

blocking == pc = "wait"
OID_CONT == IF blocking THEN "loop" ELSE "drain"
OID_ERR  == IF blocking THEN "loop" ELSE "restore"
OID_DONE == IF blocking THEN "removeTraps" ELSE "restore"

\* waitpid returns t.
waitpid(t) ==
  /\ pc \in {"wait", "drain"}
  /\ threadList # << >>
  /\ reportable(t)

\* Mutant: no check for a probe that is already running.
canProcessTrapForThread_always(t) == TRUE

canProcessTrapForThread(t) ==
  threadTrapState = << >> \/ t \in DOMAIN threadTrapState

\* Single-stepping the saved instruction of site s takes the thread past it.
\* A JITCODERET trap has no saved instruction: its replay address is 0.
replayed(r, s) ==
  setRip(resumed(r), CASE s = "jitret" -> "zero"
                       [] s = "entry"  -> "body"
                       [] OTHER        -> "out")

\* replayTrappedInstr.  A signal to oid can end its wait for the single step
\* (EINTR): the registers are read and set too early or not at all, the thread
\* is continued or stops later, and not at an instruction of its path.
replays(t, s) ==
  \/ /\ th' = [th EXCEPT ![t] = replayed(@, s)]
     /\ UNCHANGED oidShouldExit
  \/ /\ s # "jitret"
     /\ "interrupt" \in Env \/ ("timeout" \in Env /\ blocking /\ ~oidShouldExit)
     /\ \E r \in {resumed(th[t]), stopped(th[t], "SIGTRAP")} :
          th' = [th EXCEPT ![t] = setRip(r, "lost")]
     /\ oidShouldExit' = TRUE

\* The trap state's savedRegs are past the instruction when the trap is the
\* helper of a return probe, which has replayed it on them.
regsMovedOn(s) == trapKind(s) = "OID_TRAP_VECT_ENTRYRET"

\* Replaying from savedRegs.  With registers that have moved on the instruction
\* takes effect a second time.
replaysSaved(t) ==
  IF regsMovedOn(threadTrapState[t])
    THEN /\ th' = [th EXCEPT ![t] = setRip(resumed(@), "lost")]
         /\ UNCHANGED oidShouldExit
    ELSE replays(t, threadTrapState[t])

erase(f, t) == [u \in DOMAIN f \ {t} |-> f[u]]
insert_or_assign(f, t, v) == [u \in DOMAIN f \cup {t} |-> IF u = t THEN v ELSE f[u]]

HandleDeath(t) ==
  /\ waitpid(t) /\ th[t].run = "zombie"
  /\ th' = [th EXCEPT ![t] = reaped(@)]
  /\ pc' = OID_CONT
  /\ UNCHANGED <<int3, activeTraps, threadTrapState, remoteObj, threadList,
                 count, oidShouldExit, cur, done>>

\* erase(remove(list, t)); a thread is in the list once at most.
without(list, t) ==
  IF \E i \in DOMAIN list : list[i] = t
    THEN RemoveAt(list, CHOOSE i \in DOMAIN list : list[i] = t)
    ELSE list

\* PTRACE_EVENT_STOP and PTRACE_EVENT_EXIT.
HandleEvent(t) ==
  /\ waitpid(t) /\ th[t].stop \in {"EVENT_STOP", "EVENT_EXIT"}
  /\ threadList' = IF th[t].stop = "EVENT_EXIT"
                     THEN without(threadList, t)
                     ELSE threadList
  /\ th' = [th EXCEPT ![t] = resumed(@)]
  /\ pc' = OID_CONT
  /\ UNCHANGED <<int3, activeTraps, threadTrapState, remoteObj, count,
                 oidShouldExit, cur, done>>

\* A clone event: the child joins the list, and oid waits for its stop.
HandleClone(t) ==
  /\ waitpid(t) /\ th[t].stop = "EVENT_CLONE"
  /\ threadList' = Append(threadList, th[t].child)
  /\ th' = [th EXCEPT ![t] = reported(@)]
  /\ cur' = t
  /\ pc' = IF blocking THEN "waitChild" ELSE "drainChild"
  /\ UNCHANGED <<int3, activeTraps, threadTrapState, remoteObj, count, oidShouldExit, done>>

\* Whatever the child reports is taken for its initial stop.
WaitChild ==
  LET u == th[cur].child
  IN  /\ pc \in {"waitChild", "drainChild"}
      /\ reportable(u)
      /\ th' = [th EXCEPT ![u] = IF @.run = "zombie" THEN reaped(@)
                                 ELSE [resumed(@) EXCEPT !.traceexit = FALSE],
                          ![cur] = resumed(@)]
      /\ pc' = IF pc = "waitChild" THEN "loop" ELSE "drain"
      /\ UNCHANGED <<int3, activeTraps, threadTrapState, remoteObj, threadList,
                     count, oidShouldExit, cur, done>>

\* Mutant: the trap state is dropped but the registers are not restored.
HandleSegv_keepsRegs(t) ==
  /\ waitpid(t) /\ th[t].stop = "SIGSEGV"
  /\ th' = [th EXCEPT ![t] = resumed(@)]
  /\ threadTrapState' = erase(threadTrapState, t)
  /\ pc' = OID_DONE
  /\ UNCHANGED <<int3, activeTraps, remoteObj, threadList, count,
                 oidShouldExit, cur, done>>

\* SIGSEGV: a thread with trap state is put back on its original path, for any
\* other the signal is forwarded (the target handles it and goes on).
HandleSegv(t) ==
  /\ waitpid(t) /\ th[t].stop = "SIGSEGV"
  /\ IF t \in DOMAIN threadTrapState
       THEN /\ replaysSaved(t)
            /\ threadTrapState' = erase(threadTrapState, t)
       ELSE /\ th' = [th EXCEPT ![t] = resumed(@)]
            /\ UNCHANGED <<threadTrapState, oidShouldExit>>
  /\ pc' = OID_DONE
  /\ UNCHANGED <<int3, activeTraps, remoteObj, threadList, count, cur, done>>

\* SIGBUS and SIGILL are logged; the thread stays stopped.
HandleBusOrIll(t) ==
  /\ waitpid(t) /\ th[t].stop \in {"SIGBUS", "SIGILL"}
  /\ th' = [th EXCEPT ![t] = reported(@)]
  /\ pc' = IF th[t].stop = "SIGBUS" THEN OID_DONE ELSE OID_CONT
  /\ UNCHANGED <<int3, activeTraps, threadTrapState, remoteObj, threadList,
                 count, oidShouldExit, cur, done>>

\* Mutant: the skipped thread is not continued.
SkipTrap_noCont(t) ==
  /\ waitpid(t) /\ th[t].stop = "SIGTRAP" /\ th[t].loc \in activeTraps
  /\ ~blocking \/ ~canProcessTrapForThread(t)
  /\ th' = [th EXCEPT ![t] = reported(@)]
  /\ pc' = OID_CONT
  /\ UNCHANGED <<int3, activeTraps, threadTrapState, remoteObj, threadList,
                 count, oidShouldExit, cur, done>>

\* A trap while another probe runs, or after the loop: replay and go on.
SkipTrap(t) ==
  /\ waitpid(t) /\ th[t].stop = "SIGTRAP" /\ th[t].loc \in activeTraps
  /\ ~blocking \/ ~canProcessTrapForThread(t)
  /\ replays(t, th[t].loc)
  /\ pc' = OID_CONT
  /\ UNCHANGED <<int3, activeTraps, threadTrapState, remoteObj, threadList,
                 count, cur, done>>

\* A SIGTRAP with no active trap: back to the start of the instruction.
StrayTrap(t) ==
  /\ waitpid(t) /\ th[t].stop = "SIGTRAP" /\ th[t].loc \notin activeTraps
  /\ th' = [th EXCEPT ![t] = setRip(resumed(@), @.loc)]
  /\ pc' = OID_CONT
  /\ UNCHANGED <<int3, activeTraps, threadTrapState, remoteObj, threadList,
                 count, oidShouldExit, cur, done>>

\* A trap that is going to be processed: processTrap removes it first.
takesTrap(t) ==
  /\ waitpid(t) /\ th[t].stop = "SIGTRAP" /\ th[t].loc \in activeTraps
  /\ blocking /\ canProcessTrapForThread(t)
  /\ activeTraps' = activeTraps \ {th[t].loc}
  /\ int3' = int3 \ {th[t].loc}

\* The trap's args: those of the request, or the return value.
locatesArgs(s) == trapKind(s) # "OID_TRAP_VECT_RET" \/ Probe = "retval"

\* Mutant: the entry helper of a return probe does not replay.
processFuncTrap_noReplay(t) ==
  LET s == th[t].loc
  IN  /\ takesTrap(t)
      /\ trapKind(s) # "OID_TRAP_JITCODERET"
      /\ remoteObj' = IF locatesArgs(s) THEN t ELSE remoteObj
      /\ threadTrapState' = insert_or_assign(threadTrapState, t, s)
      /\ th' = IF trapKind(s) = "OID_TRAP_VECT_ENTRYRET"
                 THEN [th EXCEPT ![t] = resumed(@)]
                 ELSE [th EXCEPT ![t] = setRip(resumed(@), "jit")]
      /\ pc' = OID_CONT
      /\ UNCHANGED <<threadList, count, oidShouldExit, cur, done>>

processFuncTrap(t) ==
  LET s == th[t].loc
  IN  /\ takesTrap(t)
      /\ trapKind(s) # "OID_TRAP_JITCODERET"
      /\ remoteObj' = IF locatesArgs(s) THEN t ELSE remoteObj
      /\ threadTrapState' = insert_or_assign(threadTrapState, t, s)
      /\ IF trapKind(s) = "OID_TRAP_VECT_ENTRYRET"
           THEN replays(t, s)
           ELSE /\ th' = [th EXCEPT ![t] = setRip(resumed(@), "jit")]
                /\ UNCHANGED oidShouldExit
      /\ pc' = OID_CONT
      /\ UNCHANGED <<threadList, count, cur, done>>

\* locateObjectsAddresses fails: the trap is gone, the thread goes on.
processFuncTrapFails(t) ==
  LET s == th[t].loc
  IN  /\ "locate_fail" \in Env
      /\ takesTrap(t)
      /\ trapKind(s) # "OID_TRAP_JITCODERET" /\ locatesArgs(s)
      /\ replays(t, s)
      /\ pc' = OID_ERR
      /\ UNCHANGED <<threadTrapState, remoteObj, threadList, count, cur, done>>

\* The JIT'd code has ended: replay the instruction the trap was put over.
processJitCodeRet(t) ==
  /\ takesTrap(t)
  /\ trapKind(th[t].loc) = "OID_TRAP_JITCODERET"
  /\ IF t \in DOMAIN threadTrapState
       THEN /\ replaysSaved(t)
            /\ threadTrapState' = erase(threadTrapState, t)
            /\ count' = count + 1
            /\ pc' = IF count + 1 = 1 \/ oidShouldExit' THEN OID_DONE ELSE OID_CONT
       ELSE /\ th' = [th EXCEPT ![t] = reported(@)]
            /\ pc' = OID_CONT
            /\ UNCHANGED <<threadTrapState, count, oidShouldExit>>
  /\ UNCHANGED <<remoteObj, threadList, cur, done>>

(***************************************************************************)
(* Detaching                                                               *)
(***************************************************************************)

\* removeTraps interrupts the main thread, or gives up if it is dead.
RemoveTraps ==
  /\ pc = "removeTraps"
  /\ IF interruptible(Main)
       THEN th' = [th EXCEPT ![Main] = interrupted(@)] /\ pc' = "removeWait"
       ELSE UNCHANGED th /\ pc' = "drain"
  /\ UNCHANGED <<int3, activeTraps, threadTrapState, remoteObj, threadList,
                 count, oidShouldExit, cur, done>>

\* Mutant: only the return sites are put back.
removesText_retsOnly(main) ==
  /\ activeTraps' = activeTraps \cap {"jitret"}
  /\ int3' = IF main.run = "stopped" THEN int3 \ Rets ELSE int3
  /\ pc' = "drain"

\* ... waits for it without looking at the status, restores the text and
\* continues it.  Without a stopped thread every POKETEXT fails, but the traps
\* are forgotten all the same.
removesText(main) ==
  /\ activeTraps' = activeTraps \cap {"jitret"}
  /\ int3' = IF main.run = "stopped" THEN int3 \ (activeTraps \ {"jitret"}) ELSE int3
  /\ pc' = "drain"

RemoveWait ==
  /\ pc = "removeWait"
  /\ reportable(Main)
  /\ removesText(th[Main])
  /\ th' = [th EXCEPT ![Main] = IF @.run = "zombie" THEN reaped(@)
                                ELSE resumed(@)]
  /\ UNCHANGED <<threadTrapState, remoteObj, threadList, count, oidShouldExit, cur, done>>

\* waitpid(WNOHANG) has nothing to report, or there is no thread in the list.
DrainEnds ==
  /\ pc = "drain"
  /\ \/ threadList = << >>
     \/ /\ \A t \in Threads : ~reportable(t)
        /\ \E t \in Threads : th[t].traced /\ th[t].run \in {"running", "stopped"}
  /\ pc' = "restore"
  /\ UNCHANGED <<th, int3, activeTraps, threadTrapState, remoteObj, threadList,
                 count, oidShouldExit, cur, done>>

\* restoreState, one thread of the list after the other.
p == threadList[done + 1]

\* waitpid(p, WNOHANG | WSTOPPED) reports a stop: rewind a trapped thread, then
\* detach it (and a child that is just being created).
restored(r) ==
  CASE r.stop = "SIGTRAP" /\ p \in DOMAIN threadTrapState ->
         setRip(r, IF regsMovedOn(threadTrapState[p]) THEN "lost"
                                                      ELSE threadTrapState[p])
    [] r.stop = "SIGTRAP" /\ p \notin DOMAIN threadTrapState ->
         setRip(r, r.loc)
    [] OTHER -> r

RestoreStopped ==
  /\ pc = "restore" /\ done < Len(threadList)
  /\ reportable(p)
  /\ th' = [t \in Threads |->
              IF t = p
                THEN IF th[p].run = "zombie" THEN reaped(th[p])
                                             ELSE detached(restored(th[p]))
              ELSE IF th[p].stop = "EVENT_CLONE" /\ t = th[p].child
                THEN detached(th[t])
              ELSE th[t]]
  /\ done' = done + 1
  /\ UNCHANGED <<int3, activeTraps, threadTrapState, remoteObj, threadList,
                 count, oidShouldExit, pc, cur>>

\* waitpid reports nothing: interrupt p and wait for it to stop.
RestoreInterrupt ==
  /\ pc = "restore" /\ done < Len(threadList)
  /\ ~reportable(p) /\ interruptible(p)
  /\ th' = [th EXCEPT ![p] = interrupted(@)]
  /\ pc' = "restoreWait"
  /\ UNCHANGED <<int3, activeTraps, threadTrapState, remoteObj, threadList,
                 count, oidShouldExit, cur, done>>

\* waitpid fails: p is gone.
RestoreGone ==
  /\ pc = "restore" /\ done < Len(threadList)
  /\ ~reportable(p) /\ ~interruptible(p)
  /\ done' = done + 1
  /\ UNCHANGED <<th, int3, activeTraps, threadTrapState, remoteObj, threadList,
                 count, oidShouldExit, pc, cur>>

RestoreWait ==
  /\ pc = "restoreWait"
  /\ reportable(p)
  /\ th' = [th EXCEPT ![p] = IF @.run = "zombie" THEN reaped(@)
                                                 ELSE detached(@)]
  /\ done' = done + 1
  /\ pc' = "restore"
  /\ UNCHANGED <<int3, activeTraps, threadTrapState, remoteObj, threadList,
                 count, oidShouldExit, cur>>

RestoreDone ==
  /\ pc = "restore" /\ done = Len(threadList)
  /\ oidExits
  /\ UNCHANGED <<int3, activeTraps, threadTrapState, remoteObj, threadList,
                 count, oidShouldExit, cur, done>>

(***************************************************************************)
(* SIGINT and the timeout's SIGALRM share a handler, which sets a flag; a  *)
(* waitpid that is blocked returns EINTR (SA_RESTART is not set).          *)
(***************************************************************************)

sigIntHandler ==
  /\ oidShouldExit' = TRUE
  /\ CASE pc = "wait" -> /\ pc' = "removeTraps"
                         /\ UNCHANGED <<th, int3, activeTraps, done>>
       [] pc = "waitMain" -> oidExits /\ UNCHANGED <<int3, activeTraps, done>>
       [] pc \in {"waitChild", "drainChild"} ->
                         /\ pc' = IF pc = "waitChild" THEN "loop" ELSE "drain"
                         /\ th' = [th EXCEPT ![cur] = resumed(@)]
                         /\ UNCHANGED <<int3, activeTraps, done>>
       [] pc = "removeWait" -> removesText(th[Main]) /\ UNCHANGED <<th, done>>
       [] pc = "restoreWait" -> /\ done' = done + 1
                                /\ pc' = "restore"
                                /\ UNCHANGED <<th, int3, activeTraps>>
       [] OTHER -> UNCHANGED <<th, int3, activeTraps, pc, done>>
  /\ UNCHANGED <<threadTrapState, remoteObj, threadList, count, cur>>

\* SIGINT may come at any time once the handlers are installed, and again.
Interrupt == "interrupt" \in Env /\ pc # "done" /\ sigIntHandler

\* The timer runs from alarm(timeout_s) to alarm(0), around the main loop, and
\* goes off once.
Timeout ==
  /\ "timeout" \in Env /\ pc \in {"loop", "call", "wait", "waitChild"}
  /\ ~oidShouldExit
  /\ sigIntHandler

(***************************************************************************)
(* The system                                                              *)
(***************************************************************************)

\* compileCode has run; the traced threads are about to be seized.
Init ==
  /\ th = [t \in Threads |->
             [loc |-> "out", off |-> 0,
              run |-> IF t \in Unborn THEN "unborn" ELSE "running",
              stop |-> "none", seen |-> FALSE, traced |-> FALSE,
              intr |-> FALSE, traceexit |-> FALSE, child |-> "none"]]
  /\ int3 = {"jitret"}
  /\ activeTraps = {"jitret"}
  /\ threadTrapState = << >>
  /\ remoteObj = "none"
  /\ threadList = << >>
  /\ count = 0
  /\ oidShouldExit = FALSE
  /\ pc = "attach"
  /\ cur = "none"
  /\ done = 0

Kernel(t) == HitTrap(t) \/ RunJit(t) \/ FetchFault(t) \/ StopOnInterrupt(t)

Environment(t) ==
  \/ JitFault(t) \/ UserFault(t) \/ Derail(t) \/ Exit(t)
  \/ \E u \in Threads : Clone(t, u)

processTrap(t) ==
  \/ HandleDeath(t) \/ HandleEvent(t) \/ HandleClone(t) \/ HandleSegv(t)
  \/ HandleBusOrIll(t) \/ SkipTrap(t) \/ StrayTrap(t)
  \/ processFuncTrap(t) \/ processFuncTrapFails(t) \/ processJitCodeRet(t)

restoreState ==
  RestoreStopped \/ RestoreInterrupt \/ RestoreGone \/ RestoreWait \/ RestoreDone

Debugger ==
  \/ \E t \in Threads : Seize(t)
  \/ Seized \/ InterruptMain \/ WaitMain \/ PatchFunctions \/ PatchFunctionsFails
  \/ CheckLoop \/ CallWait \/ NoChild
  \/ \E t \in Threads : processTrap(t)
  \/ WaitChild \/ RemoveTraps \/ RemoveWait \/ DrainEnds \/ restoreState

Next ==
  \/ \E t \in Threads : Step(t) \/ Kernel(t) \/ Environment(t)
  \/ Debugger
  \/ Interrupt
  \/ Timeout

Spec == Init /\ [][Next]_vars

\* The kernel and oid are scheduled, and the timer runs out.
FairSpec ==
  /\ Spec
  /\ WF_vars(Debugger)
  /\ WF_vars(Timeout)
  /\ \A t \in Threads : WF_vars(Kernel(t)) /\ WF_vars(Derail(t))

\* ... and the target keeps calling the probed function.
BusySpec == FairSpec /\ \A t \in Threads : WF_vars(Step(t))

(***************************************************************************)
(* Properties                                                              *)
(***************************************************************************)

\* "Only one probe is allowed to run at a time" (processTrap): there is one
\* data segment and one set of argument slots, so two threads are never in the
\* JIT'd code together, whatever traps they hit and however the run ends.
OneProbeAtATime ==
  \A t, u \in Threads :
    th[t].loc \in {"jit", "jitret"} /\ th[u].loc \in {"jit", "jitret"} => t = u

\* A thread in the JIT'd code has the trap state that takes it back, and that
\* state is of a trap that vectors there.
JitHasWayBack ==
  \A t \in Threads :
    th[t].loc \in {"jit", "jitret"} =>
      /\ t \in DOMAIN threadTrapState
      /\ trapKind(threadTrapState[t]) # "OID_TRAP_VECT_ENTRYRET"

\* When oid has gone its traps are, and no thread is left in its code or waiting
\* for it: "We just need to be careful that no target threads end up waiting for
\* signals to be be dealt with by us" (removeTraps).
CleanDetach ==
  pc = "done" =>
    /\ int3 \subseteq {"jitret"}
    /\ \A t \in Threads : th[t].loc \in Code /\ th[t].off = 0

\* oid never blocks in waitpid on a thread it has left stopped itself.
waitsFor ==
  CASE pc \in {"waitMain", "removeWait"}       -> Main
    [] pc \in {"waitChild", "drainChild"}      -> th[cur].child
    [] pc = "restoreWait"                      -> p
    [] OTHER                                   -> "none"
NoSelfWait ==
  waitsFor # "none" => ~(th[waitsFor].run = "stopped" /\ th[waitsFor].seen)

\* Where a thread is on its own path, seen from the target: the instruction it
\* has been taken away from if it is in oid's code.
targetPos(t) ==
  CASE th[t].run = "unborn" -> "unborn"
    [] th[t].run \in {"zombie", "gone"} \/ th[t].stop = "EVENT_EXIT" -> "exited"
    [] th[t].loc \in {"jit", "jitret", "zero"} /\ t \in DOMAIN threadTrapState ->
         threadTrapState[t]
    [] OTHER -> th[t].loc

T == INSTANCE Target WITH pos <- [t \in Threads |-> targetPos(t)]

\* The target runs as if oid were not there (Target): each of its threads
\* executes every instruction of its path once, in order.
Transparent == T!Spec

\* oid always comes to its end: the traps are removed and the threads released.
Detaches == <>(pc = "done")

\* A thread that is stopped under oid runs again.
StoppedThreadsResume ==
  \A t \in Threads : []<>(th[t].run # "stopped")

=============================================================================
