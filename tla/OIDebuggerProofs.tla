-------------------------- MODULE OIDebuggerProofs --------------------------
(***************************************************************************)
(* OIDebugger for any number of threads and return sites, any probe and    *)
(* any environment: its state keeps its type, and at most one thread is in *)
(* the JIT'd code, with the trap state that takes it back.  Then, in a     *)
(* quiet environment, a clean detach and the refinement of Target.         *)
(***************************************************************************)
EXTENDS OIDebugger, TLAPS

\* A thread that reports a clone has a child.
ThreadOK(r) ==
  /\ r \in Thread
  /\ r.stop = "EVENT_CLONE" => r.child \in Threads

ThreadsOK ==
  /\ th \in [Threads -> Thread]
  /\ \A t \in Threads : ThreadOK(th[t])

\* The list is only shortened before restoreState walks over it.
ControlInv ==
  /\ pc \in {"waitChild", "drainChild"} => cur \in Threads
  /\ pc \notin {"restore", "restoreWait", "done"} => done = 0
  /\ pc = "restoreWait" => done < Len(threadList)

\* One thread at most has trap state.
OneTrapState == \A t, u \in DOMAIN threadTrapState : t = u

InJit(r) == r.loc \in {"jit", "jitret"}

-----------------------------------------------------------------------------
(***************************************************************************)
(* What ptrace and waitpid do to a thread                                  *)
(***************************************************************************)

\* A stop leaves a thread well formed and where it is.
LEMMA StoppedOK ==
  ASSUME NEW r, ThreadOK(r), NEW reason \in Stops \ {"EVENT_CLONE"}
  PROVE  ThreadOK(stopped(r, reason)) /\ stopped(r, reason).loc = r.loc
BY DEF ThreadOK, stopped, Thread, Runs

\* So does being continued.
LEMMA ResumedOK ==
  ASSUME NEW r, ThreadOK(r)
  PROVE  ThreadOK(resumed(r)) /\ resumed(r).loc = r.loc
BY DEF ThreadOK, resumed, Thread, Runs, Stops

\* So does being detached.
LEMMA DetachedOK ==
  ASSUME NEW r, ThreadOK(r)
  PROVE  ThreadOK(detached(r)) /\ detached(r).loc = r.loc
BY ResumedOK DEF ThreadOK, detached, Thread

\* So does being reaped.
LEMMA ReapedOK ==
  ASSUME NEW r, ThreadOK(r)
  PROVE  ThreadOK(reaped(r)) /\ reaped(r).loc = r.loc
BY DEF ThreadOK, reaped, Thread, Runs

\* Setting the registers puts a thread at the place given.
LEMMA SetRipOK ==
  ASSUME NEW r, ThreadOK(r), NEW s \in Places
  PROVE  ThreadOK(setRip(r, s)) /\ setRip(r, s).loc = s
BY DEF ThreadOK, setRip, Thread

\* The end of oid leaves a thread where it is or loses it.
LEMMA ReleasedOK ==
  ASSUME NEW r, ThreadOK(r)
  PROVE  ThreadOK(released(r)) /\ released(r).loc \in {r.loc, "lost"}
<1>1. "lost" \in Places
  BY DEF Places
<1>2. ThreadOK([reaped(r) EXCEPT !.traced = FALSE])
      /\ [reaped(r) EXCEPT !.traced = FALSE].loc = r.loc
  BY ReapedOK DEF ThreadOK, Thread
<1>3. ThreadOK([detached(r) EXCEPT !.traced = FALSE, !.intr = FALSE])
      /\ [detached(r) EXCEPT !.traced = FALSE, !.intr = FALSE].loc = r.loc
  BY DetachedOK DEF ThreadOK, Thread
<1>4. ThreadOK(setRip(detached(r), "lost")) /\ setRip(detached(r), "lost").loc = "lost"
  BY <1>1, DetachedOK, SetRipOK
<1> QED
  BY <1>2, <1>3, <1>4 DEF released

\* Replaying the instruction of a site takes a thread out of the JIT'd code.
LEMMA ReplayedOK ==
  ASSUME NEW r, ThreadOK(r), NEW s
  PROVE  ThreadOK(replayed(r, s)) /\ ~InJit(replayed(r, s))
<1>1. ThreadOK(resumed(r))
  BY ResumedOK
<1>2. {"zero", "body", "out"} \subseteq Places
  BY DEF Places, Code
<1>3. PICK q \in {"zero", "body", "out"} : replayed(r, s) = setRip(resumed(r), q)
  BY DEF replayed
<1> QED
  BY <1>1, <1>2, <1>3, SetRipOK DEF InJit

\* So does a replay that a signal to oid cuts short, which loses the thread.
LEMMA ReplaysOK ==
  ASSUME NEW t \in Threads, ThreadOK(th[t]), NEW s, replays(t, s)
  PROVE  /\ oidShouldExit' \in {TRUE, oidShouldExit}
         /\ \E r : ThreadOK(r) /\ ~InJit(r) /\ th' = [th EXCEPT ![t] = r]
<1>1. oidShouldExit' \in {TRUE, oidShouldExit}
  BY DEF replays
<1>2. CASE th' = [th EXCEPT ![t] = replayed(th[t], s)]
  BY <1>1, <1>2, ReplayedOK
<1>3. CASE \E r \in {resumed(th[t]), stopped(th[t], "SIGTRAP")} :
             th' = [th EXCEPT ![t] = setRip(r, "lost")]
  <2>1. PICK r \in {resumed(th[t]), stopped(th[t], "SIGTRAP")} :
               th' = [th EXCEPT ![t] = setRip(r, "lost")]
    BY <1>3
  <2>2. ThreadOK(r)
    BY ResumedOK, StoppedOK DEF Stops
  <2>3. ThreadOK(setRip(r, "lost")) /\ setRip(r, "lost").loc = "lost"
    BY <2>2, SetRipOK DEF Places
  <2> QED
    BY <1>1, <2>1, <2>3 DEF InJit
<1> QED
  BY <1>2, <1>3 DEF replays

\* And a replay from the registers of the trap state.
LEMMA ReplaysSavedOK ==
  ASSUME NEW t \in Threads, ThreadOK(th[t]), replaysSaved(t)
  PROVE  /\ oidShouldExit' \in {TRUE, oidShouldExit}
         /\ \E r : ThreadOK(r) /\ ~InJit(r) /\ th' = [th EXCEPT ![t] = r]
<1>1. ThreadOK(setRip(resumed(th[t]), "lost")) /\ setRip(resumed(th[t]), "lost").loc = "lost"
  BY ResumedOK, SetRipOK DEF Places
<1>2. CASE regsMovedOn(threadTrapState[t])
  BY <1>1, <1>2 DEF replaysSaved, InJit
<1>3. CASE ~regsMovedOn(threadTrapState[t])
  BY <1>3, ReplaysOK DEF replaysSaved
<1> QED
  BY <1>2, <1>3

\* The flags of a thread do not matter to its form.
LEMMA FlagsOK ==
  ASSUME NEW r, ThreadOK(r)
  PROVE  /\ ThreadOK(reported(r)) /\ reported(r).loc = r.loc
         /\ ThreadOK(interrupted(r)) /\ interrupted(r).loc = r.loc
         /\ ThreadOK(seized(r)) /\ seized(r).loc = r.loc
<1>1. TRUE \in BOOLEAN /\ FALSE \in BOOLEAN
  OBVIOUS
<1>2. r \in Thread /\ (r.stop = "EVENT_CLONE" => r.child \in Threads)
  BY DEF ThreadOK
<1>3. reported(r) \in Thread /\ reported(r).loc = r.loc
      /\ reported(r).stop = r.stop /\ reported(r).child = r.child
  BY <1>1, <1>2 DEF reported, Thread
<1>4. interrupted(r) \in Thread /\ interrupted(r).loc = r.loc
      /\ interrupted(r).stop = r.stop /\ interrupted(r).child = r.child
  BY <1>1, <1>2 DEF interrupted, Thread
<1>5. seized(r) \in Thread /\ seized(r).loc = r.loc
      /\ seized(r).stop = r.stop /\ seized(r).child = r.child
  BY <1>1, <1>2 DEF seized, Thread
<1> QED
  BY <1>2, <1>3, <1>4, <1>5 DEF ThreadOK

\* Each action leaves the threads well formed.
LEMMA ThreadStep ==
  ThreadsOK /\ TypeOK /\ ControlInv /\ [Next]_vars => ThreadsOK'
<1> SUFFICES ASSUME ThreadsOK, TypeOK, ControlInv, [Next]_vars PROVE ThreadsOK'
  OBVIOUS
<1>a. ASSUME NEW t \in Threads, NEW r, ThreadOK(r), th' = [th EXCEPT ![t] = r]
      PROVE  ThreadsOK'
  BY <1>a DEF ThreadsOK, ThreadOK
<1>b. CASE UNCHANGED th
  BY <1>b DEF ThreadsOK, ThreadOK
<1>c. \A t \in Threads : ThreadOK(th[t])
  BY DEF ThreadsOK
<1>d. \A t \in Threads : th[t] \in Thread
  BY <1>c DEF ThreadOK
<1>m. Main \in Threads
  BY DebuggerAssumption
<1>f. ASSUME NEW t \in Threads, NEW sig \in {"SIGSEGV", "SIGBUS", "SIGILL"}, Fault(t, sig)
      PROVE  ThreadsOK'
  <2>1. ThreadOK([th[t] EXCEPT !.loc = "lost"])
    BY <1>c DEF ThreadOK, Thread, Places
  <2> QED
    BY <1>a, <1>c, <1>f, <2>1, StoppedOK DEF Fault, Stops
<1>e. ASSUME oidExits PROVE ThreadsOK'
  BY <1>c, <1>e, ReleasedOK DEF oidExits, ThreadsOK, ThreadOK
<1>1. ASSUME NEW t \in Threads, Step(t) PROVE ThreadsOK'
  <2>1. PICK s \in succ(th[t].loc) : th' = [th EXCEPT ![t].loc = s]
    BY <1>1 DEF Step
  <2>2. s \in Places
    BY <2>1 DEF succ, Places, Code
  <2>3. ThreadOK([th[t] EXCEPT !.loc = s])
    BY <1>c, <2>2 DEF ThreadOK, Thread
  <2> QED
    BY <1>a, <2>1, <2>3
<1>2. ASSUME NEW t \in Threads, HitTrap(t) PROVE ThreadsOK'
  <2>1. ThreadOK([th[t] EXCEPT !.loc = "lost"])
    BY <1>c DEF ThreadOK, Thread, Places
  <2>2. ThreadOK(stopped(th[t], "SIGTRAP"))
    BY <1>c, StoppedOK DEF Stops
  <2>3. ThreadOK([stopped(th[t], "SIGTRAP") EXCEPT !.off = 1])
    BY <2>2 DEF ThreadOK, Thread
  <2> QED
    BY <1>a, <1>2, <2>1, <2>3 DEF HitTrap
<1>3. ASSUME NEW t \in Threads, RunJit(t) PROVE ThreadsOK'
  <2>1. ThreadOK([th[t] EXCEPT !.loc = "jitret"])
    BY <1>c DEF ThreadOK, Thread, Places
  <2> QED
    BY <1>a, <1>3, <2>1 DEF RunJit
<1>4. ASSUME NEW t \in Threads, JitFault(t) PROVE ThreadsOK'
  BY <1>f, <1>4 DEF JitFault
<1>5. ASSUME NEW t \in Threads, UserFault(t) PROVE ThreadsOK'
  BY <1>f, <1>5 DEF UserFault
<1>6. ASSUME NEW t \in Threads, Derail(t) PROVE ThreadsOK'
  BY <1>a, <1>c, <1>6, SetRipOK DEF Derail, Places
<1>7. ASSUME NEW t \in Threads, FetchFault(t) PROVE ThreadsOK'
  BY <1>f, <1>7 DEF FetchFault
<1>8. ASSUME NEW t \in Threads, NEW u \in Threads, Clone(t, u) PROVE ThreadsOK'
  <2>1. ThreadOK([stopped(th[t], "EVENT_CLONE") EXCEPT !.child = u])
    BY <1>c DEF ThreadOK, stopped, Thread, Runs, Stops
  <2>2. ThreadOK(attached(th[u], th[t]))
    <3>1. ThreadOK(stopped(th[u], "EVENT_STOP")) /\ th[t].traceexit \in BOOLEAN
      BY <1>c, <1>d, StoppedOK DEF Stops, Thread
    <3>2. stopped(th[u], "EVENT_STOP") \in Thread
          /\ stopped(th[u], "EVENT_STOP").stop = "EVENT_STOP"
      BY <3>1, <1>d DEF ThreadOK, stopped, Thread
    <3>3. TRUE \in BOOLEAN
      OBVIOUS
    <3>4. attached(th[u], th[t]) \in Thread
          /\ attached(th[u], th[t]).stop = "EVENT_STOP"
      BY <3>1, <3>2, <3>3 DEF attached, Thread
    <3> QED
      BY <3>4 DEF ThreadOK
  <2>3. ThreadOK([th[u] EXCEPT !.run = "running"])
    BY <1>c DEF ThreadOK, Thread, Runs
  <2>4. CASE th[t].traced
    BY <1>8, <2>1, <2>2, <2>4 DEF Clone, ThreadsOK, ThreadOK
  <2>5. CASE ~th[t].traced
    BY <1>a, <1>8, <2>3, <2>5 DEF Clone
  <2> QED
    BY <2>4, <2>5
<1>9. ASSUME NEW t \in Threads, Exit(t) PROVE ThreadsOK'
  <2>1. ThreadOK([th[t] EXCEPT !.run = "zombie"])
    BY <1>c DEF ThreadOK, Thread, Runs
  <2> QED
    BY <1>a, <1>c, <1>9, <2>1, StoppedOK, ReapedOK DEF Exit, Stops
<1>10. ASSUME NEW t \in Threads, StopOnInterrupt(t) PROVE ThreadsOK'
  <2>1. ThreadOK(stopped(th[t], "EVENT_STOP"))
    BY <1>c, StoppedOK DEF Stops
  <2>2. ThreadOK([stopped(th[t], "EVENT_STOP") EXCEPT !.intr = FALSE])
    BY <2>1 DEF ThreadOK, Thread
  <2> QED
    BY <1>a, <1>10, <2>2 DEF StopOnInterrupt
<1>11. ASSUME NEW t \in Threads, Seize(t) PROVE ThreadsOK'
  BY <1>a, <1>c, <1>11, FlagsOK DEF Seize
<1>12. CASE InterruptMain
  BY <1>a, <1>b, <1>c, <1>e, <1>m, <1>12, FlagsOK DEF InterruptMain
<1>13. CASE WaitMain
  BY <1>a, <1>c, <1>e, <1>m, <1>13, FlagsOK DEF WaitMain
<1>14. CASE PatchFunctions
  BY <1>a, <1>c, <1>m, <1>14, ResumedOK DEF PatchFunctions
<1>34. CASE PatchFunctionsFails
  BY <1>e, <1>34 DEF PatchFunctionsFails
<1>15. ASSUME NEW t \in Threads, HandleDeath(t) PROVE ThreadsOK'
  BY <1>a, <1>c, <1>15, ReapedOK DEF HandleDeath
<1>16. ASSUME NEW t \in Threads, HandleEvent(t) PROVE ThreadsOK'
  BY <1>a, <1>c, <1>16, ResumedOK DEF HandleEvent
<1>17. ASSUME NEW t \in Threads, HandleClone(t) PROVE ThreadsOK'
  BY <1>a, <1>c, <1>17, FlagsOK DEF HandleClone
<1>18. CASE WaitChild
  <2>1. cur \in Threads /\ ThreadOK(th[cur])
    BY <1>c, <1>18 DEF WaitChild, ControlInv
  <2>2. PICK u : u = th[cur].child
    OBVIOUS
  <2>3. \A q : ThreadOK(q) => ThreadOK([resumed(q) EXCEPT !.traceexit = FALSE])
    <3> SUFFICES ASSUME NEW q, ThreadOK(q)
                 PROVE  ThreadOK([resumed(q) EXCEPT !.traceexit = FALSE])
      OBVIOUS
    <3> QED
      BY ResumedOK DEF ThreadOK, Thread
  <2> DEFINE f == IF th[u].run = "zombie" THEN reaped(th[u])
                  ELSE [resumed(th[u]) EXCEPT !.traceexit = FALSE]
  <2>4. th' = [th EXCEPT ![u] = f, ![cur] = resumed(th[cur])]
    BY <1>18, <2>2 DEF WaitChild
  <2>5. u \in Threads => ThreadOK(f)
    BY <1>c, <2>3, ReapedOK
  <2> HIDE DEF f
  <2> QED
    BY <1>c, <2>1, <2>4, <2>5, ResumedOK DEF ThreadsOK, ThreadOK
<1>19. ASSUME NEW t \in Threads, HandleSegv(t) PROVE ThreadsOK'
  BY <1>a, <1>c, <1>19, ResumedOK, ReplaysSavedOK DEF HandleSegv
<1>20. ASSUME NEW t \in Threads, HandleBusOrIll(t) PROVE ThreadsOK'
  BY <1>a, <1>c, <1>20, FlagsOK DEF HandleBusOrIll
<1>21. ASSUME NEW t \in Threads, SkipTrap(t) PROVE ThreadsOK'
  BY <1>a, <1>c, <1>21, ReplaysOK DEF SkipTrap
<1>22. ASSUME NEW t \in Threads, StrayTrap(t) PROVE ThreadsOK'
  <2>1. th[t].loc \in Places
    BY <1>d DEF Thread
  <2> QED
    BY <1>a, <1>c, <1>22, <2>1, ResumedOK, SetRipOK DEF StrayTrap
<1>23. ASSUME NEW t \in Threads, processFuncTrap(t) PROVE ThreadsOK'
  <2>1. ThreadOK(setRip(resumed(th[t]), "jit"))
    BY <1>c, ResumedOK, SetRipOK DEF Places
  <2> QED
    BY <1>a, <1>c, <1>23, <2>1, ReplaysOK DEF processFuncTrap
<1>24. ASSUME NEW t \in Threads, processFuncTrapFails(t) PROVE ThreadsOK'
  BY <1>a, <1>c, <1>24, ReplaysOK DEF processFuncTrapFails
<1>25. ASSUME NEW t \in Threads, processJitCodeRet(t) PROVE ThreadsOK'
  BY <1>a, <1>c, <1>25, ReplaysSavedOK, FlagsOK DEF processJitCodeRet
<1>26. CASE RemoveTraps
  BY <1>a, <1>b, <1>c, <1>m, <1>26, FlagsOK DEF RemoveTraps
<1>27. CASE RemoveWait
  BY <1>a, <1>c, <1>m, <1>27, ReapedOK, ResumedOK DEF RemoveWait
<1>p. ASSUME done < Len(threadList) PROVE p \in Threads
  BY <1>p DEF p, TypeOK
<1>28. CASE RestoreStopped
  <2>1. p \in Threads /\ ThreadOK(th[p])
    BY <1>c, <1>p, <1>28 DEF RestoreStopped
  <2>2. ThreadOK(restored(th[p]))
    <3>1. th[p].loc \in Places
      BY <1>d, <2>1 DEF Thread
    <3>2. "lost" \in Places /\ (p \in DOMAIN threadTrapState => threadTrapState[p] \in Places)
      BY DEF TypeOK, Places, Code, Sites
    <3> QED
      BY <2>1, <3>1, <3>2, SetRipOK DEF restored
  <2>3. \A t \in Threads : ThreadOK(th'[t])
    BY <1>c, <1>28, <2>1, <2>2, ReapedOK, DetachedOK DEF RestoreStopped
  <2> QED
    BY <1>28, <2>3 DEF RestoreStopped, ThreadsOK, ThreadOK
<1>29. CASE RestoreInterrupt
  BY <1>a, <1>c, <1>p, <1>29, FlagsOK DEF RestoreInterrupt
<1>30. CASE RestoreWait
  BY <1>a, <1>c, <1>p, <1>30, ReapedOK, DetachedOK DEF RestoreWait, ControlInv
<1>31. CASE RestoreDone
  BY <1>e, <1>31 DEF RestoreDone
<1>32. CASE sigIntHandler
  <2>1. CASE pc \in {"waitChild", "drainChild"}
    BY <1>a, <1>c, <1>32, <2>1, ResumedOK DEF sigIntHandler, ControlInv
  <2>2. CASE pc \notin {"waitChild", "drainChild"}
    BY <1>b, <1>e, <1>32, <2>2 DEF sigIntHandler
  <2> QED
    BY <2>1, <2>2
<1>33. CASE \/ Seized \/ CheckLoop \/ CallWait \/ NoChild \/ DrainEnds
            \/ RestoreGone \/ UNCHANGED vars
  BY <1>b, <1>33 DEF Seized, CheckLoop, CallWait, NoChild, DrainEnds, RestoreGone, vars
<1> QED
  BY <1>1, <1>2, <1>3, <1>4, <1>5, <1>6, <1>7, <1>8, <1>9, <1>10, <1>11, <1>12,
     <1>13, <1>14, <1>15, <1>16, <1>17, <1>18, <1>19, <1>20, <1>21, <1>22,
     <1>23, <1>24, <1>25, <1>26, <1>27, <1>28, <1>29, <1>30, <1>31, <1>32,
     <1>33, <1>34
  DEF Next, Kernel, Environment, Debugger, processTrap, restoreState,
      Interrupt, Timeout

\* Removing a thread from the list leaves a list of threads.
LEMMA WithoutType ==
  ASSUME NEW list \in Seq(Threads), NEW t
  PROVE  without(list, t) \in Seq(Threads)
<1>1. CASE \E i \in DOMAIN list : list[i] = t
  <2> DEFINE i == CHOOSE k \in DOMAIN list : list[k] = t
  <2>1. i \in DOMAIN list
    BY <1>1
  <2>2. without(list, t) = RemoveAt(list, i)
    BY <1>1 DEF without
  <2> HIDE DEF i
  <2> QED
    BY <2>1, <2>2 DEF RemoveAt
<1>2. CASE ~ \E i \in DOMAIN list : list[i] = t
  BY <1>2 DEF without
<1> QED
  BY <1>1, <1>2

\* Each action keeps the types and the bookkeeping of the list.
LEMMA ControlStep ==
  ThreadsOK /\ TypeOK /\ ControlInv /\ [Next]_vars => TypeOK' /\ ControlInv'
<1> SUFFICES ASSUME ThreadsOK, TypeOK, ControlInv, [Next]_vars
             PROVE  TypeOK' /\ ControlInv'
  OBVIOUS
<1> USE DebuggerAssumption
<1>t. th' \in [Threads -> Thread]
  BY ThreadStep DEF ThreadsOK
<1>c. \A t \in Threads : th[t].loc \in Places /\ th[t].child \in Threads \cup {"none"}
                         /\ (th[t].stop = "EVENT_CLONE" => th[t].child \in Threads)
  BY DEF ThreadsOK, ThreadOK, Thread
<1>1. CASE \E t \in Threads :
             \/ Step(t) \/ Kernel(t) \/ JitFault(t) \/ UserFault(t) \/ Derail(t)
             \/ Exit(t) \/ \E u \in Threads : Clone(t, u)
  BY <1>t, <1>1 DEF Step, Kernel, HitTrap, RunJit, FetchFault, StopOnInterrupt, JitFault,
     UserFault, Derail, Exit, Clone, DebuggerUnchanged, TypeOK, ControlInv
<1>2. ASSUME NEW t \in Threads, Seize(t) PROVE TypeOK' /\ ControlInv'
  BY <1>t, <1>2 DEF Seize, TypeOK, ControlInv
<1>3. CASE Seized \/ InterruptMain \/ WaitMain \/ CheckLoop \/ CallWait \/ NoChild
  BY <1>t, <1>3 DEF Seized, InterruptMain, WaitMain, oidExits, CheckLoop, CallWait,
     NoChild, TypeOK, ControlInv, PCs
<1>4. CASE PatchFunctions \/ PatchFunctionsFails
  BY <1>t, <1>4 DEF PatchFunctions, PatchFunctionsFails, oidExits, probeSites, Sites, TypeOK,
     ControlInv, PCs
<1>o. \A t \in Threads : /\ \A s : replays(t, s) => oidShouldExit' \in BOOLEAN
                         /\ replaysSaved(t) => oidShouldExit' \in BOOLEAN
  BY ReplaysOK, ReplaysSavedOK DEF ThreadsOK, TypeOK
<1>5. ASSUME NEW t \in Threads,
             HandleDeath(t) \/ HandleBusOrIll(t) \/ SkipTrap(t) \/ StrayTrap(t)
      PROVE  TypeOK' /\ ControlInv'
  BY <1>t, <1>o, <1>5 DEF HandleDeath, HandleBusOrIll, SkipTrap, StrayTrap, waitpid, blocking,
     OID_CONT, OID_DONE, TypeOK, ControlInv, PCs
<1>6. ASSUME NEW t \in Threads, HandleEvent(t) PROVE TypeOK' /\ ControlInv'
  <2>1. threadList' \in Seq(Threads)
    BY <1>6, WithoutType DEF HandleEvent, TypeOK
  <2>2. done = 0 /\ done' = 0 /\ pc' \in {"loop", "drain"}
    BY <1>6 DEF HandleEvent, waitpid, OID_CONT, blocking, ControlInv
  <2> QED
    BY <1>t, <1>6, <2>1, <2>2 DEF HandleEvent, TypeOK, ControlInv, PCs
<1>7. ASSUME NEW t \in Threads, HandleClone(t) PROVE TypeOK' /\ ControlInv'
  BY <1>t, <1>c, <1>7 DEF HandleClone, waitpid, blocking, TypeOK, ControlInv, PCs
<1>8. ASSUME NEW t \in Threads, HandleSegv(t) PROVE TypeOK' /\ ControlInv'
  BY <1>t, <1>o, <1>8 DEF HandleSegv, waitpid, blocking, OID_DONE, erase, TypeOK, ControlInv, PCs
<1>9. ASSUME NEW t \in Threads, processFuncTrap(t) PROVE TypeOK' /\ ControlInv'
  <2>1. th[t].loc \in Sites
    BY <1>9 DEF processFuncTrap, takesTrap, trapKind, TypeOK
  <2> QED
    BY <1>t, <1>o, <1>9, <2>1 DEF processFuncTrap, takesTrap, waitpid, blocking, OID_CONT,
       insert_or_assign, TypeOK, ControlInv, PCs
<1>10. ASSUME NEW t \in Threads, processFuncTrapFails(t) PROVE TypeOK' /\ ControlInv'
  BY <1>t, <1>o, <1>10 DEF processFuncTrapFails, takesTrap, waitpid, blocking, OID_ERR,
     TypeOK, ControlInv, PCs
<1>11. ASSUME NEW t \in Threads, processJitCodeRet(t) PROVE TypeOK' /\ ControlInv'
  BY <1>t, <1>o, <1>11 DEF processJitCodeRet, takesTrap, waitpid, blocking, OID_CONT, OID_DONE,
     erase, TypeOK, ControlInv, PCs
<1>12. CASE WaitChild
  BY <1>t, <1>12 DEF WaitChild, TypeOK, ControlInv, PCs
<1>13. CASE RemoveTraps \/ RemoveWait \/ DrainEnds
  BY <1>t, <1>13 DEF RemoveTraps, RemoveWait, removesText, DrainEnds, TypeOK,
     ControlInv, PCs
<1>14. CASE RestoreStopped \/ RestoreInterrupt \/ RestoreGone \/ RestoreWait
  BY <1>t, <1>14 DEF RestoreStopped, RestoreInterrupt, RestoreGone, RestoreWait, TypeOK,
     ControlInv, PCs
<1>15. CASE RestoreDone
  BY <1>t, <1>15 DEF RestoreDone, oidExits, TypeOK, ControlInv, PCs
<1>16. CASE sigIntHandler
  BY <1>t, <1>16 DEF sigIntHandler, oidExits, removesText, TypeOK, ControlInv, PCs
<1>17. CASE UNCHANGED vars
  BY <1>17 DEF vars, TypeOK, ControlInv
<1> QED
  BY <1>1, <1>2, <1>3, <1>4, <1>5, <1>6, <1>7, <1>8, <1>9, <1>10, <1>11, <1>12,
     <1>13, <1>14, <1>15, <1>16, <1>17
  DEF Next, Environment, Debugger, processTrap, restoreState, Interrupt, Timeout

\* Only processFuncTrap sends a thread into the JIT'd code, and it gives the
\* thread the only trap state there is.
LEMMA JitStep ==
  ThreadsOK /\ TypeOK /\ ControlInv /\ JitHasWayBack /\ OneTrapState /\ [Next]_vars
    => JitHasWayBack' /\ OneTrapState'
<1> SUFFICES ASSUME ThreadsOK, TypeOK, ControlInv, JitHasWayBack, OneTrapState, [Next]_vars
             PROVE  JitHasWayBack' /\ OneTrapState'
  OBVIOUS
<1> USE DebuggerAssumption
<1>c. \A t \in Threads : ThreadOK(th[t])
  BY DEF ThreadsOK
<1>f. ASSUME NEW r, ThreadOK(r), NEW reason \in Stops
      PROVE  stopped(r, reason).loc = r.loc
  BY <1>f DEF stopped, ThreadOK, Thread
\* No thread comes into the JIT'd code, and the trap states do not change.
<1>q. ASSUME UNCHANGED threadTrapState, \A t \in Threads : InJit(th'[t]) => InJit(th[t])
      PROVE  JitHasWayBack' /\ OneTrapState'
  BY <1>q DEF JitHasWayBack, OneTrapState, InJit, trapKind
<1>u. ASSUME NEW t \in Threads, NEW r, th' = [th EXCEPT ![t] = r],
             UNCHANGED threadTrapState, InJit(r) => InJit(th[t])
      PROVE  JitHasWayBack' /\ OneTrapState'
  BY <1>q, <1>u DEF ThreadsOK
<1>e. ASSUME oidExits, UNCHANGED threadTrapState PROVE JitHasWayBack' /\ OneTrapState'
  BY <1>c, <1>e, <1>q, ReleasedOK DEF oidExits, InJit
<1>g. ASSUME NEW t \in Threads, NEW sig \in Stops, Fault(t, sig), UNCHANGED threadTrapState
      PROVE  JitHasWayBack' /\ OneTrapState'
  <2>1. ~InJit([th[t] EXCEPT !.loc = "lost"])
    BY <1>c DEF InJit, ThreadOK, Thread
  <2>2. InJit(stopped(th[t], sig)) => InJit(th[t])
    BY <1>c, <1>f DEF InJit
  <2> QED
    BY <1>g, <1>u, <2>1, <2>2 DEF Fault
<1>1. ASSUME NEW t \in Threads, Step(t) PROVE JitHasWayBack' /\ OneTrapState'
  <2>1. PICK s \in succ(th[t].loc) : th' = [th EXCEPT ![t].loc = s]
    BY <1>1 DEF Step
  <2>2. s \notin {"jit", "jitret"}
    BY <2>1 DEF succ
  <2>3. ~InJit([th[t] EXCEPT !.loc = s])
    BY <1>c, <2>2 DEF InJit, ThreadOK, Thread
  <2> QED
    BY <1>1, <1>u, <2>1, <2>3 DEF Step, DebuggerUnchanged
<1>2. ASSUME NEW t \in Threads, HitTrap(t) PROVE JitHasWayBack' /\ OneTrapState'
  <2>1. ~InJit([th[t] EXCEPT !.loc = "lost"])
    BY <1>c DEF InJit, ThreadOK, Thread
  <2>2. ThreadOK(stopped(th[t], "SIGTRAP")) /\ stopped(th[t], "SIGTRAP").loc = th[t].loc
    BY <1>c, StoppedOK DEF Stops
  <2>3. [stopped(th[t], "SIGTRAP") EXCEPT !.off = 1].loc = th[t].loc
    BY <2>2 DEF ThreadOK, Thread
  <2> QED
    BY <1>2, <1>u, <2>1, <2>3 DEF HitTrap, DebuggerUnchanged, InJit
<1>3. ASSUME NEW t \in Threads, RunJit(t) PROVE JitHasWayBack' /\ OneTrapState'
  BY <1>3, <1>u DEF RunJit, DebuggerUnchanged, InJit
<1>4. ASSUME NEW t \in Threads, JitFault(t) \/ UserFault(t) \/ FetchFault(t)
      PROVE  JitHasWayBack' /\ OneTrapState'
  BY <1>4, <1>g DEF JitFault, UserFault, FetchFault, DebuggerUnchanged, Stops
<1>5. ASSUME NEW t \in Threads, Derail(t) PROVE JitHasWayBack' /\ OneTrapState'
  <2>1. ~InJit(setRip(th[t], "lost"))
    BY <1>c, SetRipOK DEF InJit, Places
  <2> QED
    BY <1>5, <1>u, <2>1 DEF Derail, DebuggerUnchanged
<1>6. ASSUME NEW t \in Threads, NEW u \in Threads, Clone(t, u)
      PROVE  JitHasWayBack' /\ OneTrapState'
  <2>1. [stopped(th[t], "EVENT_CLONE") EXCEPT !.child = u].loc = th[t].loc
    BY <1>c DEF stopped, ThreadOK, Thread
  <2>2. attached(th[u], th[t]).loc = th[u].loc
    <3>1. stopped(th[u], "EVENT_STOP").loc = th[u].loc
          /\ stopped(th[u], "EVENT_STOP") \in Thread
      BY <1>c, StoppedOK DEF Stops, ThreadOK
    <3> QED
      BY <3>1 DEF attached, Thread
  <2>3. [th[u] EXCEPT !.run = "running"].loc = th[u].loc
    BY <1>c DEF ThreadOK, Thread
  <2>4. \A q \in Threads : th'[q].loc = th[q].loc
    BY <1>6, <2>1, <2>2, <2>3 DEF Clone, ThreadsOK
  <2> QED
    BY <1>6, <1>q, <2>4 DEF Clone, DebuggerUnchanged, InJit
<1>7. ASSUME NEW t \in Threads, Exit(t) PROVE JitHasWayBack' /\ OneTrapState'
  <2>1. [th[t] EXCEPT !.run = "zombie"].loc = th[t].loc
    BY <1>c DEF ThreadOK, Thread
  <2>2. stopped(th[t], "EVENT_EXIT").loc = th[t].loc /\ reaped(th[t]).loc = th[t].loc
    BY <1>c, <1>f, ReapedOK DEF Stops
  <2> QED
    BY <1>7, <1>u, <2>1, <2>2 DEF Exit, DebuggerUnchanged, InJit
<1>8. ASSUME NEW t \in Threads, StopOnInterrupt(t) PROVE JitHasWayBack' /\ OneTrapState'
  <2>1. ThreadOK(stopped(th[t], "EVENT_STOP"))
        /\ stopped(th[t], "EVENT_STOP").loc = th[t].loc
    BY <1>c, StoppedOK DEF Stops
  <2>2. [stopped(th[t], "EVENT_STOP") EXCEPT !.intr = FALSE].loc = th[t].loc
    BY <2>1 DEF ThreadOK, Thread
  <2> QED
    BY <1>8, <1>u, <2>2 DEF StopOnInterrupt, DebuggerUnchanged, InJit
<1>9. ASSUME NEW t \in Threads, Seize(t) PROVE JitHasWayBack' /\ OneTrapState'
  BY <1>9, <1>c, <1>u, FlagsOK DEF Seize, InJit
<1>10. CASE InterruptMain \/ WaitMain \/ RemoveTraps
  BY <1>10, <1>c, <1>e, <1>q, <1>u, FlagsOK DEF InterruptMain, WaitMain, RemoveTraps, InJit
<1>11. CASE PatchFunctions \/ RemoveWait
  BY <1>11, <1>c, <1>u, ResumedOK, ReapedOK DEF PatchFunctions, RemoveWait, InJit
<1>25. CASE PatchFunctionsFails
  BY <1>25, <1>e DEF PatchFunctionsFails
<1>12. ASSUME NEW t \in Threads,
              HandleDeath(t) \/ HandleEvent(t) \/ HandleClone(t) \/ HandleBusOrIll(t)
       PROVE  JitHasWayBack' /\ OneTrapState'
  BY <1>12, <1>c, <1>u, ResumedOK, ReapedOK, FlagsOK
  DEF HandleDeath, HandleEvent, HandleClone, HandleBusOrIll, InJit
<1>13. CASE WaitChild
  <2>1. cur \in Threads
    BY <1>13 DEF WaitChild, ControlInv
  <2>2. PICK u : u = th[cur].child
    OBVIOUS
  <2>3. \A q : ThreadOK(q) => [resumed(q) EXCEPT !.traceexit = FALSE].loc = q.loc
    <3> SUFFICES ASSUME NEW q, ThreadOK(q)
                 PROVE  [resumed(q) EXCEPT !.traceexit = FALSE].loc = q.loc
      OBVIOUS
    <3> QED
      BY ResumedOK DEF ThreadOK, Thread
  <2> DEFINE f == IF th[u].run = "zombie" THEN reaped(th[u])
                  ELSE [resumed(th[u]) EXCEPT !.traceexit = FALSE]
  <2>4. th' = [th EXCEPT ![u] = f, ![cur] = resumed(th[cur])]
    BY <1>13, <2>2 DEF WaitChild
  <2>5. u \in Threads => f.loc = th[u].loc
    BY <1>c, <2>3, ReapedOK
  <2> HIDE DEF f
  <2>6. \A q \in Threads : th'[q].loc = th[q].loc
    BY <1>c, <2>1, <2>4, <2>5, ResumedOK DEF ThreadsOK
  <2> QED
    BY <1>13, <1>q, <2>6 DEF WaitChild, InJit
<1>14. ASSUME NEW t \in Threads, HandleSegv(t) PROVE JitHasWayBack' /\ OneTrapState'
  <2>1. CASE t \notin DOMAIN threadTrapState
    BY <1>14, <1>c, <1>u, <2>1, ResumedOK DEF HandleSegv, InJit
  <2>2. CASE t \in DOMAIN threadTrapState
    <3>1. DOMAIN threadTrapState' = {}
      BY <1>14, <2>2 DEF HandleSegv, erase, OneTrapState
    <3>2. \A q \in Threads : ~InJit(th'[q])
      BY <1>14, <1>c, <2>2, ReplaysSavedOK
      DEF HandleSegv, InJit, JitHasWayBack, OneTrapState, ThreadsOK
    <3> QED
      BY <3>1, <3>2 DEF JitHasWayBack, OneTrapState, InJit
  <2> QED
    BY <2>1, <2>2
<1>15. ASSUME NEW t \in Threads, SkipTrap(t) \/ processFuncTrapFails(t)
       PROVE  JitHasWayBack' /\ OneTrapState'
  BY <1>15, <1>c, <1>u, ReplaysOK DEF SkipTrap, processFuncTrapFails
<1>16. ASSUME NEW t \in Threads, StrayTrap(t) PROVE JitHasWayBack' /\ OneTrapState'
  <2>1. th[t].loc \in Places
    BY <1>c DEF ThreadOK, Thread
  <2>2. setRip(resumed(th[t]), th[t].loc).loc = th[t].loc
    BY <1>c, <2>1, ResumedOK, SetRipOK
  <2> QED
    BY <1>16, <1>u, <2>2 DEF StrayTrap, InJit
<1>17. ASSUME NEW t \in Threads, processFuncTrap(t) PROVE JitHasWayBack' /\ OneTrapState'
  <2>1. DOMAIN threadTrapState \subseteq {t}
    BY <1>17 DEF processFuncTrap, takesTrap, canProcessTrapForThread, OneTrapState
  <2>2. DOMAIN threadTrapState' = {t} /\ threadTrapState'[t] = th[t].loc
    BY <1>17, <2>1 DEF processFuncTrap, insert_or_assign
  <2>3. \A q \in Threads : InJit(th[q]) => q = t
    BY <2>1 DEF JitHasWayBack, InJit
  <2>4. CASE trapKind(th[t].loc) = "OID_TRAP_VECT_ENTRYRET"
    <3>1. replays(t, th[t].loc)
      BY <1>17, <2>4 DEF processFuncTrap
    <3>2. \A q \in Threads : ~InJit(th'[q])
      BY <1>c, <2>3, <3>1, ReplaysOK DEF ThreadsOK
    <3> QED
      BY <2>2, <3>2 DEF JitHasWayBack, OneTrapState, InJit
  <2>5. CASE trapKind(th[t].loc) # "OID_TRAP_VECT_ENTRYRET"
    <3>1. \A q \in Threads : q # t => th'[q] = th[q]
      BY <1>17, <2>5 DEF processFuncTrap, ThreadsOK
    <3>2. trapKind(threadTrapState'[t]) = trapKind(th[t].loc)
      BY <2>2
    <3> QED
      BY <2>2, <2>3, <2>5, <3>1, <3>2 DEF JitHasWayBack, OneTrapState, InJit, trapKind
  <2> QED
    BY <2>4, <2>5
<1>18. ASSUME NEW t \in Threads, processJitCodeRet(t) PROVE JitHasWayBack' /\ OneTrapState'
  <2>1. CASE t \notin DOMAIN threadTrapState
    BY <1>18, <1>c, <1>u, <2>1, FlagsOK DEF processJitCodeRet, InJit
  <2>2. CASE t \in DOMAIN threadTrapState
    <3>1. DOMAIN threadTrapState' = {}
      BY <1>18, <2>2 DEF processJitCodeRet, erase, OneTrapState
    <3>2. \A q \in Threads : ~InJit(th'[q])
      BY <1>18, <1>c, <2>2, ReplaysSavedOK
      DEF processJitCodeRet, InJit, JitHasWayBack, OneTrapState, ThreadsOK
    <3> QED
      BY <3>1, <3>2 DEF JitHasWayBack, OneTrapState, InJit
  <2> QED
    BY <2>1, <2>2
<1>p. ASSUME done < Len(threadList) PROVE p \in Threads
  BY <1>p DEF p, TypeOK
<1>19. CASE RestoreStopped
  <2>1. p \in Threads /\ ThreadOK(th[p])
    BY <1>c, <1>p, <1>19 DEF RestoreStopped
  <2>2. ThreadOK(restored(th[p])) /\ (InJit(restored(th[p])) => InJit(th[p]))
    <3>1. th[p].loc \in Places
      BY <2>1 DEF ThreadOK, Thread
    <3>2. /\ "lost" \in Places
          /\ p \in DOMAIN threadTrapState =>
               threadTrapState[p] \in Places /\ threadTrapState[p] \notin {"jit", "jitret"}
      BY DEF TypeOK, Places, Code, Sites
    <3> QED
      BY <2>1, <3>1, <3>2, SetRipOK DEF restored, InJit
  <2>3. \A t \in Threads : InJit(th'[t]) => InJit(th[t])
    BY <1>c, <1>19, <2>1, <2>2, ReapedOK, DetachedOK DEF RestoreStopped, InJit
  <2> QED
    BY <1>19, <1>q, <2>3 DEF RestoreStopped
<1>20. CASE RestoreInterrupt
  BY <1>20, <1>c, <1>p, <1>u, FlagsOK DEF RestoreInterrupt, InJit
<1>21. CASE RestoreWait
  BY <1>21, <1>c, <1>p, <1>u, ReapedOK, DetachedOK DEF RestoreWait, ControlInv, InJit
<1>22. CASE RestoreDone
  BY <1>22, <1>e DEF RestoreDone
<1>23. CASE sigIntHandler
  <2>1. CASE pc \in {"waitChild", "drainChild"}
    BY <1>23, <1>c, <1>u, <2>1, ResumedOK DEF sigIntHandler, ControlInv, InJit
  <2>2. CASE pc \notin {"waitChild", "drainChild"}
    BY <1>23, <1>e, <1>q, <2>2 DEF sigIntHandler
  <2> QED
    BY <2>1, <2>2
<1>24. CASE \/ Seized \/ CheckLoop \/ CallWait \/ NoChild \/ DrainEnds
            \/ RestoreGone \/ UNCHANGED vars
  BY <1>24, <1>q DEF Seized, CheckLoop, CallWait, NoChild, DrainEnds, RestoreGone, vars
<1> QED
  BY <1>1, <1>2, <1>3, <1>4, <1>5, <1>6, <1>7, <1>8, <1>9, <1>10, <1>11, <1>12,
     <1>13, <1>14, <1>15, <1>16, <1>17, <1>18, <1>19, <1>20, <1>21, <1>22,
     <1>23, <1>24, <1>25
  DEF Next, Kernel, Environment, Debugger, processTrap, restoreState,
      Interrupt, Timeout

-----------------------------------------------------------------------------
(***************************************************************************)
(* The theorems                                                            *)
(***************************************************************************)

IndInv == TypeOK /\ ThreadsOK /\ ControlInv /\ JitHasWayBack /\ OneTrapState

\* The invariant that carries the proof: types, well-formed threads, the
\* list, and one trap state at most, which a thread in the JIT'd code owns.
THEOREM Invariance == Spec => []IndInv
<1>1. Init => IndInv
  <2> SUFFICES ASSUME Init PROVE IndInv
    OBVIOUS
  <2>1. ThreadsOK /\ \A t \in Threads : th[t].loc = "out"
    <3>1. FALSE \in BOOLEAN
      OBVIOUS
    <3> QED
      BY <3>1 DEF Init, ThreadsOK, ThreadOK, Thread, Places, Code, Runs, Stops
  <2>2. TypeOK /\ ControlInv
    <3>1. oidShouldExit \in BOOLEAN
      BY DEF Init
    <3>2. DOMAIN threadTrapState = {} /\ threadList \in Seq(Threads) /\ Len(threadList) = 0
      BY DEF Init
    <3> QED
      BY <2>1, <3>1, <3>2 DEF Init, TypeOK, ControlInv, ThreadsOK, PCs, Sites
  <2> QED
    BY <2>1, <2>2 DEF Init, IndInv, JitHasWayBack, OneTrapState
<1>2. IndInv /\ [Next]_vars => IndInv'
  BY ThreadStep, ControlStep, JitStep DEF IndInv
<1> QED
  BY <1>1, <1>2, PTL DEF Spec

\* The state of the debugger and of the threads keeps its type.
THEOREM TypeCorrect == Spec => []TypeOK
<1>1. IndInv => TypeOK
  BY DEF IndInv
<1> QED
  BY <1>1, Invariance, PTL

\* "Only one probe is allowed to run at a time" (processTrap): never two
\* threads in the JIT'd code, whatever faults, exits, clones and signals occur.
THEOREM SingleProbe == Spec => []OneProbeAtATime
<1>1. IndInv => OneProbeAtATime
  BY DEF IndInv, JitHasWayBack, OneTrapState, OneProbeAtATime
<1> QED
  BY <1>1, Invariance, PTL

\* A thread in the JIT'd code has the trap state that takes it back.
THEOREM WayBack == Spec => []JitHasWayBack
<1>1. IndInv => JitHasWayBack
  BY DEF IndInv
<1> QED
  BY <1>1, Invariance, PTL

-----------------------------------------------------------------------------
(***************************************************************************)
(* A quiet environment: the JIT'd code may fault and an argument may not   *)
(* be found, but no thread starts or exits, none but oid raises signals,   *)
(* and the main thread does not call the probed function.  oid detaches    *)
(* cleanly, never waits for a thread it has stopped itself, and the target *)
(* runs as if it were not there: OIDebugger implements Target.             *)
(***************************************************************************)

Quiet == Env \subseteq {"jit_segv", "locate_fail"}

-----------------------------------------------------------------------------
(***************************************************************************)
(* The inductive invariant                                                 *)
(***************************************************************************)

\* Why a thread is stopped, and that its %rip is past an INT3 only then.
StopOK(r) ==
  \/ r.stop = "SIGTRAP" /\ r.off = 1 /\ r.loc \in Sites \cup {"jitret"}
  \/ r.stop = "SIGSEGV" /\ r.off = 0 /\ r.loc = "jit"
  \/ r.stop = "EVENT_STOP" /\ r.off = 0

QuietThread(r, unborn) ==
  /\ r.loc \in Code \cup {"jit", "jitret"}
  /\ IF unborn THEN r.run = "unborn" /\ r.loc = "out" /\ ~r.traced
               ELSE r.run \in {"running", "stopped"}
  /\ r.run # "stopped" => r.off = 0 /\ r.stop = "none"
  /\ r.run = "stopped" => r.traced /\ StopOK(r)

\* Every thread is on its path or in the JIT'd code; the main thread does not
\* call the function, and oid leaves no other thread stopped.
QuietThreads ==
  \A t \in Threads :
    /\ QuietThread(th[t], t \in Unborn)
    /\ t = Main => th[t].loc = "out"
    /\ th[t].run = "stopped" /\ th[t].seen => t = Main /\ pc = "patch"

AttachPCs  == {"attach", "interruptMain", "waitMain", "patch"}
LoopPCs    == {"loop", "call", "wait"}
RestorePCs == {"restore", "restoreWait", "done"}

\* The INT3s are those of the active traps: the prologue's from the start to the
\* end of the one run of the JIT'd code, the function's between patchFunctions and
\* removeTraps.
QuietTraps ==
  /\ int3 = activeTraps
  /\ pc \in AttachPCs => int3 = {"jitret"}
  /\ pc \in LoopPCs => "jitret" \in int3 /\ count = 0
  /\ pc \in AttachPCs => count = 0
  /\ pc \in RestorePCs \cup {"drain"} => int3 \subseteq {"jitret"}

\* A thread meets an INT3 only while it is traced, is in the JIT'd code only
\* during the loop, and has no trap pending when restoreState begins.
QuietControl ==
  /\ pc \notin {"waitChild", "drainChild"} /\ ~oidShouldExit
  /\ pc \notin RestorePCs \cup {"attach"} => \A t \in Threads \ Unborn : th[t].traced
  /\ pc \notin LoopPCs => \A t \in Threads : th[t].loc \in Code
  /\ pc \in RestorePCs => \A t \in Threads : th[t].stop \in {"none", "EVENT_STOP"}
  /\ threadList = << >> => pc = "attach" /\ \A t \in Threads : ~th[t].traced

QuietInv == QuietThreads /\ QuietTraps /\ QuietControl

-----------------------------------------------------------------------------
(***************************************************************************)
(* What ptrace does to a thread in a quiet environment                     *)
(***************************************************************************)

\* A stopped thread that is sent to s goes on there, from a whole instruction.
LEMMA SentTo ==
  ASSUME NEW r \in Thread, NEW b, QuietThread(r, b), r.run = "stopped",
         NEW s \in Code \cup {"jit"}, NEW q, q = setRip(resumed(r), s)
  PROVE  /\ QuietThread(q, b)
         /\ q.loc = s /\ q.run = "running" /\ q.stop = "none" /\ q.traced = r.traced
<1>1. r.stop # "EVENT_EXIT" /\ ~b
  BY DEF QuietThread, StopOK
<1>2. q.loc = s /\ q.off = 0 /\ q.run = "running" /\ q.stop = "none" /\ q.traced = r.traced
  BY <1>1 DEF setRip, resumed, Thread
<1> QED
  BY <1>1, <1>2 DEF QuietThread

\* The replay of a site's instruction takes the thread to the one after it.
LEMMA ReplayTo ==
  ASSUME NEW r, NEW s \in Sites
  PROVE  \E s2 \in succ(s) \cap Code : replayed(r, s) = setRip(resumed(r), s2)
<1> USE DebuggerAssumption
<1>1. CASE s = "entry"
  BY <1>1 DEF replayed, succ, Code
<1>2. CASE s \in Rets
  <2>1. s \notin {"out", "entry", "body", "tail", "jitret"}
    BY <1>2
  <2>2. replayed(r, s) = setRip(resumed(r), "out") /\ succ(s) = {"out"}
    BY <2>1 DEF replayed, succ
  <2> QED
    BY <2>2 DEF Code
<1> QED
  BY <1>1, <1>2 DEF Sites

\* PTRACE_CONT after an event stop.
LEMMA ContinuedFrom ==
  ASSUME NEW r \in Thread, NEW b, QuietThread(r, b), r.stop = "EVENT_STOP",
         NEW q, q = resumed(r)
  PROVE  /\ QuietThread(q, b)
         /\ q.loc = r.loc /\ q.run = "running" /\ q.stop = "none" /\ q.traced = r.traced
<1>1. r.run = "stopped" /\ ~b /\ r.off = 0
  BY DEF QuietThread, StopOK
<1>2. q.loc = r.loc /\ q.off = 0 /\ q.run = "running" /\ q.stop = "none"
      /\ q.traced = r.traced
  BY <1>1 DEF resumed, Thread
<1> QED
  BY <1>1, <1>2 DEF QuietThread

\* PTRACE_DETACH after an event stop.
LEMMA DetachedFrom ==
  ASSUME NEW r \in Thread, NEW b, QuietThread(r, b), r.stop = "EVENT_STOP",
         NEW q, q = detached(r)
  PROVE  QuietThread(q, b) /\ q.loc = r.loc /\ q.run = "running" /\ q.stop = "none"
<1>1. r.run = "stopped" /\ ~b /\ r.off = 0
  BY DEF QuietThread, StopOK
<1>2. q.loc = r.loc /\ q.off = 0 /\ q.run = "running" /\ q.stop = "none"
  BY <1>1 DEF detached, resumed, Thread
<1> QED
  BY <1>1, <1>2 DEF QuietThread

\* The end of oid, for a thread that has no signal pending.
LEMMA ReleasedFrom ==
  ASSUME NEW r \in Thread, NEW b, QuietThread(r, b), r.stop \in {"none", "EVENT_STOP"},
         r.traced, NEW q, q = released(r)
  PROVE  QuietThread(q, b) /\ q.loc = r.loc /\ q.run = "running" /\ q.stop = "none"
<1>1. r.run \in {"running", "stopped"} /\ ~b /\ r.off = 0
  BY DEF QuietThread, StopOK
<1>2. r.run = "running" => r.stop = "none"
  BY DEF QuietThread
<1>3. q.loc = r.loc /\ q.off = 0 /\ q.run = "running" /\ q.stop = "none"
  BY <1>1, <1>2 DEF released, detached, resumed, Thread
<1> QED
  BY <1>1, <1>3 DEF QuietThread

\* PTRACE_INTERRUPT, and waitpid, leave a thread as it is but for a flag.
LEMMA FlaggedFrom ==
  ASSUME NEW r \in Thread, NEW b, QuietThread(r, b)
  PROVE  /\ QuietThread(interrupted(r), b) /\ interrupted(r).loc = r.loc
         /\ interrupted(r).run = r.run /\ interrupted(r).stop = r.stop
         /\ interrupted(r).traced = r.traced /\ interrupted(r).seen = r.seen
         /\ QuietThread(reported(r), b) /\ reported(r).loc = r.loc
         /\ reported(r).run = r.run /\ reported(r).stop = r.stop
         /\ reported(r).traced = r.traced
<1>1. interrupted(r).loc = r.loc /\ interrupted(r).off = r.off
      /\ interrupted(r).run = r.run /\ interrupted(r).stop = r.stop
      /\ interrupted(r).traced = r.traced /\ interrupted(r).seen = r.seen
  BY DEF interrupted, Thread
<1>2. reported(r).loc = r.loc /\ reported(r).off = r.off
      /\ reported(r).run = r.run /\ reported(r).stop = r.stop
      /\ reported(r).traced = r.traced
  BY DEF reported, Thread
<1>3. QuietThread(interrupted(r), b)
  BY <1>1 DEF QuietThread, StopOK
<1>4. QuietThread(reported(r), b)
  BY <1>2 DEF QuietThread, StopOK
<1> QED
  BY <1>1, <1>2, <1>3, <1>4

\* PTRACE_SEIZE of a running thread.
LEMMA SeizedFrom ==
  ASSUME NEW r \in Thread, NEW b, QuietThread(r, b), r.run = "running"
  PROVE  /\ QuietThread(seized(r), b) /\ seized(r).loc = r.loc
         /\ seized(r).run = "running" /\ seized(r).stop = r.stop /\ seized(r).traced
<1>1. seized(r).loc = r.loc /\ seized(r).off = r.off /\ seized(r).run = "running"
      /\ seized(r).stop = r.stop /\ seized(r).traced = TRUE
  BY DEF seized, Thread
<1> QED
  BY <1>1 DEF QuietThread, StopOK

\* A running thread stops.
LEMMA StoppedAt ==
  ASSUME NEW r \in Thread, NEW b, QuietThread(r, b), r.run = "running", r.traced,
         NEW q, \/ /\ q = [stopped(r, "SIGTRAP") EXCEPT !.off = 1]
                   /\ r.loc \in Sites \cup {"jitret"}
                \/ q = stopped(r, "SIGSEGV") /\ r.loc = "jit"
                \/ q = [stopped(r, "EVENT_STOP") EXCEPT !.intr = FALSE]
  PROVE  /\ QuietThread(q, b) /\ q.loc = r.loc /\ q.run = "stopped" /\ q.traced = r.traced
         /\ q.seen = FALSE
<1>1. ~b /\ r.off = 0 /\ r.loc \in Code \cup {"jit", "jitret"}
  BY DEF QuietThread
<1>2. q.loc = r.loc /\ q.run = "stopped" /\ q.traced = r.traced /\ q.seen = FALSE
  BY <1>1 DEF stopped, Thread
<1>3. StopOK(q)
  BY <1>1 DEF stopped, Thread, StopOK
<1> QED
  BY <1>1, <1>2, <1>3 DEF QuietThread

-----------------------------------------------------------------------------
(***************************************************************************)
(* What can happen                                                         *)
(***************************************************************************)

\* The steps of the target and of the kernel, of processTrap, and of oid's own.
QuietThreadStep(t) ==
  Step(t) \/ HitTrap(t) \/ RunJit(t) \/ JitFault(t) \/ StopOnInterrupt(t)

QuietTrap(t) ==
  /\ \/ HandleEvent(t) \/ HandleSegv(t) \/ SkipTrap(t) \/ StrayTrap(t)
     \/ processFuncTrap(t) \/ processFuncTrapFails(t) \/ processJitCodeRet(t)
  /\ UNCHANGED oidShouldExit  \* no signal ends the wait for a single step

QuietOid ==
  \/ Seized \/ InterruptMain \/ WaitMain \/ PatchFunctions \/ CheckLoop \/ CallWait
  \/ RemoveTraps \/ RemoveWait \/ DrainEnds \/ restoreState

QuietNext ==
  \/ \E t \in Threads : QuietThreadStep(t) \/ Seize(t) \/ QuietTrap(t)
  \/ QuietOid

\* The main thread is alive, and so is every thread that oid may trace.
LEMMA MainAlive ==
  ASSUME IndInv, QuietInv
  PROVE  /\ Main \in Threads /\ th[Main].run \in {"running", "stopped"}
         /\ th[Main].loc = "out"
         /\ pc \notin RestorePCs \cup {"attach"} => th[Main].traced
BY DebuggerAssumption DEF IndInv, ThreadsOK, QuietInv, QuietThreads, QuietThread, QuietControl

\* Nothing derails, dies, is cloned or is cut short in a quiet environment.
LEMMA QuietActions ==
  ASSUME Quiet, IndInv, QuietInv, Next
  PROVE  QuietNext
<1>c. \A t \in Threads : QuietThread(th[t], t \in Unborn)
  BY DEF QuietInv, QuietThreads
<1>1. ~Interrupt /\ ~Timeout
  BY DEF Quiet, Interrupt, Timeout
<1>2. ASSUME NEW t \in Threads PROVE ~UserFault(t) /\ ~Exit(t)
  BY DEF Quiet, UserFault, Exit
<1>3. ASSUME NEW t \in Threads, NEW u \in Threads PROVE ~Clone(t, u)
  BY DEF Quiet, Clone
<1>4. ASSUME NEW t \in Threads PROVE ~Derail(t)
  BY <1>c DEF Derail, running, QuietThread
<1>5. ASSUME NEW t \in Threads PROVE ~FetchFault(t)
  <2>1. th[t].loc # "zero"
    BY <1>c, DebuggerAssumption DEF QuietThread, Code
  <2>2. th[t].loc = "jitret" => "jitret" \in int3
    BY DebuggerAssumption DEF QuietInv, QuietControl, QuietTraps, Code
  <2> QED
    BY <2>1, <2>2 DEF FetchFault
<1>6. ASSUME NEW t \in Threads PROVE ~HandleDeath(t) /\ ~HandleClone(t) /\ ~HandleBusOrIll(t)
  <2>1. th[t].run # "zombie"
    BY <1>c DEF QuietThread
  <2>2. th[t].stop \in {"none", "SIGTRAP", "SIGSEGV", "EVENT_STOP"}
    BY <1>c DEF QuietThread, StopOK
  <2> QED
    BY <2>1, <2>2 DEF HandleDeath, HandleClone, HandleBusOrIll
<1>7. ~WaitChild
  BY DEF QuietInv, QuietControl, WaitChild
<1>8. ~NoChild
  BY MainAlive DEF NoChild, RestorePCs
<1>9. ~PatchFunctionsFails
  BY DEF Quiet, PatchFunctionsFails
<1>10. ASSUME NEW t \in Threads, processTrap(t) PROVE UNCHANGED oidShouldExit
  <2>1. \A s : replays(t, s) => UNCHANGED oidShouldExit
    BY DEF Quiet, replays
  <2>2. replaysSaved(t) => UNCHANGED oidShouldExit
    BY <2>1 DEF replaysSaved
  <2> QED
    BY <1>6, <1>10, <2>1, <2>2 DEF processTrap, HandleEvent, HandleSegv, SkipTrap, StrayTrap,
       processFuncTrap, processFuncTrapFails, processJitCodeRet
<1> QED
  BY <1>1, <1>2, <1>3, <1>4, <1>5, <1>6, <1>7, <1>8, <1>9, <1>10
  DEF Next, Kernel, Environment, Debugger, processTrap, QuietNext, QuietThreadStep,
      QuietTrap, QuietOid

\* A thread that waitpid reports is stopped; when it is in the JIT'd code, oid is
\* in the main loop and the thread owns the only trap state.
LEMMA ReportedThread ==
  ASSUME IndInv, QuietInv, NEW t \in Threads, waitpid(t)
  PROVE  /\ th[t] \in Thread /\ QuietThread(th[t], t \in Unborn)
         /\ th[t].run = "stopped" /\ StopOK(th[t])
         /\ t = Main => th[t].stop = "EVENT_STOP"
         /\ InJit(th[t]) => blocking /\ canProcessTrapForThread(t)
         /\ th[t].stop = "SIGSEGV" => t \in DOMAIN threadTrapState
         /\ th[t].loc = "jitret" => /\ t \in DOMAIN threadTrapState
                                    /\ "jitret" \in activeTraps
<1> USE DebuggerAssumption
<1>1. th[t] \in Thread /\ QuietThread(th[t], t \in Unborn)
  BY DEF IndInv, ThreadsOK, QuietInv, QuietThreads
<1>2. th[t].run = "stopped" /\ StopOK(th[t])
  BY <1>1 DEF waitpid, reportable, QuietThread
<1>3. t = Main => th[t].stop = "EVENT_STOP"
  BY <1>2 DEF QuietInv, QuietThreads, StopOK, Sites
<1>4. InJit(th[t]) => /\ pc \in LoopPCs /\ t \in DOMAIN threadTrapState
                      /\ "jitret" \in activeTraps
  BY DEF InJit, IndInv, JitHasWayBack, QuietInv, QuietControl, QuietTraps, Code
<1>5. InJit(th[t]) => blocking /\ canProcessTrapForThread(t)
  BY <1>4 DEF waitpid, LoopPCs, blocking, canProcessTrapForThread
<1>6. th[t].stop = "SIGSEGV" => th[t].loc = "jit"
  BY <1>2 DEF StopOK
<1> QED
  BY <1>1, <1>2, <1>3, <1>4, <1>5, <1>6 DEF InJit

\* What processTrap does to the thread it was told of, which comes out as r: it
\* goes on where it was, or past the instruction it was trapped at, or into the
\* JIT'd code with that instruction as its trap state, or from there past it.
GoesOn(t, r) == r.loc = th[t].loc /\ pc' = OID_CONT /\ UNCHANGED threadTrapState

Skips(t, r) ==
  /\ th[t].loc \in Sites /\ r.loc \in succ(th[t].loc) \cap Code

Vectors(t, r) ==
  /\ th[t].loc \in Sites /\ r.loc = "jit" /\ pc' = "loop"
  /\ t \in DOMAIN threadTrapState' /\ threadTrapState'[t] = th[t].loc

ComesBack(t, r) ==
  /\ InJit(th[t]) /\ t \in DOMAIN threadTrapState
  /\ r.loc \in succ(threadTrapState[t]) \cap Code

\* processTrap does one of the four to the thread, which then runs.
LEMMA TrapThread ==
  ASSUME IndInv, QuietInv, NEW t \in Threads, QuietTrap(t)
  PROVE  \E r : /\ th' = [th EXCEPT ![t] = r]
                /\ QuietThread(r, t \in Unborn)
                /\ r.run = "running" /\ r.stop = "none" /\ r.traced = th[t].traced
                /\ GoesOn(t, r) \/ Skips(t, r) \/ Vectors(t, r) \/ ComesBack(t, r)
<1> USE DebuggerAssumption
<1>w. waitpid(t)
  BY DEF QuietTrap, HandleEvent, HandleSegv, SkipTrap, StrayTrap, processFuncTrap,
     processFuncTrapFails, processJitCodeRet, takesTrap
<1>t. /\ th[t] \in Thread /\ QuietThread(th[t], t \in Unborn)
      /\ th[t].run = "stopped" /\ StopOK(th[t])
      /\ InJit(th[t]) => blocking /\ canProcessTrapForThread(t)
      /\ th[t].stop = "SIGSEGV" => t \in DOMAIN threadTrapState
      /\ th[t].loc = "jitret" => t \in DOMAIN threadTrapState /\ "jitret" \in activeTraps
  BY <1>w, ReportedThread
<1>s. \A u \in DOMAIN threadTrapState : threadTrapState[u] \in Sites
  BY DEF IndInv, TypeOK
<1>r. \A s : replays(t, s) => th' = [th EXCEPT ![t] = replayed(th[t], s)]
  BY DEF replays, QuietTrap, QuietInv, QuietControl
\* In the JIT'd code the registers saved are those at the trap.
<1>v. ASSUME InJit(th[t]), t \in DOMAIN threadTrapState, replaysSaved(t)
      PROVE  th' = [th EXCEPT ![t] = replayed(th[t], threadTrapState[t])]
  <2>1. ~regsMovedOn(threadTrapState[t])
    BY <1>v DEF IndInv, JitHasWayBack, InJit, regsMovedOn
  <2> QED
    BY <1>r, <1>v, <2>1 DEF replaysSaved
<1>a. ASSUME NEW s \in Sites, th' = [th EXCEPT ![t] = replayed(th[t], s)]
      PROVE  \E r : /\ th' = [th EXCEPT ![t] = r]
                    /\ QuietThread(r, t \in Unborn)
                    /\ r.run = "running" /\ r.stop = "none" /\ r.traced = th[t].traced
                    /\ r.loc \in succ(s) \cap Code
  <2>1. PICK s2 \in succ(s) \cap Code : replayed(th[t], s) = setRip(resumed(th[t]), s2)
    BY ReplayTo
  <2>2. PICK r : r = setRip(resumed(th[t]), s2)
    OBVIOUS
  <2>3. /\ QuietThread(r, t \in Unborn)
        /\ r.loc = s2 /\ r.run = "running" /\ r.stop = "none" /\ r.traced = th[t].traced
    BY <1>t, <2>1, <2>2, SentTo
  <2> QED
    BY <1>a, <2>1, <2>2, <2>3
<1>1. CASE HandleEvent(t)
  <2>1. th[t].stop = "EVENT_STOP" /\ th' = [th EXCEPT ![t] = resumed(th[t])]
    BY <1>1, <1>t DEF HandleEvent, StopOK
  <2>2. PICK r : r = resumed(th[t])
    OBVIOUS
  <2>3. /\ QuietThread(r, t \in Unborn) /\ r.loc = th[t].loc
        /\ r.run = "running" /\ r.stop = "none" /\ r.traced = th[t].traced
    BY <1>t, <2>1, <2>2, ContinuedFrom
  <2> QED
    BY <1>1, <2>1, <2>2, <2>3 DEF HandleEvent, GoesOn
<1>2. CASE HandleSegv(t)
  <2>1. t \in DOMAIN threadTrapState /\ InJit(th[t])
    BY <1>2, <1>t DEF HandleSegv, StopOK, InJit
  <2>2. th' = [th EXCEPT ![t] = replayed(th[t], threadTrapState[t])]
    BY <1>2, <1>v, <2>1 DEF HandleSegv
  <2>3. PICK r : /\ th' = [th EXCEPT ![t] = r]
                 /\ QuietThread(r, t \in Unborn)
                 /\ r.run = "running" /\ r.stop = "none" /\ r.traced = th[t].traced
                 /\ r.loc \in succ(threadTrapState[t]) \cap Code
    BY <1>a, <1>s, <2>1, <2>2
  <2> QED
    BY <2>1, <2>3 DEF ComesBack
<1>3. CASE SkipTrap(t)
  <2>1. th[t].loc \in Sites
    BY <1>3, <1>t DEF SkipTrap, StopOK, InJit
  <2>2. th' = [th EXCEPT ![t] = replayed(th[t], th[t].loc)]
    BY <1>3, <1>r DEF SkipTrap
  <2>3. PICK r : /\ th' = [th EXCEPT ![t] = r]
                 /\ QuietThread(r, t \in Unborn)
                 /\ r.run = "running" /\ r.stop = "none" /\ r.traced = th[t].traced
                 /\ r.loc \in succ(th[t].loc) \cap Code
    BY <1>a, <2>1, <2>2
  <2> QED
    BY <2>1, <2>3 DEF Skips
<1>4. CASE StrayTrap(t)
  <2>1. th[t].loc \in Code
    BY <1>4, <1>t DEF StrayTrap, StopOK, Code, Sites
  <2>2. th' = [th EXCEPT ![t] = setRip(resumed(th[t]), th[t].loc)]
    BY <1>4 DEF StrayTrap
  <2>3. PICK r : r = setRip(resumed(th[t]), th[t].loc)
    OBVIOUS
  <2>4. /\ QuietThread(r, t \in Unborn) /\ r.loc = th[t].loc
        /\ r.run = "running" /\ r.stop = "none" /\ r.traced = th[t].traced
    BY <1>t, <2>1, <2>3, SentTo
  <2> QED
    BY <1>4, <2>2, <2>3, <2>4 DEF StrayTrap, GoesOn
<1>f. ASSUME takesTrap(t), trapKind(th[t].loc) # "OID_TRAP_JITCODERET"
      PROVE  th[t].loc \in Sites /\ blocking
  BY <1>f, <1>t DEF takesTrap, trapKind, StopOK
<1>5. CASE processFuncTrap(t)
  <2>0. th[t].loc \in Sites /\ blocking
    BY <1>5, <1>f DEF processFuncTrap
  <2>1. CASE trapKind(th[t].loc) = "OID_TRAP_VECT_ENTRYRET"
    <3>1. th' = [th EXCEPT ![t] = replayed(th[t], th[t].loc)]
      BY <1>5, <1>r, <2>1 DEF processFuncTrap
    <3> QED
      BY <1>a, <2>0, <3>1 DEF Skips
  <2>2. CASE trapKind(th[t].loc) # "OID_TRAP_VECT_ENTRYRET"
    <3>1. th' = [th EXCEPT ![t] = setRip(resumed(th[t]), "jit")]
      BY <1>5, <2>2 DEF processFuncTrap
    <3>2. PICK r : r = setRip(resumed(th[t]), "jit")
      OBVIOUS
    <3>3. /\ QuietThread(r, t \in Unborn)
          /\ r.loc = "jit" /\ r.run = "running" /\ r.stop = "none" /\ r.traced = th[t].traced
      BY <1>t, <3>2, SentTo
    <3>4. Vectors(t, r)
      BY <1>5, <2>0, <3>3 DEF Vectors, processFuncTrap, insert_or_assign, OID_CONT
    <3> QED
      BY <3>1, <3>2, <3>3, <3>4
  <2> QED
    BY <2>1, <2>2
<1>6. CASE processFuncTrapFails(t)
  <2>0. th[t].loc \in Sites
    BY <1>6, <1>f DEF processFuncTrapFails
  <2>1. th' = [th EXCEPT ![t] = replayed(th[t], th[t].loc)]
    BY <1>6, <1>r DEF processFuncTrapFails
  <2> QED
    BY <1>a, <2>0, <2>1 DEF Skips
<1>7. CASE processJitCodeRet(t)
  <2>1. th[t].loc = "jitret"
    BY <1>7, <1>t DEF processJitCodeRet, trapKind
  <2>2. th' = [th EXCEPT ![t] = replayed(th[t], threadTrapState[t])]
    BY <1>7, <1>t, <1>v, <2>1 DEF processJitCodeRet, InJit
  <2>3. PICK r : /\ th' = [th EXCEPT ![t] = r]
                 /\ QuietThread(r, t \in Unborn)
                 /\ r.run = "running" /\ r.stop = "none" /\ r.traced = th[t].traced
                 /\ r.loc \in succ(threadTrapState[t]) \cap Code
    BY <1>a, <1>s, <1>t, <2>1, <2>2
  <2> QED
    BY <1>t, <2>1, <2>3 DEF ComesBack, InJit
<1> QED
  BY <1>1, <1>2, <1>3, <1>4, <1>5, <1>6, <1>7 DEF QuietTrap

\* ... and leaves the text and the traps in step: in the main loop the prologue's
\* trap stays until a thread comes back from the JIT'd code, afterwards none goes.
LEMMA TrapControl ==
  ASSUME IndInv, QuietInv, NEW t \in Threads, QuietTrap(t)
  PROVE  /\ int3' = activeTraps' /\ UNCHANGED <<threadList, oidShouldExit>>
         /\ \/ pc = "wait" /\ pc' = "loop" /\ "jitret" \in int3' /\ count' = 0
            \/ pc = "wait" /\ pc' = "removeTraps" /\ t \in DOMAIN threadTrapState
            \/ pc = "drain" /\ pc' = "drain" /\ UNCHANGED int3
<1> USE DebuggerAssumption
<1>w. waitpid(t)
  BY DEF QuietTrap, HandleEvent, HandleSegv, SkipTrap, StrayTrap, processFuncTrap,
     processFuncTrapFails, processJitCodeRet, takesTrap
<1>t. /\ th[t] \in Thread /\ StopOK(th[t])
      /\ InJit(th[t]) => blocking
      /\ th[t].stop = "SIGSEGV" => t \in DOMAIN threadTrapState
      /\ th[t].loc = "jitret" => t \in DOMAIN threadTrapState
  BY <1>w, ReportedThread
<1>i. /\ int3 = activeTraps /\ pc \in {"wait", "drain"} /\ ~oidShouldExit
      /\ pc = "wait" => "jitret" \in int3 /\ count = 0
      /\ UNCHANGED oidShouldExit
  BY <1>w DEF QuietTrap, waitpid, QuietInv, QuietTraps, QuietControl, LoopPCs
<1>1. CASE HandleEvent(t) \/ SkipTrap(t) \/ StrayTrap(t)
  <2>1. th[t].stop # "EVENT_EXIT"
    BY <1>t DEF StopOK
  <2> QED
    BY <1>1, <1>i, <2>1 DEF HandleEvent, SkipTrap, StrayTrap, OID_CONT, blocking
<1>2. CASE HandleSegv(t)
  <2>1. blocking
    BY <1>2, <1>t DEF HandleSegv, StopOK, InJit
  <2> QED
    BY <1>2, <1>t, <1>i, <2>1 DEF HandleSegv, OID_DONE, blocking
<1>3. CASE processFuncTrap(t) \/ processFuncTrapFails(t)
  <2>1. th[t].loc # "jitret"
    BY <1>3 DEF processFuncTrap, processFuncTrapFails, trapKind
  <2> QED
    BY <1>3, <1>i, <2>1 DEF processFuncTrap, processFuncTrapFails, takesTrap, OID_CONT,
       OID_ERR, blocking
<1>4. CASE processJitCodeRet(t)
  <2>1. th[t].loc = "jitret"
    BY <1>4, <1>t DEF processJitCodeRet, trapKind
  <2> QED
    BY <1>4, <1>t, <1>i, <2>1 DEF processJitCodeRet, takesTrap, OID_DONE, blocking
<1> QED
  BY <1>1, <1>2, <1>3, <1>4 DEF QuietTrap

\* The steps of the target and of the kernel: a thread takes one step of its path
\* or of the JIT'd code, or stops where it is.
LEMMA ThreadEffect ==
  ASSUME Quiet, IndInv, QuietInv, NEW t \in Threads, QuietThreadStep(t)
  PROVE  \E r : /\ th' = [th EXCEPT ![t] = r]
                /\ QuietThread(r, t \in Unborn)
                /\ r.traced = th[t].traced /\ th[t].run = "running"
                /\ t = Main => r.loc = "out"
                /\ r.run = "stopped" => r.seen = FALSE
                /\ r.stop \in {"SIGTRAP", "SIGSEGV"} => pc \notin RestorePCs
                /\ \/ th[t].loc \in Code /\ r.loc \in succ(th[t].loc) \cap Code
                   \/ r.loc = th[t].loc
                   \/ th[t].loc = "jit" /\ r.loc = "jitret"
<1> USE DebuggerAssumption
<1>t. /\ th[t] \in Thread /\ QuietThread(th[t], t \in Unborn)
      /\ t = Main => th[t].loc = "out"
  BY DEF IndInv, ThreadsOK, QuietInv, QuietThreads
<1>r. running(t) => t \notin Unborn /\ th[t].off = 0 /\ th[t].stop = "none"
  BY <1>t DEF running, QuietThread
<1>j. InJit(th[t]) => pc \in LoopPCs
  BY DEF QuietInv, QuietControl, InJit, Code
<1>1. CASE Step(t)
  <2>1. PICK s \in succ(th[t].loc) : th' = [th EXCEPT ![t].loc = s]
    BY <1>1 DEF Step
  <2>2. s \in Code /\ th[t].loc \in Code
    BY <1>1, <2>1 DEF Step, succ, Code
  <2>3. t # Main
    BY <1>1, <1>t DEF Step, Quiet
  <2>4. PICK r : r = [th[t] EXCEPT !.loc = s]
    OBVIOUS
  <2>5. r.loc = s /\ r.run = "running" /\ r.off = 0 /\ r.stop = "none" /\ r.traced = th[t].traced
    BY <1>1, <1>t, <1>r, <2>4 DEF Step, running, Thread
  <2>6. QuietThread(r, t \in Unborn)
    BY <1>1, <1>r, <2>2, <2>5 DEF QuietThread, Step
  <2> QED
    BY <1>1, <2>1, <2>2, <2>3, <2>4, <2>5, <2>6 DEF Step, running
<1>2. CASE HitTrap(t)
  <2>1. th[t].loc \in Sites \cup {"jitret"}
    BY <1>2 DEF HitTrap, IndInv, TypeOK
  <2>2. pc \notin RestorePCs \cup {"attach"}
    <3>1. int3 = {"jitret"} \/ int3 \subseteq {"jitret"} => InJit(th[t])
      BY <1>2 DEF HitTrap, InJit
    <3>2. pc \in RestorePCs \cup {"attach"} => int3 = {"jitret"} \/ int3 \subseteq {"jitret"}
      BY DEF QuietInv, QuietTraps, AttachPCs, RestorePCs
    <3> QED
      BY <1>j, <3>1, <3>2 DEF LoopPCs, RestorePCs
  <2>3. th[t].traced
    BY <1>2, <1>r, <2>2 DEF HitTrap, QuietInv, QuietControl
  <2>4. PICK r : r = [stopped(th[t], "SIGTRAP") EXCEPT !.off = 1]
    OBVIOUS
  <2>5. th' = [th EXCEPT ![t] = r] /\ th[t].run = "running"
    BY <1>2, <2>3, <2>4 DEF HitTrap, running
  <2>6. /\ QuietThread(r, t \in Unborn) /\ r.loc = th[t].loc /\ r.run = "stopped"
        /\ r.traced = th[t].traced /\ r.seen = FALSE
    BY <1>t, <2>1, <2>3, <2>4, <2>5, StoppedAt
  <2> QED
    BY <1>t, <2>2, <2>5, <2>6
<1>3. CASE RunJit(t)
  <2>1. PICK r : r = [th[t] EXCEPT !.loc = "jitret"]
    OBVIOUS
  <2>2. r.loc = "jitret" /\ r.run = "running" /\ r.off = 0 /\ r.stop = "none"
        /\ r.traced = th[t].traced
    BY <1>3, <1>t, <1>r, <2>1 DEF RunJit, running, Thread
  <2>3. QuietThread(r, t \in Unborn)
    BY <1>3, <1>r, <2>2 DEF QuietThread, RunJit
  <2> QED
    BY <1>3, <1>t, <2>1, <2>2, <2>3 DEF RunJit, running
<1>4. CASE JitFault(t)
  <2>1. th[t].traced /\ pc \in LoopPCs
    BY <1>4, <1>j, <1>r DEF JitFault, InJit, LoopPCs, RestorePCs, QuietInv, QuietControl
  <2>2. PICK r : r = stopped(th[t], "SIGSEGV")
    OBVIOUS
  <2>3. th' = [th EXCEPT ![t] = r] /\ th[t].run = "running" /\ th[t].loc = "jit"
    BY <1>4, <2>1, <2>2 DEF JitFault, Fault, running, Quiet
  <2>4. /\ QuietThread(r, t \in Unborn) /\ r.loc = th[t].loc /\ r.run = "stopped"
        /\ r.traced = th[t].traced /\ r.seen = FALSE
    BY <1>t, <2>1, <2>2, <2>3, StoppedAt
  <2> QED
    BY <1>t, <2>1, <2>3, <2>4 DEF LoopPCs, RestorePCs
<1>5. CASE StopOnInterrupt(t)
  <2>1. PICK r : r = [stopped(th[t], "EVENT_STOP") EXCEPT !.intr = FALSE]
    OBVIOUS
  <2>2. th' = [th EXCEPT ![t] = r] /\ th[t].run = "running" /\ th[t].traced
    BY <1>5, <2>1 DEF StopOnInterrupt, running
  <2>3. /\ QuietThread(r, t \in Unborn) /\ r.loc = th[t].loc /\ r.run = "stopped"
        /\ r.traced = th[t].traced /\ r.seen = FALSE
    BY <1>t, <2>1, <2>2, StoppedAt
  <2>4. r.stop = "EVENT_STOP"
    BY <1>t, <2>1 DEF stopped, Thread
  <2> QED
    BY <1>t, <2>2, <2>3, <2>4
<1> QED
  BY <1>1, <1>2, <1>3, <1>4, <1>5 DEF QuietThreadStep

\* oid's own steps leave every thread where it is: they flag it, or let it run,
\* and only restoreState lets go of it.
OidTo(t, r) ==
  /\ QuietThread(r, t \in Unborn) /\ r.loc = th[t].loc
  /\ r.run = "stopped" => th[t].run = "stopped" /\ r.stop = th[t].stop
  /\ r.run = "stopped" /\ r.seen => t = Main /\ pc' = "patch"
  /\ pc' \notin RestorePCs /\ th[t].traced => r.traced

\* Every action of oid changes a thread only as OidTo says.
LEMMA OidEffect ==
  ASSUME IndInv, QuietInv, QuietOid
  PROVE  UNCHANGED threadTrapState /\ \A t \in Threads : OidTo(t, th'[t])
<1> USE DebuggerAssumption
<1>s. UNCHANGED threadTrapState
  BY DEF QuietOid, Seized, InterruptMain, WaitMain, PatchFunctions, CheckLoop, CallWait,
     RemoveTraps, RemoveWait, DrainEnds, restoreState, RestoreStopped, RestoreInterrupt,
     RestoreGone, RestoreWait, RestoreDone
<1>t. \A t \in Threads : /\ th[t] \in Thread /\ QuietThread(th[t], t \in Unborn)
                         /\ th[t].run = "stopped" /\ th[t].seen => t = Main /\ pc = "patch"
  BY DEF IndInv, ThreadsOK, QuietInv, QuietThreads
<1>d. th \in [Threads -> Thread]
  BY DEF IndInv, ThreadsOK
<1>m. /\ Main \in Threads /\ th[Main].run \in {"running", "stopped"} /\ th[Main].loc = "out"
      /\ pc \notin RestorePCs \cup {"attach"} => th[Main].traced
  BY MainAlive
\* A thread that a step does not touch, when oid is not at patchFunctions.
<1>k. ASSUME pc # "patch", NEW t \in Threads PROVE OidTo(t, th[t])
  BY <1>k, <1>t DEF OidTo
<1>1. CASE Seized \/ CheckLoop \/ CallWait \/ DrainEnds \/ RestoreGone
  BY <1>1, <1>k DEF Seized, CheckLoop, CallWait, DrainEnds, RestoreGone
<1>2. CASE InterruptMain \/ RemoveTraps
  <2>1. pc # "patch" /\ pc' # "patch" /\ th' = [th EXCEPT ![Main] = interrupted(th[Main])]
    BY <1>2, <1>m DEF InterruptMain, RemoveTraps, interruptible, RestorePCs
  <2>2. OidTo(Main, interrupted(th[Main]))
    BY <1>t, <1>m, <2>1, FlaggedFrom DEF OidTo
  <2> QED
    BY <1>s, <1>d, <1>k, <2>1, <2>2
<1>3. CASE WaitMain
  <2>1. pc # "patch" /\ pc' = "patch" /\ th' = [th EXCEPT ![Main] = reported(th[Main])]
    BY <1>3, <1>m DEF WaitMain
  <2>2. OidTo(Main, reported(th[Main]))
    BY <1>t, <1>m, <2>1, FlaggedFrom DEF OidTo
  <2> QED
    BY <1>s, <1>d, <1>k, <2>1, <2>2
<1>4. CASE PatchFunctions \/ RemoveWait
  <2>1. th' = [th EXCEPT ![Main] = resumed(th[Main])]
    BY <1>4, <1>m DEF PatchFunctions, RemoveWait
  <2>2. th[Main].run = "stopped" => th[Main].stop = "EVENT_STOP"
    BY <1>t, <1>m DEF QuietThread, StopOK, Sites
  <2>3. CASE th[Main].run = "stopped"
    <3>1. OidTo(Main, resumed(th[Main]))
      BY <1>t, <1>m, <2>2, <2>3, ContinuedFrom DEF OidTo
    <3>2. \A t \in Threads \ {Main} : OidTo(t, th[t])
      BY <1>t DEF OidTo
    <3> QED
      BY <1>s, <1>d, <2>1, <3>1, <3>2
  <2>4. CASE th[Main].run = "running"
    <3>1. th' = th
      BY <1>d, <2>1, <2>4 DEF resumed
    <3>2. \A t \in Threads : OidTo(t, th[t])
      BY <1>t, <2>4 DEF OidTo
    <3> QED
      BY <1>s, <3>1, <3>2
  <2> QED
    BY <1>m, <2>3, <2>4
<1>p. ASSUME done < Len(threadList), reportable(p), pc \in RestorePCs
      PROVE  p \in Threads /\ th[p].stop = "EVENT_STOP" /\ OidTo(p, detached(th[p]))
  <2>1. p \in Threads
    BY <1>p DEF p, IndInv, TypeOK
  <2>2. th[p].stop = "EVENT_STOP"
    BY <1>p, <1>t, <2>1 DEF reportable, QuietThread, StopOK, QuietInv, QuietControl
  <2>3. /\ QuietThread(detached(th[p]), p \in Unborn) /\ detached(th[p]).loc = th[p].loc
        /\ detached(th[p]).run = "running"
    BY <1>t, <2>1, <2>2, DetachedFrom
  <2>4. pc' \in RestorePCs
    BY <1>p DEF QuietOid, Seized, InterruptMain, WaitMain, PatchFunctions, CheckLoop,
       CallWait, RemoveTraps, RemoveWait, DrainEnds, restoreState, RestoreStopped,
       RestoreInterrupt, RestoreGone, RestoreWait, RestoreDone, oidExits, RestorePCs
  <2> QED
    BY <2>1, <2>2, <2>3, <2>4 DEF OidTo
<1>5. CASE RestoreStopped
  <2>1. p \in Threads /\ th[p].stop = "EVENT_STOP" /\ OidTo(p, detached(th[p]))
    BY <1>5, <1>p DEF RestoreStopped, RestorePCs
  <2>2. th[p].run # "zombie" /\ restored(th[p]) = th[p]
    BY <1>t, <2>1 DEF QuietThread, restored
  <2>3. \A t \in Threads : th'[t] = IF t = p THEN detached(th[p]) ELSE th[t]
    BY <1>5, <2>1, <2>2 DEF RestoreStopped
  <2> QED
    BY <1>5, <1>s, <1>k, <2>1, <2>3 DEF RestoreStopped
<1>6. CASE RestoreWait
  <2>1. p \in Threads /\ th[p].stop = "EVENT_STOP" /\ OidTo(p, detached(th[p]))
    BY <1>6, <1>p DEF RestoreWait, RestorePCs, IndInv, ControlInv
  <2>2. th' = [th EXCEPT ![p] = detached(th[p])]
    BY <1>6, <1>t, <2>1 DEF RestoreWait, QuietThread
  <2> QED
    BY <1>6, <1>s, <1>d, <1>k, <2>1, <2>2 DEF RestoreWait
<1>7. CASE RestoreInterrupt
  <2>1. p \in Threads
    BY <1>7 DEF RestoreInterrupt, p, IndInv, TypeOK
  <2>2. OidTo(p, interrupted(th[p]))
    BY <1>7, <1>t, <2>1, FlaggedFrom DEF OidTo, RestoreInterrupt
  <2> QED
    BY <1>7, <1>s, <1>d, <1>k, <2>1, <2>2 DEF RestoreInterrupt
<1>8. CASE RestoreDone
  <2>1. pc' \in RestorePCs /\ pc # "patch"
        /\ \A t \in Threads : th[t].stop \in {"none", "EVENT_STOP"}
    BY <1>8 DEF RestoreDone, oidExits, RestorePCs, QuietInv, QuietControl
  <2>2. ASSUME NEW t \in Threads, th[t].traced PROVE OidTo(t, released(th[t]))
    BY <1>t, <2>1, <2>2, ReleasedFrom DEF OidTo
  <2> QED
    BY <1>8, <1>s, <1>k, <2>1, <2>2 DEF RestoreDone, oidExits
<1> QED
  BY <1>s, <1>1, <1>2, <1>3, <1>4, <1>5, <1>6, <1>7, <1>8 DEF QuietOid, restoreState

\* ... and where they go.  Only an interrupt or an empty list could end the main
\* loop here, and there is none.
LEMMA OidControl ==
  ASSUME IndInv, QuietInv, QuietOid
  PROVE  /\ QuietTraps' /\ UNCHANGED <<threadList, oidShouldExit>>
         /\ pc' \notin {"waitChild", "drainChild", "attach"}
         /\ \/ pc \in RestorePCs /\ pc' \in RestorePCs
            \/ DrainEnds /\ pc' = "restore"
            \/ pc \in LoopPCs /\ pc' \in LoopPCs
            \/ Seized /\ pc' = "interruptMain"
            \/ pc \notin RestorePCs \cup LoopPCs \cup {"attach"} /\ pc' \notin RestorePCs
<1> USE DebuggerAssumption DEF AttachPCs, LoopPCs, RestorePCs, QuietTraps
<1>m. /\ Main \in Threads /\ th[Main].run \in {"running", "stopped"}
      /\ pc \notin RestorePCs \cup {"attach"} => th[Main].traced
  BY MainAlive
<1>i. QuietTraps /\ ~oidShouldExit /\ (pc # "attach" => threadList # << >>)
  BY DEF QuietInv, QuietControl
<1>1. CASE Seized
  BY <1>1, <1>i DEF Seized
<1>2. CASE InterruptMain
  BY <1>2, <1>i, <1>m DEF InterruptMain, interruptible
<1>3. CASE WaitMain
  BY <1>3, <1>i, <1>m DEF WaitMain
<1>4. CASE PatchFunctions
  BY <1>4, <1>i DEF PatchFunctions
<1>5. CASE CheckLoop \/ CallWait
  BY <1>5, <1>i DEF CheckLoop, CallWait
<1>6. CASE RemoveTraps
  BY <1>6, <1>i, <1>m DEF RemoveTraps, interruptible
<1>7. CASE RemoveWait
  <2>1. th[Main].run = "stopped"
    BY <1>7, <1>m DEF RemoveWait, reportable
  <2> QED
    BY <1>7, <1>i, <2>1 DEF RemoveWait, removesText
<1>8. CASE DrainEnds
  BY <1>8, <1>i DEF DrainEnds
<1>9. CASE restoreState
  BY <1>9, <1>i DEF restoreState, RestoreStopped, RestoreInterrupt, RestoreGone,
     RestoreWait, RestoreDone, oidExits
<1> QED
  BY <1>1, <1>2, <1>3, <1>4, <1>5, <1>6, <1>7, <1>8, <1>9 DEF QuietOid

\* A seized thread runs on where it is.
LEMMA SeizeEffect ==
  ASSUME IndInv, QuietInv, NEW t \in Threads, Seize(t)
  PROVE  \E r : /\ th' = [th EXCEPT ![t] = r]
                /\ QuietThread(r, t \in Unborn) /\ r.loc = th[t].loc
                /\ r.run = "running" /\ r.stop = "none"
<1>t. th[t] \in Thread /\ QuietThread(th[t], t \in Unborn) /\ th[t].run = "running"
  BY DEF IndInv, ThreadsOK, QuietInv, QuietThreads, Seize, running
<1>1. PICK r : r = seized(th[t])
  OBVIOUS
<1>2. /\ QuietThread(r, t \in Unborn) /\ r.loc = th[t].loc
      /\ r.run = "running" /\ r.stop = "none"
  BY <1>t, <1>1, SeizedFrom DEF QuietThread
<1> QED
  BY <1>1, <1>2 DEF Seize

-----------------------------------------------------------------------------
(***************************************************************************)
(* The invariant                                                           *)
(***************************************************************************)

\* The threads stay on their paths or in the JIT'd code.
LEMMA QuietThreadsStep ==
  Quiet /\ IndInv /\ QuietInv /\ QuietNext => QuietThreads'
<1> SUFFICES ASSUME Quiet, IndInv, QuietInv, QuietNext PROVE QuietThreads'
  OBVIOUS
<1>t. th \in [Threads -> Thread] /\ QuietThreads
  BY DEF IndInv, ThreadsOK, QuietInv
<1>u. ASSUME NEW t \in Threads, NEW r, th' = [th EXCEPT ![t] = r], QuietThread(r, t \in Unborn),
             t = Main => r.loc = "out", ~(r.run = "stopped" /\ r.seen), pc' = pc \/ pc # "patch"
      PROVE  QuietThreads'
  BY <1>t, <1>u DEF QuietThreads
<1>1. ASSUME NEW t \in Threads, QuietThreadStep(t) PROVE QuietThreads'
  <2>1. UNCHANGED pc
    BY <1>1 DEF QuietThreadStep, Step, HitTrap, RunJit, JitFault, StopOnInterrupt,
       DebuggerUnchanged
  <2> QED
    BY <1>1, <1>u, <2>1, ThreadEffect
<1>2. ASSUME NEW t \in Threads, Seize(t) PROVE QuietThreads'
  BY <1>2, <1>t, <1>u, SeizeEffect DEF Seize, QuietThreads
<1>3. ASSUME NEW t \in Threads, QuietTrap(t) PROVE QuietThreads'
  <2>1. PICK r : /\ th' = [th EXCEPT ![t] = r]
                 /\ QuietThread(r, t \in Unborn)
                 /\ r.run = "running"
                 /\ GoesOn(t, r) \/ Skips(t, r) \/ Vectors(t, r) \/ ComesBack(t, r)
    BY <1>3, TrapThread
  <2>2. pc # "patch"
    BY <1>3, TrapControl
  <2>3. t = Main => r.loc = "out"
    <3>1. t = Main => th[t].loc = "out"
      BY MainAlive
    <3>2. "out" \notin Sites \cup {"jit", "jitret"}
      BY DebuggerAssumption DEF Sites
    <3> QED
      BY <2>1, <3>1, <3>2 DEF GoesOn, Skips, Vectors, ComesBack, InJit
  <2> QED
    BY <1>u, <2>1, <2>2, <2>3
<1>4. CASE QuietOid
  BY <1>4, <1>t, OidEffect DEF OidTo, QuietThreads
<1> QED
  BY <1>1, <1>2, <1>3, <1>4 DEF QuietNext

\* The INT3s stay those of the active traps, and go when they should.
LEMMA QuietTrapsStep ==
  Quiet /\ IndInv /\ QuietInv /\ QuietNext => QuietTraps'
<1> SUFFICES ASSUME Quiet, IndInv, QuietInv, QuietNext PROVE QuietTraps'
  OBVIOUS
<1>i. QuietTraps
  BY DEF QuietInv
<1>1. ASSUME NEW t \in Threads, QuietThreadStep(t) \/ Seize(t) PROVE QuietTraps'
  BY <1>1, <1>i DEF QuietThreadStep, Step, HitTrap, RunJit, JitFault, StopOnInterrupt,
     Seize, DebuggerUnchanged, QuietTraps
<1>2. ASSUME NEW t \in Threads, QuietTrap(t) PROVE QuietTraps'
  BY <1>2, <1>i, TrapControl DEF QuietTraps, AttachPCs, LoopPCs, RestorePCs
<1>3. CASE QuietOid
  BY <1>3, OidControl
<1> QED
  BY <1>1, <1>2, <1>3 DEF QuietNext

\* No trap is pending and no thread in the JIT'd code when restoreState begins.
LEMMA QuietControlStep ==
  Quiet /\ IndInv /\ QuietInv /\ QuietNext => QuietControl'
<1> SUFFICES ASSUME Quiet, IndInv, QuietInv, QuietNext PROVE QuietControl'
  OBVIOUS
<1> USE DebuggerAssumption
<1>t. th \in [Threads -> Thread] /\ QuietThreads /\ QuietControl
  BY DEF IndInv, ThreadsOK, QuietInv
<1>q. ASSUME NEW r, NEW b, QuietThread(r, b)
      PROVE  /\ r.stop \in {"none", "SIGTRAP", "SIGSEGV", "EVENT_STOP"}
             /\ r.run # "stopped" => r.stop = "none"
             /\ InJit(r) \/ r.loc \in Code
  BY <1>q DEF QuietThread, StopOK, InJit
<1>1. ASSUME NEW t \in Threads, QuietThreadStep(t) PROVE QuietControl'
  <2>1. UNCHANGED <<pc, threadList, oidShouldExit>>
    BY <1>1 DEF QuietThreadStep, Step, HitTrap, RunJit, JitFault, StopOnInterrupt,
       DebuggerUnchanged
  <2>2. PICK r : /\ th' = [th EXCEPT ![t] = r]
                 /\ QuietThread(r, t \in Unborn)
                 /\ r.traced = th[t].traced
                 /\ r.stop \in {"SIGTRAP", "SIGSEGV"} => pc \notin RestorePCs
                 /\ \/ th[t].loc \in Code /\ r.loc \in succ(th[t].loc) \cap Code
                    \/ r.loc = th[t].loc
                    \/ th[t].loc = "jit" /\ r.loc = "jitret"
    BY <1>1, ThreadEffect
  <2>3. th[t].loc \in Code => r.loc \in Code
    BY <2>2 DEF Code
  <2>4. pc \in RestorePCs => r.stop \in {"none", "EVENT_STOP"}
    BY <1>q, <2>2
  <2> QED
    BY <1>t, <2>1, <2>2, <2>3, <2>4 DEF QuietControl
<1>2. ASSUME NEW t \in Threads, Seize(t) PROVE QuietControl'
  <2>1. PICK r : th' = [th EXCEPT ![t] = r] /\ r.loc = th[t].loc
    BY <1>2, SeizeEffect
  <2>2. threadList' # << >>
    BY <1>2 DEF Seize, IndInv, TypeOK
  <2>3. pc = "attach" /\ pc' = "attach" /\ UNCHANGED oidShouldExit
    BY <1>2 DEF Seize
  <2> QED
    BY <1>t, <2>1, <2>2, <2>3 DEF QuietControl, LoopPCs, RestorePCs
<1>3. ASSUME NEW t \in Threads, QuietTrap(t) PROVE QuietControl'
  <2>1. PICK r : /\ th' = [th EXCEPT ![t] = r]
                 /\ QuietThread(r, t \in Unborn)
                 /\ r.run = "running" /\ r.stop = "none" /\ r.traced = th[t].traced
                 /\ GoesOn(t, r) \/ Skips(t, r) \/ Vectors(t, r) \/ ComesBack(t, r)
    BY <1>3, TrapThread
  <2>2. /\ UNCHANGED <<threadList, oidShouldExit>>
        /\ \/ pc = "wait" /\ pc' = "loop"
           \/ pc = "wait" /\ pc' = "removeTraps" /\ t \in DOMAIN threadTrapState
           \/ pc = "drain" /\ pc' = "drain"
    BY <1>3, TrapControl
  <2>3. pc' # "loop" => \A u \in Threads \ {t} : th[u].loc \in Code
    <3>1. CASE pc' = "drain"
      BY <1>t, <2>2, <3>1 DEF QuietControl, LoopPCs
    <3>2. CASE pc' = "removeTraps"
      <4>1. \A u \in Threads \ {t} : ~InJit(th[u])
        BY <2>2, <3>2 DEF IndInv, JitHasWayBack, OneTrapState, InJit
      <4> QED
        BY <1>t, <1>q, <4>1 DEF QuietThreads
    <3> QED
      BY <2>2, <3>1, <3>2
  <2>4. pc' # "loop" => r.loc \in Code
    <3>1. CASE GoesOn(t, r)
      BY <1>t, <2>2, <3>1 DEF GoesOn, OID_CONT, blocking, QuietControl, LoopPCs
    <3>2. CASE Skips(t, r) \/ Vectors(t, r) \/ ComesBack(t, r)
      BY <3>2 DEF Skips, Vectors, ComesBack
    <3> QED
      BY <2>1, <3>1, <3>2
  <2> QED
    BY <1>t, <2>1, <2>2, <2>3, <2>4 DEF QuietControl, LoopPCs, RestorePCs
<1>4. CASE QuietOid
  <2>1. \A t \in Threads : OidTo(t, th'[t])
    BY <1>4, OidEffect
  <2>2. /\ UNCHANGED <<threadList, oidShouldExit>>
        /\ pc' \notin {"waitChild", "drainChild", "attach"}
        /\ \/ pc \in RestorePCs /\ pc' \in RestorePCs
           \/ DrainEnds /\ pc' = "restore"
           \/ pc \in LoopPCs /\ pc' \in LoopPCs
           \/ Seized /\ pc' = "interruptMain"
           \/ pc \notin RestorePCs \cup LoopPCs \cup {"attach"} /\ pc' \notin RestorePCs
    BY <1>4, OidControl
  <2>3. pc' \notin RestorePCs => \A t \in Threads \ Unborn : th'[t].traced
    <3>1. CASE Seized
      BY <1>t, <2>1, <3>1 DEF Seized, QuietThreads, QuietThread, OidTo, RestorePCs
    <3>2. CASE ~Seized
      <4>1. pc' \notin RestorePCs => pc \notin RestorePCs \cup {"attach"}
        BY <2>2, <3>2 DEF RestorePCs, LoopPCs
      <4> QED
        BY <1>t, <2>1, <4>1 DEF QuietControl, OidTo
    <3> QED
      BY <3>1, <3>2
  <2>4. pc' \notin LoopPCs => \A t \in Threads : th'[t].loc \in Code
    <3>1. pc' \notin LoopPCs => pc \notin LoopPCs
      BY <2>2 DEF DrainEnds, Seized, LoopPCs, RestorePCs
    <3> QED
      BY <1>t, <2>1, <3>1 DEF QuietControl, OidTo
  <2>5. threadList' # << >>
    <3>1. pc # "attach" => threadList # << >>
      BY <1>t DEF QuietControl
    <3>2. pc = "attach" => Seized
      BY <2>2 DEF RestorePCs, LoopPCs, DrainEnds
    <3>3. Seized => th[Main].traced
      BY <1>t DEF Seized, QuietThreads, QuietThread
    <3> QED
      BY <1>t, <2>2, <3>1, <3>2, <3>3 DEF QuietControl
  <2>6. pc' \in RestorePCs => \A t \in Threads : th'[t].stop \in {"none", "EVENT_STOP"}
    <3>1. CASE DrainEnds
      <4>1. \A t \in Threads : ~reportable(t)
        BY <1>t, <3>1 DEF DrainEnds, QuietControl
      <4>2. \A t \in Threads : th[t].run # "stopped"
        BY <1>t, <3>1, <4>1 DEF reportable, QuietThreads, QuietThread, DrainEnds
      <4> QED
        BY <1>q, <2>1, <4>2 DEF OidTo
    <3>2. CASE ~DrainEnds
      <4>1. pc' \in RestorePCs => pc \in RestorePCs
        BY <2>2, <3>2 DEF RestorePCs, LoopPCs
      <4> QED
        BY <1>t, <1>q, <2>1, <4>1 DEF QuietControl, OidTo
    <3> QED
      BY <3>1, <3>2
  <2> QED
    BY <1>t, <2>2, <2>3, <2>4, <2>5, <2>6 DEF QuietControl
<1> QED
  BY <1>1, <1>2, <1>3, <1>4 DEF QuietNext

\* A quiet run keeps the quiet invariant.
THEOREM QuietInvariance ==
  ASSUME Quiet
  PROVE  Spec => []QuietInv
<1>1. Init => QuietInv
  <2> SUFFICES ASSUME Init PROVE QuietInv
    OBVIOUS
  <2>1. \A t \in Threads :
          /\ th[t].loc = "out" /\ th[t].off = 0 /\ th[t].stop = "none" /\ th[t].traced = FALSE
          /\ th[t].run = IF t \in Unborn THEN "unborn" ELSE "running"
    BY DEF Init
  <2>2. QuietThreads
    BY <2>1 DEF QuietThreads, QuietThread, Code
  <2>3. QuietTraps /\ QuietControl
    BY <2>1 DEF Init, QuietTraps, QuietControl, AttachPCs, LoopPCs, RestorePCs, Code
  <2> QED
    BY <2>2, <2>3 DEF QuietInv
<1>2. IndInv /\ QuietInv /\ [Next]_vars => QuietInv'
  <2> SUFFICES ASSUME IndInv, QuietInv, [Next]_vars PROVE QuietInv'
    OBVIOUS
  <2>1. CASE Next
    BY <2>1, QuietActions, QuietThreadsStep, QuietTrapsStep, QuietControlStep DEF QuietInv
  <2>2. CASE UNCHANGED vars
    BY <2>2 DEF vars, QuietInv, QuietThreads, QuietTraps, QuietControl
  <2> QED
    BY <2>1, <2>2
<1> QED
  BY <1>1, <1>2, Invariance, PTL DEF Spec

-----------------------------------------------------------------------------
(***************************************************************************)
(* The theorems                                                            *)
(***************************************************************************)

\* When oid has gone its INT3s have, and every thread is at a whole instruction of
\* its own code (removeTraps, restoreState).
THEOREM DetachesCleanly ==
  ASSUME Quiet
  PROVE  Spec => []CleanDetach
<1>1. QuietInv => CleanDetach
  <2> SUFFICES ASSUME QuietInv, pc = "done"
               PROVE  int3 \subseteq {"jitret"}
                      /\ \A t \in Threads : th[t].loc \in Code /\ th[t].off = 0
    BY DEF CleanDetach
  <2>1. int3 \subseteq {"jitret"}
    BY DEF QuietInv, QuietTraps, RestorePCs
  <2>2. ASSUME NEW t \in Threads PROVE th[t].loc \in Code /\ th[t].off = 0
    BY DEF QuietInv, QuietControl, QuietThreads, QuietThread, StopOK, RestorePCs, LoopPCs
  <2> QED
    BY <2>1, <2>2
<1> QED
  BY <1>1, QuietInvariance, PTL

\* oid never waits for a thread that it has been told of and has not continued.
THEOREM WaitsAreAnswered ==
  ASSUME Quiet
  PROVE  Spec => []NoSelfWait
<1>1. IndInv /\ QuietInv => NoSelfWait
  <2> SUFFICES ASSUME IndInv, QuietInv, waitsFor # "none"
               PROVE  ~(th[waitsFor].run = "stopped" /\ th[waitsFor].seen)
    BY DEF NoSelfWait
  <2>1. pc \in {"waitMain", "removeWait", "restoreWait"}
    BY DEF waitsFor, QuietInv, QuietControl
  <2>2. waitsFor \in Threads
    BY <2>1, DebuggerAssumption DEF waitsFor, p, IndInv, ControlInv, TypeOK
  <2> QED
    BY <2>1, <2>2 DEF QuietInv, QuietThreads
<1> QED
  BY <1>1, Invariance, QuietInvariance, PTL

\* The position of a thread on its own path, in the states of a quiet run.
PathPos(t) ==
  IF t \in Unborn THEN "unborn"
  ELSE IF InJit(th[t]) THEN threadTrapState[t] ELSE th[t].loc

OnPath ==
  \A t \in Threads : targetPos(t) = PathPos(t) /\ (t \notin Unborn => PathPos(t) \in Code)

\* The refinement mapping, in those states.
LEMMA TargetPos == IndInv /\ QuietInv => OnPath
<1> SUFFICES ASSUME IndInv, QuietInv, NEW t \in Threads
             PROVE  /\ targetPos(t) = PathPos(t)
                    /\ t \notin Unborn => PathPos(t) \in Code
  BY DEF OnPath
<1> USE DebuggerAssumption
<1>1. QuietThread(th[t], t \in Unborn)
  BY DEF QuietInv, QuietThreads
<1>2. InJit(th[t]) => t \in DOMAIN threadTrapState /\ threadTrapState[t] \in Code
  BY DEF IndInv, JitHasWayBack, TypeOK, InJit, Sites, Code
<1>3. CASE t \in Unborn
  BY <1>1, <1>3 DEF targetPos, PathPos, QuietThread
<1>4. CASE t \notin Unborn
  <2>1. /\ th[t].run \in {"running", "stopped"} /\ th[t].stop # "EVENT_EXIT"
        /\ th[t].loc # "zero" /\ (InJit(th[t]) \/ th[t].loc \in Code)
    BY <1>1, <1>4 DEF QuietThread, StopOK, InJit, Code
  <2>2. InJit(th[t]) => targetPos(t) = threadTrapState[t]
    BY <1>2, <2>1 DEF targetPos, InJit
  <2>3. ~InJit(th[t]) => targetPos(t) = th[t].loc
    BY <2>1 DEF targetPos, InJit
  <2> QED
    BY <1>2, <1>4, <2>1, <2>2, <2>3 DEF PathPos
<1> QED
  BY <1>3, <1>4

\* A step of one thread along its path.
Walks(t) ==
  /\ PathPos(t)' \in succ(PathPos(t))
  /\ \A u \in Threads \ {t} : PathPos(u)' = PathPos(u)

\* Each step takes one thread to the next instruction of its path, or none.
LEMMA WalkStep ==
  ASSUME Quiet, IndInv, QuietInv, Next
  PROVE  \/ \A t \in Threads : PathPos(t)' = PathPos(t)
         \/ \E t \in Threads \ Unborn : Walks(t)
<1> USE DebuggerAssumption
<1>t. th \in [Threads -> Thread] /\ QuietThreads
  BY DEF IndInv, ThreadsOK, QuietInv
<1>c. \A s \in Code : s \notin {"jit", "jitret"}
  BY DEF Code
<1>0. QuietNext
  BY QuietActions
<1>1. ASSUME NEW t \in Threads, QuietThreadStep(t)
      PROVE  (\A u \in Threads : PathPos(u)' = PathPos(u)) \/ (t \notin Unborn /\ Walks(t))
  <2>1. UNCHANGED threadTrapState
    BY <1>1 DEF QuietThreadStep, Step, HitTrap, RunJit, JitFault, StopOnInterrupt,
       DebuggerUnchanged
  <2>2. PICK r : /\ th' = [th EXCEPT ![t] = r]
                 /\ th[t].run = "running"
                 /\ \/ th[t].loc \in Code /\ r.loc \in succ(th[t].loc) \cap Code
                    \/ r.loc = th[t].loc
                    \/ th[t].loc = "jit" /\ r.loc = "jitret"
    BY <1>1, ThreadEffect
  <2>3. t \notin Unborn
    BY <1>t, <2>2 DEF QuietThreads, QuietThread
  <2>4. \A u \in Threads \ {t} : PathPos(u)' = PathPos(u)
    BY <1>t, <2>1, <2>2 DEF PathPos, InJit
  <2>5. CASE th[t].loc \in Code /\ r.loc \in succ(th[t].loc) \cap Code
    BY <1>t, <1>c, <2>2, <2>3, <2>4, <2>5 DEF PathPos, InJit, Walks
  <2>6. CASE r.loc = th[t].loc \/ (th[t].loc = "jit" /\ r.loc = "jitret")
    BY <1>t, <2>1, <2>2, <2>4, <2>6 DEF PathPos, InJit
  <2> QED
    BY <2>2, <2>3, <2>5, <2>6
<1>2. ASSUME NEW t \in Threads, Seize(t) PROVE \A u \in Threads : PathPos(u)' = PathPos(u)
  <2>1. PICK r : th' = [th EXCEPT ![t] = r] /\ r.loc = th[t].loc
    BY <1>2, SeizeEffect
  <2> QED
    BY <1>2, <1>t, <2>1 DEF Seize, PathPos, InJit
<1>3. CASE QuietOid
  BY <1>3, OidEffect DEF OidTo, PathPos, InJit
<1>4. ASSUME NEW t \in Threads, QuietTrap(t)
      PROVE  (\A u \in Threads : PathPos(u)' = PathPos(u)) \/ (t \notin Unborn /\ Walks(t))
  <2>1. PICK r : /\ th' = [th EXCEPT ![t] = r]
                 /\ QuietThread(r, t \in Unborn) /\ r.run = "running"
                 /\ GoesOn(t, r) \/ Skips(t, r) \/ Vectors(t, r) \/ ComesBack(t, r)
    BY <1>4, TrapThread
  <2>2. t \notin Unborn
    BY <2>1 DEF QuietThread
  \* The trap state of another thread in the JIT'd code is not touched.
  <2>3. \A u \in Threads \ {t} : PathPos(u)' = PathPos(u)
    <3>1. ASSUME NEW u \in Threads \ {t}, InJit(th[u])
          PROVE  threadTrapState'[u] = threadTrapState[u]
      <4>1. u \in DOMAIN threadTrapState /\ t \notin DOMAIN threadTrapState
        BY <3>1 DEF IndInv, JitHasWayBack, OneTrapState, InJit
      <4>2. threadTrapState # << >>
        BY <4>1
      <4>3. UNCHANGED threadTrapState
        <5>1. ~canProcessTrapForThread(t)
          BY <4>1, <4>2 DEF canProcessTrapForThread
        <5> QED
          BY <1>4, <4>1, <5>1 DEF QuietTrap, HandleEvent, HandleSegv, SkipTrap, StrayTrap,
             processFuncTrap, processFuncTrapFails, processJitCodeRet, takesTrap
      <4> QED
        BY <4>3
    <3> QED
      BY <1>t, <2>1, <3>1 DEF PathPos, InJit
  <2>4. CASE GoesOn(t, r)
    BY <1>t, <2>1, <2>3, <2>4 DEF GoesOn, PathPos, InJit
  <2>5. CASE Skips(t, r)
    <3>1. th[t].loc \in Code
      BY <2>5 DEF Skips, Sites, Code
    <3> QED
      BY <1>t, <1>c, <2>1, <2>2, <2>3, <2>5, <3>1 DEF Skips, PathPos, InJit, Walks
  <2>6. CASE Vectors(t, r)
    <3>1. th[t].loc \in Code
      BY <2>6 DEF Vectors, Sites, Code
    <3> QED
      BY <1>t, <1>c, <2>1, <2>2, <2>3, <2>6, <3>1 DEF Vectors, PathPos, InJit
  <2>7. CASE ComesBack(t, r)
    BY <1>t, <1>c, <2>1, <2>2, <2>3, <2>7 DEF ComesBack, PathPos, InJit, Walks
  <2> QED
    BY <2>1, <2>4, <2>5, <2>6, <2>7
<1> QED
  BY <1>0, <1>1, <1>2, <1>3, <1>4 DEF QuietNext

\* OIDebugger implements Target: the target's threads run as if oid were not there.
THEOREM RunsUndisturbed ==
  ASSUME Quiet
  PROVE  Spec => Transparent
<1>1. Init => T!Init
  <2> SUFFICES ASSUME Init PROVE \A t \in Threads : targetPos(t) \in {"out", "unborn"}
    BY DEF T!Init
  <2> QED
    BY DEF Init, targetPos
<1>2. IndInv /\ QuietInv /\ IndInv' /\ QuietInv' /\ [Next]_vars
        => [T!Next]_[t \in Threads |-> targetPos(t)]
  <2> SUFFICES ASSUME IndInv, QuietInv, IndInv', QuietInv', [Next]_vars
               PROVE  [T!Next]_[t \in Threads |-> targetPos(t)]
    OBVIOUS
  <2>1. CASE UNCHANGED vars
    BY <2>1 DEF vars, targetPos
  <2>2. CASE Next
    <3>1. OnPath /\ OnPath'
      BY TargetPos, PTL
    <3>2. /\ \A t \in Threads : targetPos(t) = PathPos(t) /\ targetPos(t)' = PathPos(t)'
          /\ \A t \in Threads \ Unborn : PathPos(t) \in Code
      BY <3>1 DEF OnPath
    <3>3. CASE \A t \in Threads : PathPos(t)' = PathPos(t)
      BY <3>2, <3>3
    <3>4. CASE \E t \in Threads \ Unborn : Walks(t)
      <4>1. PICK t \in Threads \ Unborn : Walks(t)
        BY <3>4
      <4> DEFINE pos == [u \in Threads |-> targetPos(u)]
      <4>2. PICK s \in succ(PathPos(t)) : s = PathPos(t)'
        BY <4>1 DEF Walks
      <4>3. pos' = [pos EXCEPT ![t] = s]
        BY <3>2, <4>1, <4>2 DEF Walks
      <4>4. pos[t] \in T!Code /\ s \in T!succ(pos[t])
        BY <3>2, <4>1, <4>2 DEF T!Code, T!succ, Code, succ
      <4>5. T!Advance(t)
        BY <4>3, <4>4 DEF T!Advance
      <4> QED
        BY <4>1, <4>5 DEF T!Next
    <3> QED
      BY <2>2, <3>3, <3>4, WalkStep
  <2> QED
    BY <2>1, <2>2
<1> QED
  BY <1>1, <1>2, Invariance, QuietInvariance, PTL DEF Spec, Transparent, T!Spec

=============================================================================
