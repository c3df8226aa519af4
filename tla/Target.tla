------------------------------- MODULE Target -------------------------------
(***************************************************************************)
(* What oid promises the process it looks into: the process runs as if oid *)
(* were not there.  Each thread walks through the probed function on its   *)
(* own, executes every instruction of its path exactly once and in order,  *)
(* may start threads and may exit.                                         *)
(***************************************************************************)
EXTENDS Integers

CONSTANTS
  Threads,   \* the threads of the process, alive or not yet started
  Rets       \* the return instructions of the probed function

VARIABLE pos \* where each thread is

Code == {"out", "entry", "body", "tail"} \cup Rets

Init == pos \in [Threads -> {"out", "unborn"}]

\* The instructions that may follow the one at s.
succ(s) == CASE s = "out"   -> {"entry"}
             [] s = "entry" -> {"body"}
             [] s = "body"  -> {"tail"}
             [] s = "tail"  -> Rets
             [] OTHER       -> {"out"}

Advance(t) ==
  /\ pos[t] \in Code
  /\ \E s \in succ(pos[t]) : pos' = [pos EXCEPT ![t] = s]

Clone(t, u) ==
  /\ pos[t] \in Code
  /\ pos[u] = "unborn"
  /\ pos' = [pos EXCEPT ![u] = "out"]

Exit(t) ==
  /\ pos[t] \in Code
  /\ pos' = [pos EXCEPT ![t] = "exited"]

Next == \E t \in Threads : \/ Advance(t)
                           \/ \E u \in Threads : Clone(t, u)
                           \/ Exit(t)

Spec == Init /\ [][Next]_pos

=============================================================================
