---------------------------- MODULE DataSegment ----------------------------
(***************************************************************************)
(* The data segment: the JIT'd code in the target writes, for each         *)
(* argument of the probe, a header and the sizes it has measured as        *)
(* varints (FuncGen.cpp); when the target has been released oid copies the *)
(* segment and decodes it (decodeTargetData, processTargetData).           *)
(*                                                                         *)
(* The segment is never cleared: a run finds what the runs before it have  *)
(* left.  A cell of mem is a byte of a varint or one word of a header      *)
(* (magicId, cookie, size; the three words of statistics are left out).    *)
(* Above the segment lies memory that is not part of it.                   *)
(***************************************************************************)
EXTENDS Integers, Sequences, SequencesExt, FiniteSetsExt

CONSTANTS
  Radix,        \* 128: what a byte of a varint holds
  Sentinel,     \* 123456789
  Values,       \* what the JIT'd code may store
  DataSize,     \* dataSegSize, the size of the segment
  Beyond,       \* cells of other memory above it
  ArgCounts,    \* how many arguments the probe may have
  MaxValues,    \* bound: values stored for one argument
  MaxRuns,      \* bound: runs of oid
  Envs          \* the environments: what may happen, together

EnvEvents ==
  {"jit_segv",   \* the JIT'd code faults
   "no_hit",     \* the loop ends before a thread has hit the probe
   "early_read"} \* oid stops waiting while the JIT'd code still runs

HeaderSize == 3

\* The segment is made of whole pages (setDataSegmentSize).
ASSUME DataSegmentAssumption ==
  /\ Radix \in Nat \ {0, 1}
  /\ Sentinel \in Nat \ {0} /\ Values \subseteq Nat
  /\ DataSize \in Nat /\ DataSize >= HeaderSize /\ Beyond \in Nat
  /\ ArgCounts \subseteq Nat \ {0} /\ MaxValues \in Nat /\ MaxRuns \in Nat
  /\ Envs \subseteq SUBSET EnvEvents

Cells == 0 .. (DataSize + Beyond - 1)

\* Words that are no byte of a varint.
oidMagicId == 2 * Radix
Foreign    == 2 * Radix + 1
cookieOf(run) == 2 * Radix + 1 + run

VARIABLES
  env,      \* what may happen in this behaviour
  argCount, \* arguments of the probe; no action changes these two
  mem,      \* the data segment and what lies above it
  run,      \* how often oid has been run; its cookie follows from it
  dataBase, \* where the JIT'd code writes the current argument
  offset,   \* dataSegOffset
  stored,   \* per argument of this run, the values stored so far
  complete, \* arguments the JIT'd code has ended
  result,   \* what oid has decoded, per argument
  pc

vars == <<env, argCount, mem, run, dataBase, offset, stored, complete, result, pc>>

PCs == {"idle", "magic", "cookie", "size", "body", "end", "written",
        "fault", "read"}

(***************************************************************************)
(* Varints                                                                 *)
(***************************************************************************)

EncodeVarint[val \in Nat] ==
  IF val < Radix THEN <<val>>
  ELSE <<Radix + (val % Radix)>> \o EncodeVarint[val \div Radix]

EncodeVarintSize[val \in Nat] ==
  IF val < Radix THEN 1 ELSE 1 + EncodeVarintSize[val \div Radix]

\* The loop of decodeTargetData over the bytes of the varints: the values so far,
\* the last one (prevVal), and of the varint it is in the value and the place of
\* the next digit.  It is done with two sentinels in a row; a single one is dropped.
LoopStart == [vals |-> << >>, prev |-> 0, val |-> 0, place |-> 1, done |-> FALSE]

readCell(s, cell) ==
  LET sum == s.val + (cell % Radix) * s.place
  IN  IF s.done THEN s
      ELSE IF cell % (2 * Radix) >= Radix
        THEN [s EXCEPT !.val = sum, !.place = @ * Radix]
      ELSE IF sum = Sentinel /\ s.prev = Sentinel THEN [s EXCEPT !.done = TRUE]
      ELSE [vals  |-> IF sum = Sentinel THEN s.vals ELSE Append(s.vals, sum),
            prev  |-> sum, val |-> 0, place |-> 1, done |-> FALSE]

\* The loop after n cells of m, from p on.
decodeVarints(m, p, n) ==
  LET after[i \in 0 .. n] ==
        IF i = 0 THEN LoopStart ELSE readCell(after[i - 1], m[p + i - 1])
  IN  after[n]

(***************************************************************************)
(* The JIT'd code                                                          *)
(***************************************************************************)

\* A store; one that leaves the memory there is faults.
mapped(range) == range \subseteq Cells
stores(base, cells) ==
  [c \in Cells |-> IF c - base + 1 \in DOMAIN cells THEN cells[c - base + 1]
                                                    ELSE mem[c]]
storesOrFaults(base, cells, next) ==
  IF mapped(base .. (base + Len(cells) - 1))
    THEN mem' = stores(base, cells) /\ pc' = next
    ELSE UNCHANGED mem /\ pc' = "fault"

\* Mutant: an argument is begun once more after a fault at its header.
WriteMagic_retries ==
  /\ pc \in {"magic", "fault"}
  /\ storesOrFaults(dataBase, <<oidMagicId>>, "cookie")
  /\ stored' = Append(stored, << >>)
  /\ UNCHANGED <<env, argCount, run, dataBase, offset, complete, result>>

\* DefineTopLevelGetSizeRef: magic, cookie, and size = 0, in this order.
WriteMagic ==
  /\ pc = "magic"
  /\ storesOrFaults(dataBase, <<oidMagicId>>, "cookie")
  /\ stored' = Append(stored, << >>)
  /\ UNCHANGED <<env, argCount, run, dataBase, offset, complete, result>>

WriteCookie ==
  /\ pc = "cookie"
  /\ storesOrFaults(dataBase + 1, <<cookieOf(run)>>, "size")
  /\ UNCHANGED <<env, argCount, run, dataBase, offset, stored, complete, result>>

ResetSize ==
  /\ pc = "size"
  /\ storesOrFaults(dataBase + 2, <<0>>, "body")
  /\ offset' = HeaderSize
  /\ UNCHANGED <<env, argCount, run, dataBase, stored, complete, result>>

\* Mutant: off by one.
fits_tooFar(sz, off) == sz + off <= DataSize + 1

\* StoreData's check, against the offset from the current dataBase.
fits(sz, off) == sz + off < DataSize

StoreData(val, next) ==
  /\ IF fits(EncodeVarintSize[val], offset)
       THEN storesOrFaults(dataBase + offset, EncodeVarint[val], next)
       ELSE UNCHANGED mem /\ pc' = next
  /\ offset' = offset + EncodeVarintSize[val]

\* getSizeType stores one measurement after the other ...
StoreValue(val) ==
  /\ pc = "body" /\ Len(Last(stored)) < MaxValues
  /\ StoreData(val, "body")
  /\ stored' = [stored EXCEPT ![Len(stored)] = Append(@, val)]
  /\ UNCHANGED <<env, argCount, run, dataBase, complete, result>>

\* ... then come two sentinels ...
StoreSentinel ==
  /\ pc \in {"body", "end"}
  /\ StoreData(Sentinel, IF pc = "body" THEN "end" ELSE "written")
  /\ UNCHANGED <<env, argCount, run, dataBase, stored, complete, result>>

\* Mutant: the base stays where it is.
WriteSize_sameBase ==
  /\ pc = "written"
  /\ mem' = stores(dataBase + 2, <<offset>>)
  /\ complete' = complete + 1
  /\ pc' = IF complete + 1 = argCount THEN "read" ELSE "magic"
  /\ UNCHANGED <<env, argCount, run, dataBase, offset, stored, result>>

\* ... and the size; the next argument follows behind.
WriteSize ==
  /\ pc = "written"
  /\ mem' = stores(dataBase + 2, <<offset>>)
  /\ dataBase' = dataBase + offset
  /\ complete' = complete + 1
  /\ pc' = IF complete + 1 = argCount THEN "read" ELSE "magic"
  /\ UNCHANGED <<env, argCount, run, offset, stored, result>>

\* The JIT'd code reads a bad pointer.
JitFault ==
  /\ "jit_segv" \in env /\ pc = "body"
  /\ pc' = "fault"
  /\ UNCHANGED <<env, argCount, mem, run, dataBase, offset, stored, complete, result>>

(***************************************************************************)
(* oid                                                                     *)
(***************************************************************************)

Init ==
  /\ env \in Envs /\ argCount \in ArgCounts
  /\ mem = [c \in Cells |-> IF c < DataSize THEN 0 ELSE Foreign]
  /\ run = 0 /\ dataBase = 0 /\ offset = 0
  /\ stored = << >> /\ complete = 0 /\ result = << >>
  /\ pc = "idle"

\* segmentInit picks a cookie; compileCode writes it, dataBase and dataSize to
\* the constants of the probe; a thread hits the trap.
StartProbe ==
  /\ pc = "idle" /\ run < MaxRuns
  /\ run' = run + 1
  /\ dataBase' = 0 /\ offset' = 0
  /\ stored' = << >> /\ complete' = 0 /\ result' = << >>
  /\ pc' = "magic"
  /\ UNCHANGED <<env, argCount, mem>>

Error(what)  == [ok |-> FALSE, error |-> what, values |-> << >>]
Decoded(seq) == [ok |-> TRUE, error |-> "none", values |-> seq]

\* oid has a copy of the DataSize cells.  What it finds past their end, or with
\* a size that is less than the header's own, is whatever its heap holds.
readPast == {Error("varint"), Decoded(<<Foreign>>)}

\* Mutant: the cookie is not compared.
validHeader_noCookie(res) == mem[res] = oidMagicId

validHeader(res) == mem[res] = oidMagicId /\ mem[res + 1] = cookieOf(run)

\* The loop that reaches the end of its range has met a varint that is cut off.
decodeTargetData(res) ==
  LET size == mem[res + 2]
      loop == decodeVarints(mem, res + HeaderSize, size - HeaderSize)
  IN  IF ~validHeader(res) THEN {Error("header")}
      ELSE IF size = 0 THEN {Error("empty")}
      ELSE IF DataSize < size THEN {Error("too_small")}
      ELSE IF DataSize < res + size \/ size < HeaderSize THEN readPast
      ELSE IF loop.done THEN {Decoded(loop.vals)}
      ELSE {Error("varint")}

\* Where the next argument follows, if the header is in oid's copy at all.
inCopy(res) == res + HeaderSize <= DataSize
decodeArgument(res) == IF inCopy(res) THEN decodeTargetData(res) ELSE readPast
nextArgument(res) ==
  IF inCopy(res) THEN Min({DataSize, res + mem[res + 2]}) ELSE DataSize

\* processTargetData goes through the arguments until one cannot be decoded.
decodeArguments ==
  LET from[left \in 0 .. (argCount - 1)] ==
        [res \in 0 .. DataSize |->
           UNION {IF d.ok /\ left > 0
                    THEN {<<d>> \o rest : rest \in from[left - 1][nextArgument(res)]}
                    ELSE {<<d>>}
                  : d \in decodeArgument(res)}]
  IN  from[argCount - 1][0]

processTargetData ==
  /\ pc # "idle"
  /\ \/ pc \in {"fault", "read"}
     \/ "no_hit" \in env /\ pc = "magic" /\ stored = << >>
     \/ "early_read" \in env
  /\ result' \in decodeArguments
  /\ pc' = "idle"
  /\ UNCHANGED <<env, argCount, mem, run, dataBase, offset, stored, complete>>

Next ==
  \/ StartProbe
  \/ WriteMagic \/ WriteCookie \/ ResetSize
  \/ \E val \in Values : StoreValue(val)
  \/ StoreSentinel \/ WriteSize \/ JitFault
  \/ processTargetData

Spec == Init /\ [][Next]_vars

(***************************************************************************)
(* Properties                                                              *)
(***************************************************************************)

\* Every variable keeps its type.
TypeOK ==
  /\ env \in Envs /\ argCount \in ArgCounts
  /\ mem \in [Cells -> Nat]
  /\ run \in 0 .. MaxRuns
  /\ dataBase \in Nat /\ offset \in Nat
  /\ complete \in 0 .. argCount
  /\ Len(stored) \in complete .. (complete + 1) \cap 0 .. argCount
  /\ Len(result) \in 0 .. argCount
  /\ pc \in PCs

\* An argument behind the first does not fit.
overrun ==
  /\ argCount > 1
  /\ dataBase + (IF Len(stored) > complete THEN offset ELSE 0) > DataSize

\* What oid decodes for an argument is what the JIT'd code of this very run has
\* stored for it, all of it: "A random value (cookie) to make sure that the
\* data segment we are reading from was not populated in an older run"
\* (OIDebugger.h).  The segment has room for the arguments of a probe with
\* several, oid waits for the JIT'd code to end, and no value is the sentinel.
DecodedIsStored ==
  \A i \in DOMAIN result :
    result[i].ok /\ ~overrun /\ "early_read" \notin env
      => i <= complete /\ result[i].values = stored[i]

SumTo(f, n) ==
  LET total[k \in 0 .. n] == IF k = 0 THEN 0 ELSE total[k - 1] + f[k] IN total[n]

\* The size of the header and of the values vals; of the whole data of an
\* argument, with two sentinels; and of the data of the first i arguments.
bodySize(vals) ==
  HeaderSize + SumTo([k \in 1 .. Len(vals) |-> EncodeVarintSize[vals[k]]], Len(vals))
needed(vals) == bodySize(vals) + 2 * EncodeVarintSize[Sentinel]
neededUpTo(args, i) == SumTo([k \in 1 .. i |-> needed(args[k])], i)

\* Data that leave room in the segment are decoded, whatever an earlier run has
\* left there; a segment that is too small is reported as such, and nothing is
\* decoded.
DecodedOrReported ==
  pc = "idle" /\ result # << >> =>
    /\ \A i \in 1 .. complete :
         neededUpTo(stored, i) < DataSize => i <= Len(result) /\ result[i].ok
    /\ complete >= 1 /\ needed(stored[1]) > DataSize => result[1].error = "too_small"

\* "If more data is written than space available in the data segment, the
\* offset continues to increment but the data is not written": of a probe with
\* one argument.
WritesInSegment == argCount = 1 => \A c \in Cells : c >= DataSize => mem[c] = Foreign

=============================================================================
