----------------------------- MODULE MCSession -----------------------------
(***************************************************************************)
(* Programs, object files and command lines for Session.                   *)
(***************************************************************************)
EXTENDS Session

Ty(name, ptr) == [name |-> name, ptr |-> ptr]
Par(name, type) == [name |-> name, type |-> type, located |-> TRUE]
Sym(name, kind, value) ==
  [name |-> name, kind |-> kind, defined |-> TRUE, value |-> value]
Undefined(name, kind, value) ==
  [name |-> name, kind |-> kind, defined |-> FALSE, value |-> value]

\* A method C::f(T*, U), a function T* g(x), one without a location for its argument,
\* a method without one for this, an inlined one, and a global.  malloc is found only in the last
\* module: the program does not define it, in a debuginfo file it has no code,
\* and a library has a symbol of that name that is not in executable memory.
Prog(id, typeOfX) ==
  [modules |->
     <<[debuginfo |-> FALSE, buildId |-> id,
        symbols |-> <<Undefined("malloc", "func", 100000200), Sym("gv", "object", 100000300),
                      Sym("f", "func", 100000100),
                      Sym(IF typeOfX = "T" THEN "old" ELSE "new", "func", 100000400)>>],
       [debuginfo |-> TRUE, buildId |-> id,
        symbols |-> <<Sym("malloc", "func", 100000500)>>],
       [debuginfo |-> FALSE, buildId |-> NoBuildId,
        symbols |-> <<Sym("malloc", "func", 200000900)>>],
       [debuginfo |-> FALSE, buildId |-> NoBuildId,
        symbols |-> <<Sym("malloc", "func", 200000100), Sym("free", "func", 200000200)>>],
       [debuginfo |-> FALSE, buildId |-> NoBuildId,
        symbols |-> <<Sym("exit", "func", 200000300)>>]>>,
   maps |-> {[start |-> 100000000, end |-> 100001000, exec |-> TRUE],
             [start |-> 200000000, end |-> 200000800, exec |-> TRUE],
             [start |-> 200000800, end |-> 200001000, exec |-> FALSE]},
   funcs |->
     ("f" :> [inlined |-> FALSE, dwarfOk |-> TRUE, ret |-> Void,
              params |-> <<Par("this", Ty("C", 1)), Par("a", Ty("T", 1)),
                           Par("b", Ty("U", 0))>>])
     @@ ("g" :> [inlined |-> FALSE, dwarfOk |-> TRUE, ret |-> Ty("T", 1),
                 params |-> <<Par("x", Ty(typeOfX, 0))>>])
     @@ ("h" :> [inlined |-> FALSE, dwarfOk |-> TRUE, ret |-> Void,
                 params |-> <<[Par("y", Ty("T", 0)) EXCEPT !.located = FALSE]>>])
     @@ ("k" :> [inlined |-> FALSE, dwarfOk |-> TRUE, ret |-> Ty("T", 1),
                 params |-> <<[Par("this", Ty("C", 1)) EXCEPT !.located = FALSE],
                              Par("a", Ty("T", 1)), Par("b", Ty("U", 0))>>])
     @@ ("i" :> [inlined |-> TRUE, dwarfOk |-> TRUE, ret |-> Void, params |-> <<>>]),
   globals |-> ("gv" :> Ty("T", 0))]

\* The argument of g has another type in the second build, and a function another name.
Programs == <<Prog(1, "T"), Prog(2, "U")>>
NoIds == <<Prog(NoBuildId, "T"), Prog(NoBuildId, "U")>>

Sec(kind, size, align) == [kind |-> kind, size |-> size, align |-> align]
Obj(sections) ==
  [sections |-> sections, externals |-> {"dataBase", "malloc", "isset_indexes"}]
Small == [t \in {"T", "U", "C"} |-> Obj(<<Sec("code", 300, 16), Sec("ro", 9, 8)>>)]
SmallObjects == <<Small, Small>>

\* The code for T calls that function.
CallingObjects == <<[Small EXCEPT !["T"].externals = @ \cup {"old"}],
                    [Small EXCEPT !["T"].externals = @ \cup {"new"}]>>

\* Shapes of the code for two arguments: sections of different kinds and
\* alignments in turn, data whose alignment is not that of the constants between,
\* code whose size is next to a multiple of the alignment of the segments and of a
\* page, and code that fills the text segment.
Shapes ==
  LET sections ==
        {<<Sec("code", c, 16), Sec("ro", n, 1), Sec("rw", 8, a), Sec("ro", m, 16),
           Sec("rw", 1, a)>> :
           c \in {1, 127, 128, 3583, 3840}, n \in {1, 127}, a \in {8, 64},
           m \in {1, 129}}
      spread == {<<Sec("code", 130, 16), Sec("ro", n, 1), Sec("rw", a, a), Sec("ro", n, 1),
                   Sec("rw", a, a)>> : n \in {1, 127}, a \in {64, 128}}
      pages == {<<Sec("code", 4096 * p - r, 128)>> :
                  p \in {1277, 1278, 1279, 1280}, r \in {0, 256, 1000, 1408}}
  IN {[t \in {"T", "U", "C"} |-> Obj(IF t = "T" THEN s ELSE <<Sec("code", 130, 32)>>)] :
      s \in sections \cup spread \cup pages}

\* Command lines
Opt(opt, arg) == [opt |-> opt, arg |-> arg]
Probe(type, func, args) ==
  Opt("S", [given |-> TRUE, reqs |-> <<[type |-> type, func |-> func, args |-> args]>>])
Arg(n) == [n |-> n]
F01 == Probe("entry", "f", <<Arg(0), Arg(1)>>)
FThis == Probe("entry", "f", <<This>>)
F1 == Probe("return", "f", <<Arg(1)>>)
G0 == Probe("entry", "g", <<Arg(0)>>)
GRet == Probe("return", "g", <<Retval>>)
GV == Probe("global", "gv", <<>>)
Unreadable == Opt("S", [given |-> TRUE, reqs |-> <<>>])
P == Opt("p", 1)
E == Opt("e", 0)
Cached == Opt("o", "cache")

Run(events, debuggers, programs, objects, invocations) ==
  [programs |-> programs, objects |-> objects, weak |-> {"isset_indexes"},
   invocations |-> invocations, debuggers |-> debuggers, events |-> events]

One == {"oid1"}
Two == {"oid1", "oid2"}

\* Two runs at a time with one cache, for the same type by way of a function and
\* of a global, killed and failing to store; with two arguments one run at a time.
Shared ==
  {Run({"kill", "store_fail"}, Two, Programs, SmallObjects,
       {<<P, Cached, E, G0>>, <<P, Cached, E, GV>>}),
   Run({"kill", "store_fail"}, One, Programs, SmallObjects,
       {<<P, Cached, F01>>, <<P, Cached, E, G0>>}),
   Run({"kill"}, One, Programs, SmallObjects,
       {<<P, Cached, F01>>, <<P, Cached, E, FThis>>}),
   Run({"kill"}, Two, NoIds, SmallObjects, {<<P, Cached, E, G0>>})}

\* The program is built anew, with and without the cache.
Rebuilt ==
  {Run({"rebuild", "kill"}, Two, Programs, SmallObjects, {<<P, Cached, E, G0>>}),
   Run({"rebuild", "compile_fail"}, One, Programs, SmallObjects,
       {<<P, Cached, E, F01>>, <<P, G0>>, <<P, GRet>>, <<P, E, F1>>, <<P, GV>>}),
   Run({"rebuild"}, Two, Programs, CallingObjects, {<<P, Cached, E, GV>>, <<P, E, GV>>}),
   Run({"rebuild"}, One, NoIds, SmallObjects, {<<P, G0>>, <<P, GV>>})}

Logging ==
  {Run({"open", "kill", "log_fail", "stop"}, One, Programs, SmallObjects,
        {<<P, Opt("f", "JitLogging"), G0>>})}

Layout == {Run({}, One, Programs, <<objs, objs>>, {<<P, F01>>}) : objs \in Shapes}

\* Config files: each is read or refused for one reason.
File(features) ==
  [parses |-> TRUE, features |-> features, types |-> {}, headers |-> {},
   ignore |-> {}, capture_keys |-> {}]
Types(list) == {[containers |-> {"vector"}, pass_through |-> list]}
Key(type, members, top) == [type |-> type, members |-> members, top_level |-> top]
Files ==
  {[File({}) EXCEPT !.parses = FALSE], File({"Unknown"}), File({"Library"}),
   File({"JitTiming"}), File({"TypeGraph"}),
   [File({}) EXCEPT !.types = Types({"A"})],
   [File({}) EXCEPT !.types = Types(NoList)],
   [File({}) EXCEPT !.types = Types({"A", BadEntry})],
   [File({}) EXCEPT !.headers = {"/usr"}, !.ignore = {Key("T", {"m"}, NoKey)}],
   [File({}) EXCEPT !.ignore = {Key(NoKey, NoList, NoKey)}],
   [File({}) EXCEPT !.capture_keys = {Key("T", NoList, NoKey), Key(NoKey, NoList, "true")}],
   [File({}) EXCEPT !.capture_keys = {Key("T", NoList, "true")}]}

\* Every two related features, enabled or disabled, and a file; the run ends with the
\* script.  Then the other options.
Related == {"Library", "TreeBuilderV2", "TypeGraph", "JitLogging", "JitTiming",
            "PackStructs"}
FeatureLines ==
  {<<P, Opt(a, f), Opt(b, g), Unreadable>> :
     a, b \in {"f", "F"}, f, g \in Related}
  \cup {<<P, Opt("c", {file}), Opt(a, f), Unreadable>> :
          file \in Files, a \in {"f", "F"},
          f \in {"JitLogging", "TypeGraph", "TreeBuilderV2"}}

OptionLines ==
  {<<P>>, <<G0>>, <<P, Opt("i", {1}), G0>>, <<Opt("i", {1}), Cached, F01>>,
   <<Opt("i", {}), G0>>, <<P, Opt("c", {}), G0>>, <<P, Opt("r", 0)>>,
   <<P, Opt("r", 0), Unreadable>>, <<Opt("i", {1}), Opt("r", 0)>>,
   <<P, Opt("m", "prod"), G0>>, <<P, Opt("m", "prod"), GV>>,
   <<P, Opt("m", "strict"), G0>>, <<P, Opt("m", "fast"), G0>>,
   <<P, Opt("x", 0), G0>>, <<P, Opt("x", 4096), G0>>, <<P, Opt("k", {}), G0>>,
   <<P, E, G0>>, <<P, Opt("u", "upload"), G0>>,
   <<P, Cached, Opt("u", "upload"), G0>>, <<P, Cached, Opt("u", "both"), F1>>,
   <<P, Cached, Opt("u", "download"), G0>>, <<P, Cached, Opt("u", "all"), G0>>,
   <<P, Opt("f", "Unknown"), G0>>, <<P, Opt("h", 0), G0>>, <<P, Opt("d", 2), E, G0>>,
   <<P, Opt("S", [given |-> TRUE, reqs |-> F1.arg.reqs \o G0.arg.reqs])>>,
   <<P, Probe("entry", "f", <<Arg(0), Arg(1), This>>)>>,
   <<P, Probe("entry", "f", <<Arg(2)>>)>>, <<P, Probe("entry", "g", <<This>>)>>,
   <<P, Probe("return", "f", <<Retval>>)>>, <<P, Probe("entry", "g", <<Retval>>)>>,
   <<P, Probe("entry", "h", <<Arg(0)>>)>>, <<P, Probe("entry", "k", <<Arg(0)>>)>>,
   <<P, Probe("entry", "k", <<Arg(1), Arg(2)>>)>>, <<P, Probe("entry", "k", <<This>>)>>,
   <<P, Probe("return", "k", <<Retval>>)>>,
   <<P, Probe("entry", "i", <<Arg(0)>>)>>,
   <<P, Probe("entry", "nothere", <<Arg(0)>>)>>, <<P, Probe("global", "f", <<>>)>>}

Options ==
  {Run({}, One, Programs, SmallObjects, FeatureLines),
   Run({}, One, Programs, SmallObjects, OptionLines)}

AllEnvs == Shared \cup Rebuilt \cup Logging \cup Layout \cup Options

ASSUME ObjectsAsExpected ==
  \A e \in AllEnvs : \A b \in {1, 2} : \A t \in DOMAIN e.objects[b] :
    LET o == e.objects[b][t] IN
    /\ IsObject(o)
    /\ dataPadding(o.sections) <= 128 \/ \E s \in Range(o.sections) : s = Sec("rw", 128, 128)
ASSUME CachesUsedAlike == \A e \in AllEnvs : argumentsListed(e) /\ oneConfigPerCache(e)

StaleEnvs == {Run({"rebuild"}, One, Programs, SmallObjects, {<<P, Cached, GV>>})}
=============================================================================
