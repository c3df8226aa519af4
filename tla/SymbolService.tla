---------------------------- MODULE SymbolService ----------------------------
(***************************************************************************)
(* What oid finds out about the target from its ELF files and from its     *)
(* debug information: addresses, the build id, descriptors of functions    *)
(* and globals, and the type a request is about.                           *)
(*                                                                         *)
(* A program is a record:                                                  *)
(*   modules: the ELF modules in the order dwfl reports them, each a       *)
(*            record [debuginfo, buildId, symbols]; a symbol is a record   *)
(*            [name, kind, defined, value]                                 *)
(*   maps:    the mappings, records [start, end, exec]                     *)
(*   funcs:   what DWARF says of a function: [inlined, dwarfOk, ret,       *)
(*            params]; a parameter is [name, type, located]                *)
(*   globals: global variable -> type                                      *)
(* A type is a record [name, ptr]: a number of pointers to a named type.   *)
(***************************************************************************)
EXTENDS Integers, Sequences, SequencesExt

\* What is relied on in debug information: modules, their symbols and parameters
\* come one after the other, a type is a name and a number of pointers, and only the
\* first parameter is called this.
IsList(seq) == Len(seq) \in Nat /\ DOMAIN seq = 1 .. Len(seq)
IsType(type) == type = [name |-> type.name, ptr |-> type.ptr]
WellFormed(prog) ==
  /\ IsList(prog.modules) /\ \A m \in Range(prog.modules) : IsList(m.symbols)
  /\ \A x \in DOMAIN prog.globals : IsType(prog.globals[x])
  /\ \A x \in DOMAIN prog.funcs :
       LET f == prog.funcs[x] IN
       /\ IsType(f.ret)
       /\ IsList(f.params)
       /\ \A i \in DOMAIN f.params :
            /\ IsType(f.params[i].type)
            /\ f.params[i].name = "this" => i = 1

Null == [null |-> TRUE]
NoBuildId == 0
Void == [name |-> "void", ptr |-> 0]

\* The argument of a request: [n |-> i] for argi.
Retval == [n |-> -1]
This == [n |-> -2]
NoArg == [n |-> -3] \* of a global

irequest(type, func, arg) == [type |-> type, func |-> func, arg |-> arg]

isReturnRetVal(req) == req.type = "return" /\ req.arg = Retval

(***************************************************************************)
(* ELF: addresses and the build id                                         *)
(***************************************************************************)

\* For a process the executable lines of its maps, for a file the bounds of
\* the one module.
executableAddrs(prog, attached) ==
  IF attached THEN {m \in prog.maps : m.exec} ELSE prog.maps

isExecutableAddr(addr, ranges) == \E r \in ranges : r.start <= addr /\ addr < r.end

\* moduleCallback on one module: the address, 0 if it has no such symbol.
moduleCallback(mod, name, ranges) ==
  LET matches(s) == /\ s.defined /\ s.name = name
                    /\ \/ s.kind = "object"
                       \/ s.kind = "func" /\ isExecutableAddr(s.value, ranges)
      i == SelectInSeq(mod.symbols, matches)
  IN IF mod.debuginfo \/ i = 0 THEN 0 ELSE mod.symbols[i].value

\* The first module that has the symbol ends the search; 0: not found.
locateSymbol(prog, name, attached) ==
  LET ranges == executableAddrs(prog, attached)
      i == SelectInSeq(prog.modules, LAMBDA m : moduleCallback(m, name, ranges) # 0)
  IN IF i = 0 THEN 0 ELSE moduleCallback(prog.modules[i], name, ranges)

\* The target program is the first module, the search ends there.
locateBuildID(prog) == prog.modules[1].buildId

(***************************************************************************)
(* DWARF: descriptors.  descs is the member funcDescs or globalDescs, a    *)
(* function from names; without drgn (-m prod) only descriptors that were  *)
(* loaded from the cache are there.                                        *)
(***************************************************************************)

\* One pointer is taken off.
getTypeName(type) == [type EXCEPT !.ptr = IF @ = 0 THEN 0 ELSE @ - 1]

\* One entry for every formal parameter, valid or not: without a location its name
\* is not looked at, so a method whose this has none is taken for a function, and
\* its arguments are counted with this.
parseFormalParam(param) ==
  [valid |-> param.located, typeName |-> getTypeName(param.type)]

createFuncDesc(prog, func) ==
  LET f == prog.funcs[func] IN
  IF func \notin DOMAIN prog.funcs THEN Null
  ELSE IF f.inlined \/ ~f.dwarfOk THEN Null
  ELSE [isMethod |-> \E i \in DOMAIN f.params :
                       f.params[i].located /\ f.params[i].name = "this",
        retval |-> [valid |-> getTypeName(f.ret) # Void,
                    typeName |-> getTypeName(f.ret)],
        arguments |-> [i \in DOMAIN f.params |-> parseFormalParam(f.params[i])]]

findFuncDesc(prog, drgn, descs, func) ==
  IF func \in DOMAIN descs THEN descs[func]
  ELSE IF ~drgn THEN Null ELSE createFuncDesc(prog, func)

findGlobalDesc(prog, drgn, descs, global, attached) ==
  IF global \in DOMAIN descs THEN descs[global]
  ELSE IF \/ locateSymbol(prog, global, attached) = 0
          \/ ~drgn
          \/ global \notin DOMAIN prog.globals
         THEN Null
  ELSE [addr |-> locateSymbol(prog, global, attached),
        typeName |-> getTypeName(prog.globals[global])]

numArgs(fd) == Len(fd.arguments) - (IF fd.isMethod THEN 1 ELSE 0)

\* The position in arguments, counted from 1; 0: there is none.
getArgumentIndex(fd, arg) ==
  IF arg = This THEN (IF fd.isMethod THEN 1 ELSE 0)
  ELSE IF arg.n \notin 0 .. numArgs(fd) - 1 THEN 0
  ELSE arg.n + 1 + (IF fd.isMethod THEN 1 ELSE 0)

getArgument(fd, arg) ==
  LET i == getArgumentIndex(fd, arg)
      out == IF arg = Retval THEN fd.retval
             ELSE IF i = 0 THEN [valid |-> FALSE] ELSE fd.arguments[i]
  IN IF out.valid THEN out ELSE Null

\* The descriptor of what a request is about, Null if there is none.
TargetObject(prog, drgn, descs, req, attached) ==
  IF req.type = "global"
    THEN findGlobalDesc(prog, drgn, descs, req.func, attached)
    ELSE LET fd == findFuncDesc(prog, drgn, descs, req.func) IN
         IF fd = Null THEN Null ELSE getArgument(fd, req.arg)

\* The type that code is generated for, and the name of the variable.
getRootType(prog, drgn, descs, req, attached) ==
  IF req.type = "global"
    THEN IF ~drgn \/ TargetObject(prog, drgn, descs, req, attached) = Null
           THEN Null ELSE [varName |-> req.func, type |-> prog.globals[req.func]]
    ELSE LET fd == findFuncDesc(prog, drgn, descs, req.func)
             f == prog.funcs[req.func]
             i == getArgumentIndex(fd, req.arg)
         IN IF fd = Null \/ ~drgn \/ req.func \notin DOMAIN prog.funcs THEN Null
            ELSE IF isReturnRetVal(req) THEN [varName |-> "return", type |-> f.ret]
            ELSE IF f.params = <<>> \/ i = 0 THEN Null
            ELSE IF ~fd.arguments[i].valid THEN Null
            ELSE [varName |-> f.params[i].name, type |-> f.params[i].type]

\* The types that there may be code for.
codeTypes(prog) ==
  {prog.globals[x] : x \in DOMAIN prog.globals}
    \cup {f.ret : f \in {f \in Range(prog.funcs) : getTypeName(f.ret) # Void}}
    \cup UNION {{f.params[i].type : i \in DOMAIN f.params} : f \in Range(prog.funcs)}
=============================================================================
