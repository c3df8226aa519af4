------------------------------ MODULE CodeGen ------------------------------
(***************************************************************************)
(* CodeGen.cpp: from the debug information of a type to the generated code, *)
(* what the compiler makes of it, and the data the compiled code writes     *)
(* about an object (CodeGen.cpp, FuncGen.cpp, types/*.toml).                *)
(*                                                                         *)
(* A program is a record [db, root]; a configuration [features, containers, *)
(* membersToStub, keysToCapture, passThrough].  The graph is the code: the  *)
(* text that is generated refers to types by name, and NamesIdentifyTypes   *)
(* says that the names stand for the nodes the model refers to.             *)
(***************************************************************************)
EXTENDS TypeGraphPasses, FiniteSetsExt

CONSTANT TypesToStub     \* OICodeGen::typesToStub: names CodeGen v1 stubs

Total(seq) == FoldLeft(LAMBDA a, b : a + b, 0, seq)

(***************************************************************************)
(* transform: the passes in the order they are added to the PassManager.    *)
(***************************************************************************)
PassList(features, keysToCapture) ==
  LET When(on, passes) == IF on THEN passes ELSE <<>>
      prune == When("PruneTypeGraph" \in features, <<"Prune">>)
      v2 == "TreeBuilderV2" \in features
  IN <<"RemoveTopLevelPointer", "IdentifyContainers", "Flattener", "AlignmentCalc",
       "TypeIdentifier">> \o prune
     \o When("PolymorphicInheritance" \in features,
             <<"AddChildren", "IdentifyContainers", "Flattener", "AlignmentCalc",
               "TypeIdentifier">> \o prune)
     \o <<"RemoveMembers">>
     \o When(~v2, <<"EnforceCompatibility">>)
     \o When(v2 /\ keysToCapture # <<>>, <<"KeyCapture">>)
     \o <<"AddPadding", "NameGen", "TopoSorter">>

\* registerContainer: a container that needs a disabled feature is skipped.
RegisterContainers(features, containers) ==
  SelectSeq(containers, LAMBDA info : info.required \subseteq features)

(***************************************************************************)
(* generate.                                                                *)
(***************************************************************************)
InfoOf(infos, x) == CHOOSE i \in ToSet(infos) : i.typeName = x.info
CType(infos, x) == IF x.kind = "Container" THEN InfoOf(infos, x).ctype ELSE ""

IsPadding(m) == StartsWith(m.name, PaddingPrefix)
DataMembers(x) == SelectSeq(x.members, LAMBDA m : ~IsPadding(m))

\* genDefsThrift: the member that holds the isset bits, 0 if there is none.
ThriftIssetMember(g, infos, features, x) ==
  LET isset == {i \in DOMAIN DataMembers(x) :
                  CType(infos, g.nodes[DataMembers(x)[i].type]) = "THRIFT_ISSET"}
  IN IF "CaptureThriftIsset" \notin features \/ isset = {} THEN 0 ELSE Min(isset)

\* Mutant: padding is nobody's.
CalculateExclusiveSize_members(g, n) ==
  LET t == StripTypedefs(g, n)
  IN IF g.nodes[t].kind # "Class" THEN Size(g, t) ELSE 0

\* calculateExclusiveSize: of a class the padding, of anything else all of it.
CalculateExclusiveSize(g, n) ==
  LET t == StripTypedefs(g, n)
      x == g.nodes[t]
  IN IF x.kind # "Class" THEN Size(g, t)
     ELSE Total([i \in DOMAIN x.members |->
                    IF IsPadding(x.members[i]) THEN Size(g, x.members[i].type) ELSE 0])

\* oi_is_complete: false for void and for Incomplete<T>.
IsComplete(g, n) ==
  LET x == g.nodes[StripTypedefs(g, n)]
  IN x.kind # "Incomplete" /\ x.name # <<"void">>

(***************************************************************************)
(* The compiler.  Names: classes and enums are declared before everything   *)
(* (genDecls), typedefs only where they are defined (genDefs).  Complete:   *)
(* what a member held by value needs.                                       *)
(***************************************************************************)
ByValueContainers == {"PAIR", "OPTIONAL"}

RECURSIVE Declared(_, _, _), Complete(_, _, _, _)

Declared(g, defined, n) ==
  LET x == g.nodes[n]
  IN CASE x.kind = "Typedef" -> n \in defined
       [] x.kind \in {"Array", "Pointer", "Reference", "CaptureKeys"} ->
            Declared(g, defined, x.to[1])
       [] x.kind = "Container" -> \A p \in ToSet(x.params) : Declared(g, defined, p.type)
       [] OTHER -> TRUE

Complete(g, infos, defined, n) ==
  LET x == g.nodes[n]
  IN CASE x.kind = "Class" -> n \in defined
       [] x.kind \in {"Typedef", "Array", "CaptureKeys"} -> Complete(g, infos, defined, x.to[1])
       [] CType(infos, x) \in ByValueContainers ->
            \A p \in ToSet(x.params) : Complete(g, infos, defined, p.type)
       [] OTHER -> IsComplete(g, n)

\* genDefs: the definition at position i compiles after the ones before it.
DefinitionCompiles(g, infos, i) ==
  LET n == g.finalTypes[i]
      x == g.nodes[n]
      defined == {g.finalTypes[j] : j \in 1..(i - 1)}
  IN CASE x.kind = "Class" ->
            \A m \in ToSet(x.members) :
               Declared(g, defined, m.type) /\ Complete(g, infos, defined, m.type)
       [] x.kind = "Typedef" -> Declared(g, defined, x.to[1])
       [] OTHER -> TRUE

RoundUp(a, b) == ((a + b - 1) \div b) * b

RECURSIVE SizeOf(_, _, _), AlignOf(_, _, _), Layout(_, _, _)

(***************************************************************************)
(* sizeof, alignof and offsetof of the generated types (x86-64 ABI).  A     *)
(* library container has the size the debug information says, unless it     *)
(* holds its parameters by value.                                           *)
(***************************************************************************)
SizeOf(g, infos, n) ==
  LET x == g.nodes[n]
      Param(i) == x.params[i].type
      Second == RoundUp(SizeOf(g, infos, Param(1)), AlignOf(g, infos, Param(2)))
  IN CASE x.kind = "Class" -> Layout(g, infos, x).size
       [] x.kind = "Array" -> x.len * SizeOf(g, infos, x.to[1])
       [] x.kind \in {"Typedef", "CaptureKeys"} -> SizeOf(g, infos, x.to[1])
       [] CType(infos, x) = "OPTIONAL" ->
            RoundUp(SizeOf(g, infos, Param(1)) + 1, AlignOf(g, infos, n))
       [] CType(infos, x) = "PAIR" ->
            RoundUp(Second + SizeOf(g, infos, Param(2)), AlignOf(g, infos, n))
       [] OTHER -> Size(g, n)

AlignOf(g, infos, n) ==
  LET x == g.nodes[n]
      byValue == [i \in DOMAIN x.params |->
                    IF x.params[i].value = "" THEN AlignOf(g, infos, x.params[i].type) ELSE 1]
  IN CASE x.kind = "Class" -> Layout(g, infos, x).align
       [] x.kind \in {"Array", "Typedef", "CaptureKeys"} -> AlignOf(g, infos, x.to[1])
       [] CType(infos, x) \in ByValueContainers -> FoldLeft(Larger, 1, byValue)
       [] x.kind = "Container" -> InfoOf(infos, x).align
       [] OTHER -> Align(g, n)

\* A member of a class goes behind the ones that were placed.
PlaceBehind(x, placed, bitsize, size, align) ==
  LET from == IF x.union THEN 0 ELSE placed.end
      crosses == (from % (8 * size)) + bitsize > 8 * size
      at == IF bitsize = 0 \/ (~x.packed /\ crosses) THEN RoundUp(from, 8 * align) ELSE from
      end == at + (IF bitsize = 0 THEN 8 * size ELSE bitsize)
  IN [end |-> end, top |-> Larger(placed.top, end), align |-> Larger(placed.align, align),
      offsets |-> Append(placed.offsets, at)]

\* genDefsClass as compiled: packed, alignas for a class of padding only.
Layout(g, infos, x) ==
  LET PlaceMember(placed, m) ==
        PlaceBehind(x, placed, m.bitsize, SizeOf(g, infos, m.type),
              IF x.packed THEN 1 ELSE AlignOf(g, infos, m.type))
      alignas == IF Len(x.members) = 1 /\ IsPadding(x.members[1]) THEN x.align ELSE 1
      Laid(placed, align) ==
        [size |-> RoundUp(RoundUp(placed.top, 8) \div 8, align), align |-> align,
         offsets |-> placed.offsets]
      Aligned(placed) == Laid(placed, Larger(placed.align, alignas))
  IN Aligned(FoldLeft(PlaceMember, [end |-> 0, top |-> 0, align |-> 1, offsets |-> <<>>],
                      x.members))

\* genStaticAsserts: validate_size and validate_offset of classes and containers.
StaticAssertsHold(g, infos, n) ==
  LET x == g.nodes[n]
      Validated(layout) ==
        /\ layout.size = x.size
        /\ \A i \in DOMAIN x.members :
             x.members[i].bitsize > 0 \/ layout.offsets[i] = x.members[i].bitOffset
  IN CASE x.kind = "Class" -> Validated(Layout(g, infos, x))
       [] x.kind = "Container" -> SizeOf(g, infos, n) = x.size
       [] OTHER -> TRUE


\* The parameters that hold elements: the first numTemplateParams.
ElementTypes(infos, x) ==
  LET info == InfoOf(infos, x)
  IN IF info.underlying # 0 THEN <<x.params[info.underlying].type>>
     ELSE Types(SubSeq(x.params, 1, IF info.nparams < Len(x.params) THEN info.nparams
                                                                   ELSE Len(x.params)))

\* The types whose handlers a handler's static type is made of.
HandlerTypes(g, infos, x) ==
  CASE x.kind = "Container" -> ElementTypes(infos, x)
    [] x.kind = "Class" -> Types(DataMembers(x))
    [] OTHER -> x.to

\* A static type that contains itself: no compiler accepts it.
RECURSIVE ReachesItself(_, _, _, _)
ReachesItself(g, infos, n, above) ==
  \/ n \in above
  \/ \E m \in ToSet(HandlerTypes(g, infos, g.nodes[n])) :
        ReachesItself(g, infos, m, IF g.nodes[n].kind = "Class" THEN above \cup {n} ELSE above)

Compiles(g, infos, features) ==
  /\ \A i \in DOMAIN g.finalTypes : DefinitionCompiles(g, infos, i)
  /\ \A n \in ToSet(g.finalTypes) : StaticAssertsHold(g, infos, n)
  /\ "TreeBuilderV2" \in features => ~ReachesItself(g, infos, g.roots[1], {})

(***************************************************************************)
(* What the compiled code writes about an object.  The object is a list of  *)
(* words: every pointer, length or flag that is looked at is the next one   *)
(* (0 after the last).  c is the compiled code [g, infos, features], w the  *)
(* state of the run: the words left, what was written, ctx.pointers and, to *)
(* compare the readers with, what was visited and the bytes found on the    *)
(* heap.                                                                    *)
(***************************************************************************)
Writer(memory) ==
  [mem |-> memory, out |-> <<>>, pointers |-> {}, log |-> <<>>, heap |-> 0]

Look(w) == IF w.mem = <<>> THEN 0 ELSE Head(w.mem)
Skip(w) == [w EXCEPT !.mem = IF @ = <<>> THEN @ ELSE Tail(@)]

Store(w, words) == [w EXCEPT !.out = @ \o words]
\* The words that describe the object of type n itself.
Describe(w, n, words) ==
  [Store(w, words) EXCEPT !.log = Append(@, [node |-> n, words |-> words])]

V2(c) == "TreeBuilderV2" \in c.features
NoIndex == -1                    \* the class is not one of its descendants
ContainerAddress == 100          \* &container
NodeSize == 40                   \* sizeof(node_type) of trees and hash tables

\* SAVE_DATA calls of a container's codegen.func, in order (types/*.toml).
StoredHeader(ctype) ==
  CASE ctype \in {"SEQ", "MAP_SEQ", "FOLLY_SMALL_HEAP_VECTOR_MAP", "REPEATED_FIELD"} ->
         <<"this", "capacity", "length">>
    [] ctype = "LIST" -> <<"this", "length">>
    [] ctype \in {"STRING", "FOLLY_IOBUF"} -> <<"capacity", "length">>
    [] ctype = "FB_STRING" -> <<"this", "capacity", "length", "flag">>
    [] ctype \in {"ARRAY", "BOOST_BIMAP", "MULTI_SET", "MULTI_MAP"} -> <<"length">>
    [] ctype = "SMALL_VEC" -> <<"word", "capacity", "length">>
    [] ctype \in {"SET", "STD_MAP"} -> <<"node", "length">>
    [] ctype \in {"UNORDERED_SET", "UNORDERED_MULTISET", "STD_UNORDERED_MAP",
                  "STD_UNORDERED_MULTIMAP"} -> <<"node", "word", "length">>
    [] ctype \in {"F14_MAP", "F14_SET"} -> <<"word", "capacity", "length">>
    [] ctype = "CAFFE2_BLOB" -> <<"word">>
    [] ctype \in {"WEAK_PTR", "THRIFT_ISSET", "PAIR"} -> <<>>

\* The writes of a container's codegen.traversal_func (types/*.toml).
TraversedHeader(ctype) ==
  CASE ctype = "SEQ" -> <<"this", "capacity", "length">>
    [] ctype \in {"LIST", "STD_MAP"} -> <<"this", "length">>
    [] ctype \in {"THRIFT_ISSET", "PAIR"} -> <<>>

\* One word of a header: the length is the next word of the object, the
\* capacity that and one more for an odd word.
HeaderWord(field, w) ==
  CASE field = "this" -> ContainerAddress
    [] field = "capacity" -> Look(w) + (Look(Skip(w)) % 2)
    [] field = "length" -> Look(w)
    [] field = "word" -> Look(w)
    [] field = "flag" -> Look(w) % 2
    [] field = "node" -> NodeSize

TrackedContainers == {"UNIQ_PTR", "SHRD_PTR", "REF_WRAPPER"}
AdapterContainers == {"CONTAINER_ADAPTER", "SORTED_VEC_SET"}
OptionalContainers == {"OPTIONAL", "FOLLY_OPTIONAL"}

\* sizeof(OI_Rb_tree_node): colour and three pointers, then the pair.
MapElementSize(c, types) ==
  LET second == RoundUp(Size(c.g, types[1]), AlignOf(c.g, c.infos, types[2]))
  IN RoundUp(4 * WordSize + second + Size(c.g, types[2]), WordSize)

RECURSIVE Visit(_, _, _)

VisitAll(c, types, w) == FoldLeft(LAMBDA v, n : Visit(c, n, v), w, types)

(***************************************************************************)
(* getSizeType of a pointer: the address, whether it was followed (it is    *)
(* not null and was not seen) and what it points to.  Without TreeBuilderV2 *)
(* nothing but the address is stored for an incomplete type.                *)
(***************************************************************************)
VisitPointer(c, n, target, w) ==
  LET p == Look(w)
      follow == p # 0 /\ p \notin w.pointers
      complete == IsComplete(c.g, target)
      words == IF ~V2(c) /\ ~complete THEN <<p>> ELSE <<p, IF follow THEN 1 ELSE 0>>
      v == Describe(Skip(w), n, words)
      added == [v EXCEPT !.pointers = @ \cup {p}, !.heap = @ + Size(c.g, target)]
  IN CASE ~complete -> IF follow /\ V2(c) THEN [v EXCEPT !.pointers = @ \cup {p}] ELSE v
       [] complete /\ ~follow -> v
       [] complete /\ follow -> Visit(c, target, added)

(***************************************************************************)
(* getSizeType of the containers.  A pair, an optional and a variant hold   *)
(* what they store; a smart pointer to an incomplete type stores nothing    *)
(* (v1) or its address and that it was not followed (v2).                   *)
(***************************************************************************)
VisitContainer(c, n, x, capture, w) ==
  LET ctype == CType(c.infos, x)
      elements == ElementTypes(c.infos, x)
      header == IF V2(c) THEN TraversedHeader(ctype) ELSE StoredHeader(ctype)
      words == [i \in DOMAIN header |-> HeaderWord(header[i], w)]
      HasField(f) == f \in ToSet(header)
      length == IF HasField("length") THEN Look(w) ELSE IF ctype = "PAIR" THEN 1 ELSE 0
      capacity == IF HasField("capacity") THEN HeaderWord("capacity", w) ELSE length
      v == Describe(IF header = <<>> THEN w
                    ELSE IF HasField("capacity") THEN Skip(Skip(w)) ELSE Skip(w), n, words)
      sizes == Total([i \in DOMAIN elements |-> Size(c.g, elements[i])])
      perElement == CASE ctype = "STD_MAP" /\ V2(c) -> MapElementSize(c, elements)
                      [] ctype = "STD_MAP" /\ ~V2(c) -> sizes + NodeSize
                      [] OTHER -> sizes
      counted == [v EXCEPT !.heap = @ + (IF ctype = "PAIR" THEN 0 ELSE capacity * perElement)]
      Key(u) == IF ~capture \/ ctype # "STD_MAP" THEN u
                ELSE IF c.g.nodes[StripTypedefs(c.g, elements[1])].kind
                          \in {"Primitive", "Enum", "Pointer"}
                THEN Store(Skip(u), <<0, Look(u)>>) ELSE Store(u, <<1, ContainerAddress>>)
      full == Look(w) # 0
      alternative == Look(w) % (Len(elements) + 1)
  IN CASE ctype = "TRY" ->
            LET u == Describe(Skip(w), n, <<ContainerAddress, IF full THEN ContainerAddress ELSE 0>>)
            IN IF full THEN Visit(c, elements[1], u) ELSE u
       [] ctype = "FOLLY_IOBUFQUEUE" ->
            LET u == Describe(Skip(w), n, <<Look(w), IF full THEN 1 ELSE 0>>)
            IN IF full THEN Describe(Skip(u), n, <<Look(u), Look(u)>>) ELSE u
       [] ctype \in TrackedContainers ->
            IF IsComplete(c.g, elements[1]) THEN VisitPointer(c, n, elements[1], w)
            ELSE IF V2(c) THEN Describe(Skip(w), n, <<Look(w), 0>>) ELSE w
       [] ctype \in OptionalContainers ->
            LET u == Describe(Skip(w), n, <<IF full THEN 1 ELSE 0>>)
            IN IF full THEN Visit(c, elements[1], u) ELSE u
       [] ctype \in AdapterContainers ->
            Visit(c, elements[1], Describe(w, n, <<ContainerAddress>>))
       [] ctype = "STD_VARIANT" ->
            LET u == Describe(Skip(w), n, <<alternative>>)
            IN IF alternative < Len(elements) THEN Visit(c, elements[alternative + 1], u) ELSE u
       [] OTHER -> FoldLeft(LAMBDA u, i : VisitAll(c, elements, Key(u)), counted,
                            [i \in 1..length |-> i])

\* What getThriftIsset gives for a member, notOptional if it has no isset bit.
ThriftIsset(w, notOptional) ==
  Store(Skip(w), <<IF Look(w) > 1 THEN notOptional ELSE Look(w)>>)

\* The members that are not padding, each after its isset value.
VisitMembers(c, x, notOptional, w) ==
  LET members == DataMembers(x)
      isset == ThriftIssetMember(c.g, c.infos, c.features, x)
      Before(i, v) == IF isset = 0 \/ i = isset THEN v ELSE ThriftIsset(v, notOptional)
  IN FoldLeft(LAMBDA v, i : Visit(c, members[i].type, Before(i, v)), w,
              [i \in DOMAIN members |-> i])

getClassSizeFuncConcrete(c, x, w) == VisitMembers(c, x, -1, w)
genClassTraversalFunction(c, x, w) == VisitMembers(c, x, 2, w)

(***************************************************************************)
(* getClassSizeFuncDef: a dynamic class first stores which descendant it    *)
(* is.  No vtable is found for any of them ("TODO - implement me" names no  *)
(* symbol), so it is itself.                                                *)
(***************************************************************************)
getClassSizeFuncDef(c, x, w) ==
  LET dynamic == "PolymorphicInheritance" \in c.features /\ IsDynamic(x)
  IN getClassSizeFuncConcrete(c, x, IF dynamic THEN Store(w, <<NoIndex>>) ELSE w)

VisitClass(c, x, w) ==
  IF V2(c) THEN genClassTraversalFunction(c, x, w) ELSE getClassSizeFuncDef(c, x, w)

\* getSizeType for an object of type n; an alias is the type it stands for.
Visit(c, n, w) ==
  LET x == c.g.nodes[n]
  IN CASE x.kind = "Class" -> VisitClass(c, x, w)
       [] x.kind = "Container" -> VisitContainer(c, n, x, FALSE, w)
       [] x.kind = "CaptureKeys" ->
            VisitContainer(c, n, c.g.nodes[StripTypedefs(c.g, x.to[1])], TRUE, w)
       [] x.kind \in {"Pointer", "Reference"} -> VisitPointer(c, n, x.to[1], w)
       [] x.kind = "Array" ->
            FoldLeft(LAMBDA v, i : Visit(c, x.to[1], v), Describe(w, n, <<x.len>>),
                     [i \in 1..x.len |-> i])
       [] x.kind = "Typedef" -> Visit(c, x.to[1], w)
       [] OTHER -> w

\* getSize_<hash> or introspect_<hash>: the pointers are forgotten first.
Introspect(c, memory) == Visit(c, c.g.roots[1], Writer(memory))
=============================================================================
