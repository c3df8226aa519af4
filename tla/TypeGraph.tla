----------------------------- MODULE TypeGraph -----------------------------
(***************************************************************************)
(* The type graph (oi/type_graph/TypeGraph.h, Types.h, Types.cpp), the      *)
(* visitors that walk it (Visitor.h, NodeTracker.h) and nothing else: the   *)
(* parser and the passes are in modules of their own.                       *)
(*                                                                         *)
(* A graph is a record: its nodes (types_, in creation order after the      *)
(* static primitives), its roots, the sorted types of the last pass and the *)
(* next node id.  A reference to a type is the node's index.  A name is a   *)
(* sequence of tokens: only "<", which opens template parameters, and the   *)
(* numbers NameGen appends are told apart.                                  *)
(*                                                                         *)
(* All recursion over the graph is a walk with an explicit list of things   *)
(* left to do, so that cyclic graphs are walked exactly as far as the code  *)
(* walks them.                                                              *)
(***************************************************************************)
EXTENDS Integers, Sequences, SequencesExt, FiniteSets, TLC

WordSize == 8        \* sizeof(uintptr_t)

(***************************************************************************)
(* Primitive::Kind with Primitive::size.  Float80, for which both getName   *)
(* and size abort, cannot be made by a parser and is left out.              *)
(***************************************************************************)
Primitives ==
  << [name |-> "int8_t",  size |-> 1], [name |-> "int16_t",  size |-> 2],
     [name |-> "int32_t", size |-> 4], [name |-> "int64_t",  size |-> 8],
     [name |-> "uint8_t", size |-> 1], [name |-> "uint16_t", size |-> 2],
     [name |-> "uint32_t", size |-> 4], [name |-> "uint64_t", size |-> 8],
     [name |-> "float", size |-> 4], [name |-> "double", size |-> 8],
     [name |-> "long double", size |-> 16], [name |-> "bool", size |-> 1],
     [name |-> "StubbedPointer", size |-> WordSize],
     [name |-> "void", size |-> 0] >>

\* The singleton that makeType<Primitive>(kind) returns for every graph.
Primitive(name) ==
  CHOOSE i \in DOMAIN Primitives : Primitives[i].name = name

(***************************************************************************)
(* One record shape for every class of Types.h.  "to" is the only node an   *)
(* Array, Typedef, Pointer, Reference, DummyAllocator or CaptureKeys refers *)
(* to, and a Container's underlying class (empty once pruned); "info" names *)
(* a container's ContainerInfo and "capture" its captureKeys copy.          *)
(***************************************************************************)
Node(kind) ==
  [kind |-> kind, id |-> -1, name |-> <<>>, input |-> <<>>, size |-> 0,
   align |-> 0, packed |-> FALSE, union |-> FALSE, virtuality |-> 0,
   params |-> <<>>, parents |-> <<>>, members |-> <<>>, functions |-> <<>>,
   children |-> <<>>, to |-> <<>>, len |-> 0, info |-> "", capture |-> FALSE]

Member(type, name, bitOffset, bitsize) ==
  [type |-> type, name |-> name, inputName |-> name, bitOffset |-> bitOffset,
   bitsize |-> bitsize, align |-> 0]

Parent(type, bitOffset) == [type |-> type, bitOffset |-> bitOffset]

TemplateParam(type, const, value) ==
  [type |-> type, const |-> const, value |-> value]

\* The nodes of the classes that a parser or a pass makes.
Incomplete(input) == [Node("Incomplete") EXCEPT !.name = <<"void">>, !.input = input]

Class(name, fqName, size, union, virtuality) ==
  [Node("Class") EXCEPT !.name = name, !.input = fqName, !.size = size, !.union = union,
                        !.virtuality = virtuality]

\* A container around the class at node c, with the parameters of that class.
Container(info, size, c, params) ==
  [Node("Container") EXCEPT !.info = info.typeName, !.name = <<info.typeName>>,
     !.input = <<info.typeName>>, !.size = size, !.to = <<c>>, !.params = params]

Enum(name, fqName, size) ==
  [Node("Enum") EXCEPT !.name = name, !.input = fqName, !.size = size]

Array(to, len) == [Node("Array") EXCEPT !.to = <<to>>, !.len = len]
Typedef(name, to) == [Node("Typedef") EXCEPT !.to = <<to>>, !.name = name, !.input = name]
Pointer(to) == [Node("Pointer") EXCEPT !.to = <<to>>]

Dummy(id, size, align, input) ==
  [Node("Dummy") EXCEPT !.size = size, !.align = align, !.input = input,
                        !.name = <<"DummySizedOperator", ToString(id)>>]

DummyAllocator(id, to, size, align, input) ==
  [Node("DummyAllocator") EXCEPT !.id = id, !.to = <<to>>, !.size = size, !.align = align,
                                 !.input = input]

CaptureKeys(to, info) ==
  [Node("CaptureKeys") EXCEPT !.to = <<to>>, !.info = info, !.capture = TRUE]

EmptyGraph ==
  [nodes |-> [i \in DOMAIN Primitives |->
                [Node("Primitive") EXCEPT !.name = <<Primitives[i].name>>,
                                          !.input = <<Primitives[i].name>>,
                                          !.size = Primitives[i].size,
                                          !.align = Primitives[i].size]],
   roots |-> <<>>, finalTypes |-> <<>>, nextId |-> 0]

HasNodeId(kind) == kind \notin {"Primitive", "Enum", "CaptureKeys"}

\* makeType: the new node is the last one; leaf kinds keep the id -1.
MakeType(g, node) ==
  LET hasId == HasNodeId(node.kind)
  IN [g EXCEPT !.nodes = Append(@, [node EXCEPT !.id = IF hasId THEN g.nextId
                                                                 ELSE -1]),
               !.nextId = IF hasId THEN @ + 1 ELSE @]

NewNode(g) == Len(g.nodes)

RECURSIVE Size(_, _), Align(_, _), StripTypedefs(_, _)

\* The virtual size() of every class of Types.h.
Size(g, n) ==
  LET x == g.nodes[n]
  IN CASE x.kind = "Array" -> x.len * Size(g, x.to[1])
       [] x.kind \in {"Typedef", "CaptureKeys"} -> Size(g, x.to[1])
       [] x.kind \in {"Pointer", "Reference"} -> WordSize
       [] OTHER -> x.size

\* The virtual align() of every class of Types.h.
Align(g, n) ==
  LET x == g.nodes[n]
  IN CASE x.kind \in {"Array", "Typedef", "CaptureKeys"} -> Align(g, x.to[1])
       [] x.kind \in {"Pointer", "Reference"} -> WordSize
       [] x.kind = "Enum" -> x.size
       [] OTHER -> x.align

StripTypedefs(g, n) ==
  IF g.nodes[n].kind = "Typedef" THEN StripTypedefs(g, g.nodes[n].to[1]) ELSE n

\* A class with a virtual base or a virtual function.
IsDynamic(x) ==
  x.virtuality # 0 \/ \E f \in ToSet(x.functions) : f.virtuality # 0

(***************************************************************************)
(* regenerateName of Array, Pointer, Reference, DummyAllocator and          *)
(* CaptureKeys, from the name its target has now; inputName likewise.       *)
(***************************************************************************)
RegeneratedName(g, x) ==
  LET target == g.nodes[x.to[1]].name
  IN CASE x.kind = "Array" -> <<"OIArray", "<">> \o target \o <<ToString(x.len), ">">>
       [] x.kind \in {"Pointer", "Reference"} -> target \o <<"*">>
       [] x.kind = "DummyAllocator" ->
            <<"DummyAllocator", "<">> \o target
              \o <<ToString(x.size), ToString(x.align), ToString(x.id), ">">>
       [] x.kind = "CaptureKeys" -> <<"OICaptureKeys", "<">> \o target \o <<">">>

\* The constructors of those classes regenerate the name.
MakeNamed(g, x) ==
  MakeType(g, [x EXCEPT !.name = RegeneratedName(g, [x EXCEPT !.id = g.nextId])])

(***************************************************************************)
(* Walking.  An item of the list of things left to do is a call of accept,  *)
(* of acceptAfter (TopoSorter), or the rest of a visit: what it does after  *)
(* its first calls of accept and, for the classes whose children come last, *)
(* what it does after those.                                                *)
(***************************************************************************)
Calls(op, types) == [i \in DOMAIN types |-> [op |-> op, node |-> types[i]]]
Accept(types) == Calls("accept", types)
AcceptAfter(types) == Calls("after", types)

Types(refs) == [i \in DOMAIN refs |-> refs[i].type]

\* RecursiveVisitor::visit for every class of node.
Edges(x) ==
  Types(x.params) \o Types(x.parents) \o Types(x.members) \o x.children \o x.to

(***************************************************************************)
(* accept and visit of a pass over a state s that holds the graph (s.g),    *)
(* what was visited (s.seen) and the pass' own variables.  With byId the    *)
(* pass uses NodeTracker, which never remembers a node without an id; the   *)
(* others remember addresses.  Pre, First, Post, Late and End are the parts *)
(* of visit in order: a change, calls, a change, calls, a change.           *)
(***************************************************************************)
Walk(s0, roots, byId, Pre(_, _), First(_, _), Post(_, _), Late(_, _), End(_, _)) ==
  LET Tracked(s, n) == ~byId \/ s.g.nodes[n].id >= 0
      RECURSIVE Go(_, _)
      Go(s, todo) ==
        IF todo # <<>>
        THEN LET n == Head(todo).node
                 op == Head(todo).op
                 rest == Tail(todo)
             IN CASE op = "accept" ->
                       IF n \in s.seen THEN Go(s, rest)
                       ELSE LET t == Pre([s EXCEPT !.seen =
                                            IF Tracked(s, n) THEN @ \cup {n} ELSE @], n)
                            IN Go(t, First(t, n) \o Calls("post", <<n>>) \o rest)
                  [] op = "post" ->
                       LET t == Post(s, n)
                       IN Go(t, Late(t, n) \o Calls("end", <<n>>) \o rest)
                  [] op = "end" -> Go(End(s, n), rest)
                  [] op = "after" -> Go([s EXCEPT !.queue = Append(@, n)], rest)
        ELSE IF s.queue # <<>>
        THEN Go([s EXCEPT !.queue = Tail(@)], Accept(<<Head(s.queue)>>))
        ELSE s
  IN Go(s0, Accept(roots))

\* The state a pass starts from: Pass::run hands it a tracker that was reset.
PassState(g) ==
  [g |-> g, seen |-> {}, queue |-> <<>>, error |-> "", undefined |-> FALSE, n |-> 0,
   sorted |-> <<>>, dummies |-> <<>>]

\* Parts of a visit that change nothing or make no call.
Keep(s, n) == s
NoCalls(s, n) == <<>>
AllEdges(s, n) == Accept(Edges(s.g.nodes[n]))

SetNode(s, n, x) == [s EXCEPT !.g.nodes[n] = x]

\* Every node a recursive visitor reaches from the roots of g.
Reached(g) ==
  Walk(PassState(g), g.roots, FALSE, Keep, AllEdges, Keep, NoCalls, Keep).seen
=============================================================================
