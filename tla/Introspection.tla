--------------------------- MODULE Introspection ---------------------------
(***************************************************************************)
(* One type from its debug information to the tree that is shown for an     *)
(* object of it: CodeGen::codegenFromDrgn (registerContainers, addDrgnRoot, *)
(* the passes of transform, generate), the compiler, the code running in    *)
(* the target, and the reader of what it wrote: TreeBuilder, or the         *)
(* IntrospectionResult iterator when TreeBuilderV2 is enabled.              *)
(***************************************************************************)
EXTENDS TreeBuilder, IntrospectionResult

CONSTANTS Inputs,       \* what oid is asked: [program, config], the type and the configuration
          Memories      \* the contents an object may have

VARIABLES program, config,
          infos,        \* containerInfos_
          graph, memo,  \* typeGraph_ and drgn_types_ of the parser that filled it
          passes,       \* the passes of the PassManager that are still to run
          pc, error,
          undefined,    \* something the language does not define was done
          run,          \* the run of the generated code
          tree, it      \* the readers

vars == <<program, config, infos, graph, memo, passes, pc, error, undefined, run, tree, it>>

features == config.features
\* A pass-through type is a container with a ContainerInfo of its own.
allInfos == infos \o config.passThrough
code == [g |-> graph, infos |-> allInfos, features |-> features]

Init ==
  /\ \E input \in Inputs : program = input.program /\ config = input.config
  /\ infos = <<>> /\ graph = EmptyGraph /\ memo = <<>> /\ passes = <<>>
  /\ pc = "registerContainers" /\ error = "" /\ undefined = FALSE
  /\ run = Writer(<<>>) /\ tree = Tree(<<>>) /\ it = <<>>

\* A container file that cannot be read ends codegenFromDrgn.
registerContainers ==
  /\ pc = "registerContainers"
  /\ infos' = IF config.badContainer THEN <<>> ELSE RegisterContainers(features, config.containers)
  /\ pc' = IF config.badContainer THEN "failed" ELSE "addDrgnRoot"
  /\ UNCHANGED <<program, config, graph, memo, passes, error, undefined, run, tree, it>>

addDrgnRoot ==
  LET p == Parse(Parser(graph, program.db, "ChaseRawPointers" \in features), program.root)
  IN /\ pc = "addDrgnRoot"
     /\ graph' = IF p.thrown THEN p.g ELSE [p.g EXCEPT !.roots = Append(@, p.node)]
     /\ memo' = p.memo
     /\ pc' = IF p.thrown THEN "failed" ELSE "transform"
     /\ passes' = PassList(features, config.keysToCapture)
     /\ UNCHANGED <<program, config, infos, error, undefined, run, tree, it>>

\* One pass of PassManager::run; an exception ends the process, and what the
\* language does not define may.
Pass(name, result) ==
  /\ pc = "transform" /\ passes # <<>> /\ Head(passes) = name
  /\ graph' = result.g
  /\ error' = result.error
  /\ undefined' = (undefined \/ result.undefined)
  /\ passes' = Tail(passes)
  /\ \/ /\ result.error # "" \/ result.undefined
        /\ pc' = "crashed"
     \/ /\ result.error = ""
        /\ pc' = IF Len(passes) = 1 THEN "generate" ELSE "transform"
  /\ UNCHANGED <<program, config, infos, memo, run, tree, it>>

removeTopLevelPointer == Pass("RemoveTopLevelPointer", RemoveTopLevelPointer(graph))
identifyContainers == Pass("IdentifyContainers", IdentifyContainers(graph, infos))
flattener == Pass("Flattener", Flattener(graph))
alignmentCalc == Pass("AlignmentCalc", AlignmentCalc(graph))
typeIdentifier == Pass("TypeIdentifier", TypeIdentifier(graph, infos, config.passThrough))
prune == Pass("Prune", Prune(graph))
addChildren ==
  Pass("AddChildren", AddChildren(graph, program.db, "ChaseRawPointers" \in features))
removeMembers == Pass("RemoveMembers", RemoveMembers(graph, config.membersToStub))
enforceCompatibility == Pass("EnforceCompatibility", EnforceCompatibility(graph, TypesToStub))
keyCapture == Pass("KeyCapture", KeyCapture(graph, config.keysToCapture))
addPadding == Pass("AddPadding", AddPadding(graph))
nameGen == Pass("NameGen", NameGen(graph))
topoSorter == Pass("TopoSorter", TopoSorter(graph, allInfos))

(***************************************************************************)
(* generate.  A container without a traversal function cannot be generated  *)
(* for TreeBuilderV2.  Without, the vtables of the children of a dynamic    *)
(* class are read from a vector that was cleared, which may end the process *)
(* or give ranges in which no vtable lies.                                  *)
(***************************************************************************)
generate ==
  LET used == {graph.nodes[n] : n \in ToSet(graph.finalTypes)}
      v2 == "TreeBuilderV2" \in features
      missing == v2 /\ \E x \in used :
                          x.kind = "Container" /\ ~InfoOf(allInfos, x).traversal
      cleared == ~v2 /\ "PolymorphicInheritance" \in features
                     /\ \E x \in used : IsDynamic(x) /\ x.children # <<>>
  IN /\ pc = "generate"
     /\ error' = IF missing THEN "missing codegen.traversal_func" ELSE ""
     /\ undefined' = (undefined \/ cleared)
     /\ \/ (missing \/ cleared) /\ pc' = "crashed"
        \/ ~missing /\ pc' = "compile"
     /\ UNCHANGED <<program, config, infos, graph, memo, passes, run, tree, it>>

compile ==
  /\ pc = "compile"
  /\ pc' = IF Compiles(graph, allInfos, features) THEN "introspect" ELSE "rejected"
  /\ UNCHANGED <<program, config, infos, graph, memo, passes, error, undefined, run, tree, it>>

introspect ==
  /\ pc = "introspect"
  /\ \E memory \in Memories : run' = Introspect(code, memory)
  /\ it' = Iterator(code)
  /\ pc' = IF "TreeBuilderV2" \in features THEN "iterate" ELSE "build"
  /\ UNCHANGED <<program, config, infos, graph, memo, passes, error, undefined, tree>>

build ==
  /\ pc = "build"
  /\ tree' = Build(code, run.out)
  /\ pc' = "done"
  /\ UNCHANGED <<program, config, infos, graph, memo, passes, error, undefined, run, it>>

\* The loop over the elements compares the iterator with end() after every step.
increment ==
  /\ pc = "iterate"
  /\ it' = Increment(code, it, run.out)
  /\ pc' = IF AtEnd(it', run.out) THEN "done" ELSE "iterate"
  /\ UNCHANGED <<program, config, infos, graph, memo, passes, error, undefined, run, tree>>

Next ==
  \/ registerContainers \/ addDrgnRoot
  \/ removeTopLevelPointer \/ identifyContainers \/ flattener \/ alignmentCalc
  \/ typeIdentifier \/ prune \/ addChildren \/ removeMembers \/ enforceCompatibility
  \/ keyCapture \/ addPadding \/ nameGen \/ topoSorter
  \/ generate \/ compile \/ introspect \/ build \/ increment

Final == {"done", "failed", "crashed", "rejected"}

(***************************************************************************)
(* Everything happens in one thread that nothing blocks: weak fairness of   *)
(* Next, with "no step changes anything" spelled out because TLC cannot     *)
(* find out for the recursive operators of Next in reasonable time.         *)
(***************************************************************************)
Halted == pc \in Final \/ (pc = "iterate" /\ it.stack = <<>> /\ it.next = <<>>)
Fairness == []<>Halted \/ []<><<Next>>_vars
Spec == Init /\ [][Next]_vars /\ Fairness

(***************************************************************************)
(* Properties.                                                              *)
(***************************************************************************)
Kinds == {"Primitive", "Class", "Container", "Enum", "Array", "Typedef", "Pointer", "Reference",
          "Dummy", "DummyAllocator", "CaptureKeys", "Incomplete"}

\* Every reference of a node is to a node of the graph, whatever pass ran last.
TypeOK ==
  /\ pc \in {"registerContainers", "addDrgnRoot", "transform", "generate", "compile",
             "introspect", "iterate", "build", "done", "failed", "crashed", "rejected"}
  /\ \A n \in DOMAIN graph.nodes :
        /\ graph.nodes[n].kind \in Kinds
        /\ ToSet(Edges(graph.nodes[n])) \subseteq DOMAIN graph.nodes
  /\ ToSet(graph.roots) \cup ToSet(graph.finalTypes) \subseteq DOMAIN graph.nodes
  /\ undefined \in BOOLEAN

\* The types a program derives from one of its types.
Derived(t) == {u \in DOMAIN program.db :
                 \E p \in ToSet(program.db[u].parents) : UnderlyingType(program.db, p.type) = t}

\* No pass throws, asserts or does what the language does not define, but for two
\* cases, both of polymorphic inheritance without PruneTypeGraph (which takes the
\* functions away that make a class dynamic): Flattener appends to the children it
\* iterates over, and there are some left to visit only if one of them that has
\* descendants has a sibling; and the first code generator looks up vtables it does
\* not have.  A hierarchy of two levels without siblings is flattened as it should.
PassesSucceed ==
  /\ error = "" /\ (pc = "crashed" => undefined)
  /\ undefined =>
       /\ "PolymorphicInheritance" \in features /\ "PruneTypeGraph" \notin features
       /\ \E t \in DOMAIN memo :
            /\ \E f \in ToSet(program.db[t].functions) : f.virtuality # 0
            /\ "TreeBuilderV2" \in features =>
                 \E u, v \in Derived(t) : u # v /\ Derived(u) # {}

RECURSIVE AllMembers(_, _)

(***************************************************************************)
(* Reference for the Flattener: the members of a class and of everything it *)
(* derives from, at their offsets in the class.                             *)
(***************************************************************************)
AllMembers(db, t) ==
  LET Own == {[name |-> m.name, at |-> m.bitOffset, bits |-> m.bitsize] :
                m \in ToSet(db[t].members)}
      Base(p) == UnderlyingType(db, p.type)
      IsInfo(u) == \E i \in ToSet(infos) : db[u].fqName \in i.matches
      Of(p) == CASE IsInfo(Base(p)) -> {[name |-> <<ParentPrefix>>, at |-> 0, bits |-> 0]}
                 [] ~IsInfo(Base(p)) /\ SizeComplete(db, Base(p)) -> AllMembers(db, Base(p))
                 [] OTHER -> {}
      Shifted(p) == {[m EXCEPT !.at = @ + p.bitOffset] : m \in Of(p)}
  IN Own \cup UNION {Shifted(p) : p \in ToSet(db[t].parents)}

\* Flattening keeps every member of a class and of its bases, at its offset.
MembersKept ==
  pc = "transform" /\ Head(passes) = "AlignmentCalc" =>
    \A t \in DOMAIN memo :
      LET x == graph.nodes[memo[t]]
          found == [i \in DOMAIN x.members |->
                      [name |-> x.members[i].name, at |-> x.members[i].bitOffset,
                       bits |-> x.members[i].bitsize]]
      IN x.kind = "Class" /\ memo[t] \in Reached(graph) =>
           /\ ToSet(found) = AllMembers(program.db, t)
           /\ Len(found) = Cardinality(ToSet(found))

Generated == pc \in {"generate", "compile"}
FinalNodes == ToSet(graph.finalTypes)

\* The generated text refers to types by name: a name is of one type, and the
\* names that contain other names contain the ones those types have now.
NamesIdentifyTypes ==
  LET named == {n \in FinalNodes : graph.nodes[n].kind \in {"Class", "Enum", "Typedef"}}
      Name(y) == y.name
  IN /\ \A m, n \in named : graph.nodes[m].name = graph.nodes[n].name => m = n
     /\ \A n \in FinalNodes :
          LET x == graph.nodes[n]
          IN CASE x.kind = "Container" /\ x.params # <<>> ->
                    x.name = ContainerName(graph, x.name, x.params, Name)
               [] x.kind \in {"Array", "Pointer", "Reference", "CaptureKeys"} ->
                    x.name = RegeneratedName(graph, x)
               [] OTHER -> TRUE

\* What TopoSorter and NameGen are for: every definition of the generated text
\* comes after the definitions it needs, and its names mean what they should.
DefinitionsInOrder ==
  Generated =>
    /\ NamesIdentifyTypes
    /\ pc = "compile" => \A i \in DOMAIN graph.finalTypes : DefinitionCompiles(graph, allInfos, i)

MembersTile(x) ==
  \A i \in 1..(Len(x.members) + 1) :
    (IF i > Len(x.members) THEN x.size * 8 ELSE x.members[i].bitOffset)
      = (IF i = 1 THEN 0 ELSE EndBits(graph, x.members[i - 1]))

\* The generated types have the layout of the types they stand for: after
\* AddPadding the members of a class follow each other without gap or overlap, and
\* the compiler puts them where the debug information says they are.
LayoutPreserved ==
  Generated =>
    \A n \in FinalNodes :
      LET x == graph.nodes[n] IN
      /\ x.kind = "Class" /\ ~x.union => MembersTile(x)
      /\ pc = "compile" => StaticAssertsHold(graph, allInfos, n)

\* Of what is read after something undefined nothing is said.
Finished == pc = "done" /\ ~undefined
Read == IF "TreeBuilderV2" \in features THEN it ELSE tree

\* The reader takes all that was written and asks for no more, and every object is
\* read from the words that were written about it.
ReadsWhatWasWritten ==
  Finished =>
    /\ IF "TreeBuilderV2" \in features THEN it.pos = Len(run.out) + 1 /\ it.stack = <<>>
       ELSE tree.thrown = "threshold" \/ (tree.thrown = "" /\ tree.index = Len(run.out) + 1)
    /\ tree.thrown = "" => Read.log = run.log

\* Types whose bytes are accounted for exactly: no bitfields, containers of known overhead.
Countable ==
  \A n \in Reached(graph) :
    /\ \A m \in ToSet(graph.nodes[n].members) : m.bitsize = 0
    /\ graph.nodes[n].kind = "Container" =>
         CType(allInfos, graph.nodes[n]) \in {"SEQ", "LIST", "UNIQ_PTR", "SHRD_PTR", "STD_MAP", "PAIR",
                                          "OPTIONAL"}

\* Every byte of the object and of what it owns is attributed once and only once.
BytesCountedOnce ==
  Finished /\ tree.thrown = "" /\ Countable =>
    (IF "TreeBuilderV2" \in features THEN it.total
     ELSE MapThenSumSet(LAMBDA id : tree.db[id].exclusive, DOMAIN tree.db))
      = Size(graph, graph.roots[1]) + run.heap

\* The result is a tree.  TreeBuilder: every id given to a child has a node, and
\* every node but the root one parent.  IntrospectionResult: the path of an element
\* is the path of open fields, so it is empty at the end.
ResultIsTree ==
  Finished =>
    IF "TreeBuilderV2" \in features THEN it.path = <<>> /\ it.dynamicPath = <<>>
    ELSE tree.thrown = "" =>
      /\ DOMAIN tree.db = 1..(tree.nextId - 1)
      /\ \A id \in DOMAIN tree.db \ {Root} :
           Cardinality({p \in DOMAIN tree.db :
                          LET range == tree.db[p].children
                          IN range # <<>> /\ range[1] <= id /\ id < range[2]}) = 1

\* Whatever the type and the object, the pipeline comes to an end.
Ends == <>(pc \in Final)
=============================================================================
