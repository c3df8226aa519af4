-------------------------- MODULE MCIntrospection --------------------------
(***************************************************************************)
(* A small world of C++ types for Introspection: the layouts are those a    *)
(* compiler gives them.                                                     *)
(***************************************************************************)
EXTENDS Introspection

TypeNames == <<"char", "int", "long", "void", "Fwd", "Leaf", "Base", "Node", "NodePtr", "LeafPtr",
               "FwdPtr", "VoidPtr", "LeafT", "LeafArray", "Colour", "Either", "Function",
               "FunctionPtr", "Alloc", "Less", "VecLeaf", "VecInt", "UniqNode", "UniqFwd", "Map",
               "Pair", "Opt", "Opaque", "OpaquePtr", "Isset", "Holder", "Dyn", "Derived", "DynPtr",
               "VecNode", "LeafTPtr", "VoidT", "VoidTPtr",
               "ConstVoidTPtr", "Grand", "Mid", "Bottom", "BottomPtr", "size_t", "Deeper",
               "Wide", "First", "Second", "Third">>
T(name) == CHOOSE i \in DOMAIN TypeNames : TypeNames[i] = name

M(type, name, bitOffset, bits) ==
  [type |-> T(type), name |-> <<name>>, bitOffset |-> bitOffset, bitsize |-> bits, bad |-> FALSE]
Up(type, bitOffset) == [type |-> T(type), bitOffset |-> bitOffset, bad |-> FALSE]
Arg(type) == [type |-> T(type), const |-> FALSE, value |-> "", bad |-> FALSE]
Fn(name, virtuality) == [name |-> name, virtuality |-> virtuality]

Basic(kind, size) == [DrgnType(kind) EXCEPT !.size = size, !.tag = <<kind>>, !.fqName = <<kind>>]
Named(kind, name, size) ==
  [DrgnType(kind) EXCEPT !.tag = <<name>>, !.fqName = <<name>>, !.size = size]
Ptr(to) == [DrgnType("pointer") EXCEPT !.size = WordSize, !.to = T(to)]
Alias(name, to) == [DrgnType("typedef") EXCEPT !.tag = <<name>>, !.fqName = <<name>>, !.to = T(to)]
Template(name, size, args) ==
  [Named("class", name, size) EXCEPT !.tag = <<name, "<", "...", ">">>,
     !.tparams = [i \in DOMAIN args |-> Arg(args[i])]]

\* Ways to lay out the two or three members of Leaf: [size, align, members].
LeafLayouts ==
  [padded |-> [size |-> 8, align |-> 4, members |-> <<M("int", "a", 0, 0), M("char", "b", 32, 0)>>],
   holed  |-> [size |-> 8, align |-> 4, members |-> <<M("char", "a", 0, 0), M("int", "b", 32, 0)>>],
   packed |-> [size |-> 5, align |-> 1, members |-> <<M("char", "a", 0, 0), M("int", "b", 8, 0)>>],
   bits   |-> [size |-> 4, align |-> 4, members |-> <<M("int", "a", 0, 3), M("int", "b", 3, 7),
                                                      M("char", "c", 16, 0)>>],
   bytes  |-> [size |-> 16, align |-> 8,
               members |-> <<M("long", "a", 0, 3), M("char", "b", 3, 2), M("char", "c", 8, 1),
                             M("long", "d", 64, 24), M("char", "e", 96, 0)>>],
   empty  |-> [size |-> 1, align |-> 1, members |-> <<>>]]

\* An empty base class takes no room.
SizeAsParent(leaf) == IF leaf.members = <<>> THEN 0 ELSE leaf.size

World(leaf) ==
  LET pairAt == RoundUp(1, leaf.align)
      baseAt == RoundUp(SizeAsParent(leaf), 4)
      Def(name) ==
        CASE name = "char" -> Basic("int", 1)
          [] name = "int" -> Basic("int", 4)
          [] name = "long" -> Basic("int", 8)
          [] name \in {"void"} -> Basic("void", 0)
          [] name = "Function" -> DrgnType("function")
          [] name = "Fwd" -> [Named("struct", "Fwd", 0) EXCEPT !.complete = FALSE]
          [] name = "Leaf" -> [Named("struct", "Leaf", leaf.size) EXCEPT !.members = leaf.members]
          [] name = "Base" ->
               [Named("struct", "Base", RoundUp(baseAt + 4, Larger(4, leaf.align))) EXCEPT
                  !.parents = <<Up("Leaf", 0)>>, !.members = <<M("int", "x", 8 * baseAt, 0)>>]
          [] name = "NodePtr" -> Ptr("Node")
          [] name = "LeafPtr" -> Ptr("Leaf")
          [] name = "LeafTPtr" -> Ptr("LeafT")
          [] name = "FwdPtr" -> Ptr("Fwd")
          [] name = "VoidPtr" -> Ptr("void")
          [] name = "FunctionPtr" -> Ptr("Function")
          [] name = "OpaquePtr" -> Ptr("Opaque")
          [] name = "DynPtr" -> Ptr("Dyn")
          [] name \in {"VoidTPtr", "ConstVoidTPtr"} -> Ptr("VoidT")
          [] name = "size_t" -> Alias("size_t", "long")
          [] name = "LeafT" -> Alias("LeafT", "Leaf")
          [] name = "Opaque" -> Alias("Opaque", "Fwd")
          [] name = "VoidT" -> Alias("VoidT", "void")
          [] name = "LeafArray" ->
               [DrgnType("array") EXCEPT !.size = 2 * leaf.size, !.to = T("Leaf"), !.len = 2]
          [] name = "Colour" -> [Named("enum", "Colour", 4) EXCEPT !.tag = <<"Kind">>]
          [] name = "Either" -> [Named("union", "Either", 8) EXCEPT !.tag = <<"Kind">>,
                                   !.members = <<M("int", "i", 0, 0), M("long", "l", 0, 0)>>]
          [] name = "Alloc" -> [Template("Alloc", 1, <<"Leaf">>) EXCEPT
                                  !.functions = <<Fn("allocate", 0)>>]
          [] name = "Less" -> Named("struct", "Less", 1)
          [] name = "VecLeaf" -> Template("VecLeaf", 24, <<"Leaf", "Alloc">>)
          [] name = "VecInt" -> Template("VecInt", 24, <<"int", "Alloc">>)
          [] name = "VecNode" -> Template("VecNode", 24, <<"Node", "Alloc">>)
          [] name = "UniqNode" -> Template("UniqNode", 8, <<"Node", "Less">>)
          [] name = "UniqFwd" -> Template("UniqFwd", 8, <<"Fwd", "Less">>)
          [] name = "Map" -> Template("Map", 48, <<"int", "Leaf", "Less", "Alloc">>)
          [] name = "Pair" ->
               Template("Pair", RoundUp(pairAt + leaf.size, leaf.align), <<"char", "Leaf">>)
          [] name = "Opt" -> Template("Opt", RoundUp(leaf.size + 1, leaf.align), <<"Leaf">>)
          [] name = "Isset" -> [Named("struct", "Isset", 1) EXCEPT
                                  !.members = <<M("char", "flags", 0, 0)>>]
          [] name = "Holder" -> Template("Holder", 32, <<"Leaf", "LeafPtr", "Alloc">>)
          [] name = "Dyn" -> [Named("class", "Dyn", 16) EXCEPT
                                !.functions = <<Fn("f", 1)>>, !.members = <<M("long", "d", 64, 0)>>]
          [] name = "Derived" -> [Named("class", "Derived", 40) EXCEPT
                                    !.functions = <<Fn("f", 1)>>, !.parents = <<Up("Dyn", 0)>>,
                                    !.members = <<M("VecLeaf", "v", 128, 0)>>]
          [] name = "Wide" -> [Named("class", "Wide", 8) EXCEPT !.functions = <<Fn("f", 1)>>]
          [] name \in {"Deeper", "First", "Second", "Third"} ->
               LET base == CASE name = "Deeper" -> "Derived" [] name = "Third" -> "First"
                             [] OTHER -> "Wide"
                   at == CASE name = "Deeper" -> 40 [] name = "Third" -> 16 [] OTHER -> 8
               IN [Named("class", name, at + 8) EXCEPT
                     !.functions = <<Fn("f", 1)>>, !.parents = <<Up(base, 0)>>,
                     !.members = <<M("long", name, 8 * at, 0)>>]
          [] name = "Grand" -> [Named("struct", "Grand", 8) EXCEPT
                                  !.members = <<M("BottomPtr", "first", 0, 0)>>]
          [] name = "Mid" -> [Named("struct", "Mid", 16) EXCEPT
                                !.parents = <<Up("Grand", 0)>>, !.members = <<M("long", "m", 64, 0)>>]
          [] name = "Bottom" -> [Named("struct", "Bottom", 24) EXCEPT
                                   !.parents = <<Up("Mid", 0)>>,
                                   !.members = <<M("long", "b", 128, 0)>>]
          [] name = "BottomPtr" -> Ptr("Bottom")
          [] name = "Node" -> Named("struct", "Node", 0)
  IN [i \in DOMAIN TypeNames |-> Def(TypeNames[i])]

\* The alignment the compiler gives a type of the world.
NaturalAlign(leaf, name) ==
  CASE name \in {"char", "Isset"} -> 1
    [] name \in {"int", "Colour"} -> 4
    [] name = "Base" -> Larger(4, leaf.align)
    [] name \in {"Leaf", "LeafT", "LeafArray", "Pair", "Opt"} -> leaf.align
    [] OTHER -> 8

\* Node with the given parents and members, laid out one after the other.  The
\* parents are not listed in that order: a dynamic base goes first.
Laid(world, leaf, parents, names) ==
  LET n == Len(parents)
      all == parents \o names
      SizeIn(i) == CASE all[i] \in {"Leaf", "LeafT"} /\ i <= n -> SizeAsParent(leaf)
                     [] all[i] = "LeafT" /\ i > n -> leaf.size
                     [] all[i] = "size_t" -> 8
                     [] OTHER -> world[T(all[i])].size
      Place(acc, i) ==
        LET at == RoundUp(acc.end, NaturalAlign(leaf, all[i]))
        IN [end |-> at + SizeIn(i), align |-> Larger(acc.align, NaturalAlign(leaf, all[i])),
            offsets |-> Append(acc.offsets, 8 * at)]
      laid == FoldLeft(Place, [end |-> 0, align |-> 1, offsets |-> <<>>], [i \in DOMAIN all |-> i])
  IN [world EXCEPT ![T("Node")] =
        [@ EXCEPT !.size = RoundUp(Larger(1, laid.end), laid.align),
                  !.parents = Reverse([i \in 1..n |-> Up(parents[i], laid.offsets[i])]),
                  !.members = [i \in DOMAIN names |->
                                 M(names[i], names[i], laid.offsets[n + i], 0)]]]

Program(layout, parents, members, root) ==
  [db |-> Laid(World(LeafLayouts[layout]), LeafLayouts[layout], parents, members), root |-> T(root)]

Info(name, matches, ctype, stub, nparams) ==
  [typeName |-> name, matches |-> {<<m>> : m \in matches}, ctype |-> ctype, stub |-> stub,
   align |-> WordSize, required |-> {}, nparams |-> nparams, underlying |-> 0, traversal |-> TRUE]

StdContainers ==
  << Info("vector", {"VecLeaf", "VecInt", "VecNode"}, "SEQ", {1}, 1),
     Info("unique_ptr", {"UniqNode", "UniqFwd"}, "UNIQ_PTR", {1}, 1),
     Info("map", {"Map"}, "STD_MAP", {2, 3}, 2),
     Info("pair", {"Pair"}, "PAIR", {}, 2),
     Info("optional", {"Opt"}, "OPTIONAL", {}, 1),
     [Info("isset", {"Isset"}, "THRIFT_ISSET", {}, 0) EXCEPT
        !.required = {"CaptureThriftIsset"}, !.align = 1] >>

Config(on) ==
  [features |-> on \cup {"TypeGraph"}, containers |-> StdContainers, membersToStub |-> {},
   keysToCapture |-> <<>>, passThrough |-> <<>>, badContainer |-> FALSE]

Default == Config({"PruneTypeGraph"})
Chasing == Config({"PruneTypeGraph", "ChaseRawPointers"})
Version2 == Config({"PruneTypeGraph", "TreeBuilderV2", "ChaseRawPointers"})

Members == {"char", "long", "Leaf", "Base", "NodePtr", "LeafPtr", "FwdPtr", "VoidPtr", "LeafT",
            "LeafArray", "Colour", "Either", "FunctionPtr", "VecLeaf", "VecInt", "UniqNode",
            "UniqFwd", "Map", "Pair", "Opt", "OpaquePtr", "Isset", "VecNode", "LeafTPtr", "size_t"}


Asked(programs, configs) == {[program |-> p, config |-> c] : p \in programs, c \in configs}

Layouts == {"padded", "holed", "packed", "bits", "bytes", "empty"}
Pointing == {"NodePtr", "LeafPtr", "FwdPtr", "VoidPtr", "UniqNode", "VecNode", "Opt", "VecLeaf"}

\* One member of every type, Leaf laid out in every way.
EveryMember ==
  Asked({Program(l, <<>>, <<m, "char">>, "Node") : l \in Layouts, m \in Members},
        {Chasing, Version2})

Inherited ==
  Asked({Program(l, ps, ms, "Node") :
           l \in Layouts, ps \in {<<"Leaf">>, <<"Base">>, <<"VecInt">>, <<"Leaf", "VecInt">>, <<"LeafT", "Opt">>,
                                <<"VecInt", "Base">>},
           ms \in {<<"LeafPtr">>, <<"Pair", "NodePtr">>}},
        {Default, Chasing, Version2})

\* Two ways to the same objects, and types that contain themselves.
Shared ==
  Asked({Program("padded", <<>>, <<m, n>>, "Node") : m \in Pointing, n \in Pointing},
        {Chasing, Version2})

Roots ==
  Asked({Program("holed", <<>>, <<"LeafPtr", "int">>, r) :
           r \in {"NodePtr", "VecNode", "LeafT", "LeafArray", "Map", "Pair", "Opt", "UniqNode", "Colour"}},
        {Default, Version2})

\* What the configuration can change.
Polymorphic == Config({"PolymorphicInheritance", "ChaseRawPointers", "TreeBuilderV2"})
Ignoring == [Chasing EXCEPT !.membersToStub = {[type |-> <<"Leaf">>, member |-> <<"b">>],
                                               [type |-> <<"Base">>, member |-> <<"*">>]}]
Keys == [Version2 EXCEPT !.keysToCapture = <<[topLevel |-> FALSE, type |-> <<"Node">>, member |-> <<"Map">>]>>]
RootKeys == [Version2 EXCEPT !.keysToCapture = <<[topLevel |-> TRUE]>>]
Through == [Default EXCEPT !.passThrough = <<[Info("allocator", {"Alloc"}, "DUMMY", {}, 1) EXCEPT !.align = 1]>>]
Broken == [Default EXCEPT !.badContainer = TRUE]

\* Dynamic hierarchies of two levels, without siblings and with.
Configured ==
  Asked({Program("padded", <<>>, ms, "Node") : ms \in {<<"DynPtr", "Derived">>, <<"Dyn">>, <<"Wide">>}},
        {Polymorphic, Config({"PolymorphicInheritance", "ChaseRawPointers"}),
         Config({"PruneTypeGraph", "PolymorphicInheritance", "ChaseRawPointers"})})
  \cup Asked({Program("holed", ps, <<"Leaf", "LeafArray">>, "Node") : ps \in {<<>>, <<"Base">>}}, {Ignoring})
  \cup Asked({Program("padded", <<>>, <<"Map", "VecLeaf">>, "Node")}, {Keys, Through, Broken})
  \cup Asked({Program("padded", <<>>, <<"Map">>, "Map")}, {RootKeys})
  \cup Asked({Program("padded", <<>>, <<"Colour", "Either">>, "Node")}, {Default})

\* A Thrift struct: the isset bits are its last member.
Thrift(v) == Config(v \cup {"PruneTypeGraph", "CaptureThriftIsset", "ChaseRawPointers"})
Isset ==
  Asked({Program("padded", <<>>, <<m, "LeafPtr", "Isset">>, "Node") : m \in {"int", "VecLeaf", "Opt"}},
        {Thrift({}), Thrift({"TreeBuilderV2"})})

\* A container of every type TreeBuilder knows (version 1 only).
HolderTypes == {"SEQ", "LIST", "STRING", "FB_STRING", "ARRAY", "SMALL_VEC", "SET", "UNORDERED_SET",
                "STD_UNORDERED_MAP", "F14_MAP", "CAFFE2_BLOB", "WEAK_PTR", "TRY", "FOLLY_IOBUFQUEUE", "SHRD_PTR",
                "REF_WRAPPER", "FOLLY_OPTIONAL", "CONTAINER_ADAPTER", "STD_VARIANT", "MAP_SEQ", "BOOST_BIMAP", "FOLLY_IOBUF"}
Holding(ctype) ==
  LET info == Info("holder", {"Holder"}, ctype, {2}, IF ctype \in {"STD_UNORDERED_MAP", "F14_MAP", "STD_VARIANT", "MAP_SEQ", "BOOST_BIMAP"} THEN 2 ELSE 1)
  IN [Chasing EXCEPT !.containers = @ \o <<[info EXCEPT !.underlying = IF ctype = "CONTAINER_ADAPTER" THEN 1 ELSE 0]>>]
Holders ==
  Asked({Program("padded", <<>>, <<"Holder", "LeafPtr">>, "Node")}, {Holding(t) : t \in HolderTypes})

\* A base class that points to what derives from it, met from the class between.
CyclicInputs == Asked({Program("padded", <<>>, <<"int">>, "Mid")}, {Chasing})

MCInputs == EveryMember \cup Inherited \cup Shared \cup Roots \cup Configured \cup Isset \cup Holders
MCMemories == {<<>>, <<2, 1, 1, 1, 2, 2>>, <<4, 1, 2>>} \cup [1..3 -> 0..2]
=============================================================================
