---------------------------- MODULE TreeBuilder ----------------------------
(***************************************************************************)
(* TreeBuilder.cpp: rebuilding the tree of an object from the words the     *)
(* generated code stored, along the TypeHierarchy that DrgnExporter.cpp     *)
(* makes of the type graph.  The hierarchy is keyed by node: what is        *)
(* exported for a node is a function of the node.                           *)
(*                                                                         *)
(* A tree under construction is a record: the data and the index into it,   *)
(* the next node id, the nodes written to the database, the node the last   *)
(* call returned, the exception thrown and, to compare with what the code   *)
(* visited, the words every object was read from.                           *)
(***************************************************************************)
EXTENDS CodeGen

CONSTANT ContainerSizeThreshold    \* CONTAINER_SIZE_THRESHOLD

(***************************************************************************)
(* DrgnExporter.                                                            *)
(***************************************************************************)
DrgnKind(x) ==
  CASE x.kind = "Class" -> IF x.union THEN "union" ELSE "class"
    [] x.kind = "Container" -> "class"
    [] x.kind = "Primitive" -> IF x.name \in {<<"StubbedPointer">>, <<"void">>} THEN "void" ELSE "int"
    [] x.kind \in {"Incomplete", "Dummy", "DummyAllocator"} -> "void"
    [] x.kind \in {"Pointer", "Reference"} -> "pointer"
    [] x.kind = "Array" -> "array"
    [] x.kind = "Enum" -> "enum"
    [] x.kind = "Typedef" -> "typedef"

SmartPointers == {"SHRD_PTR", "UNIQ_PTR", "WEAK_PTR"}

\* A smart pointer to void or to an incomplete type has no entry in containerTypeMap.
InContainerTypeMap(c, x) ==
  LET p == c.g.nodes[x.params[1].type]
  IN x.kind = "Container" /\ ~(/\ CType(c.infos, x) \in SmartPointers
                               /\ (p.kind = "Incomplete" \/ p.name = <<"void">>))

\* knownDummyTypeList.
KnownDummy(c, x) ==
  LET held == CASE x.kind = "Class" -> Types(DataMembers(x))
                [] x.kind = "Container" /\ InContainerTypeMap(c, x) -> ElementTypes(c.infos, x)
                [] OTHER -> <<>>
  IN \E n \in ToSet(held) : c.g.nodes[n].kind = "Incomplete"

\* thriftIssetStructTypes.
ThriftIssetStruct(c, x) ==
  \E m \in ToSet(DataMembers(x)) : CType(c.infos, c.g.nodes[m.type]) = "THRIFT_ISSET"

(***************************************************************************)
(* TreeBuilder.                                                             *)
(***************************************************************************)
\* build starts after four words that mean nothing; they are not in data.
Tree(data) ==
  [data |-> data, index |-> 1, nextId |-> 1, db |-> <<>>, node |-> <<>>, thrown |-> "",
   words |-> <<>>, log |-> <<>>]

TreeNode(c, n) ==
  [type |-> n, static |-> Size(c.g, n), dynamic |-> 0, exclusive |-> Size(c.g, n),
   length |-> 0, capacity |-> 0, children |-> <<>>]

Thrown(t, what) == [t EXCEPT !.thrown = what]

\* next: the word is the last of t.words; it is an error to read past the end.
NextWord(t) ==
  IF t.thrown # "" \/ t.index > Len(t.data) THEN
     [t EXCEPT !.thrown = IF @ = "" THEN "end of data" ELSE @, !.words = Append(@, 0)]
  ELSE [t EXCEPT !.index = @ + 1, !.words = Append(@, t.data[t.index])]

Words(t, count) == FoldLeft(LAMBDA u, i : NextWord(u), [t EXCEPT !.words = <<>>],
                            [i \in 1..count |-> i])

\* The words read for a node, in the order in which nodes are reached.
Noted(t, n) == [t EXCEPT !.log = Append(@, [node |-> n, words |-> t.words])]

SetSize(node, dynamic, memberSizes) ==
  [node EXCEPT !.dynamic = dynamic,
     !.exclusive = IF memberSizes > node.static + dynamic THEN 0
                   ELSE node.static + dynamic - memberSizes]

\* The node is stored and returned.
Put(t, id, node) ==
  IF t.thrown # "" THEN t ELSE [t EXCEPT !.db = (id :> node) @@ @, !.node = node]

\* isPrimitive: primitives, stubs and dummies, through typedefs.
IsPrimitive(c, n) ==
  c.g.nodes[StripTypedefs(c.g, n)].kind \in {"Primitive", "Incomplete", "Dummy", "DummyAllocator"}

RECURSIVE Process(_, _, _, _)

\* Children of the given types in the ids that follow, with the sum of their sizes.
\* The first ones have an isset value in front.
ProcessChildren(c, t, types, issets) ==
  LET first == t.nextId
      Child(acc, i) ==
        LET u == Process(c, IF i <= issets THEN Words(acc.t, 1) ELSE acc.t, first + i - 1, types[i])
        IN IF u.thrown # "" THEN [acc EXCEPT !.t = u]
           ELSE [t |-> u, dynamic |-> acc.dynamic + u.node.dynamic,
                 sizes |-> acc.sizes + u.node.dynamic + u.node.static]
  IN FoldLeft(Child, [t |-> [t EXCEPT !.nextId = @ + Len(types)], dynamic |-> 0, sizes |-> 0],
              [i \in DOMAIN types |-> i])

\* The node of the child that was just processed: a pointer, for which all of the
\* child is dynamic, or a typedef, an adapter, a variant, which contain it.
PutParent(t, id, node, onHeap) ==
  Put(t, id, SetSize(node, t.node.dynamic + (IF onHeap THEN t.node.static ELSE 0),
                     t.node.static + t.node.dynamic))

ProcessInner(c, t, id, node, inner, onHeap) ==
  PutParent(ProcessChildren(c, t, <<inner>>, 0).t, id,
            [node EXCEPT !.children = <<t.nextId, t.nextId + 1>>], onHeap)

\* Pointers to void store their address only, all others whether they were followed.
ProcessPointer(c, t, id, n, x) ==
  LET inner == x.to[1]
      u == Noted(Words(t, IF DrgnKind(c.g.nodes[inner]) = "void" THEN 1 ELSE 2), n)
      followed == DrgnKind(c.g.nodes[inner]) # "void" /\ u.words[2] # 0
  IN CASE "ChaseRawPointers" \notin c.features -> Put(t, id, TreeNode(c, n))
       [] "ChaseRawPointers" \in c.features /\ (u.thrown # "" \/ ~followed) ->
            Put(u, id, TreeNode(c, n))
       [] OTHER -> ProcessInner(c, u, id, TreeNode(c, n), inner, TRUE)

\* Mutant: the members are numbered with the padding between them.
ProcessClass_padding(c, t, id, n, x) ==
  LET members == Types(DataMembers(x))
      issets == IF ThriftIssetStruct(c, x) THEN Len(members) - 1 ELSE 0
      all == ProcessChildren(c, t, members, issets)
      node == [TreeNode(c, n) EXCEPT !.children = <<t.nextId, t.nextId + Len(x.members)>>]
  IN IF KnownDummy(c, x) \/ members = <<>> THEN Put(t, id, TreeNode(c, n))
     ELSE Put(all.t, id, SetSize(node, all.dynamic, all.sizes))

(***************************************************************************)
(* A class: its members, each after its isset value but for the last one,   *)
(* which is assumed to be __isset.  No descendants are exported, so no      *)
(* index is read.                                                           *)
(***************************************************************************)
ProcessClass(c, t, id, n, x) ==
  LET members == Types(DataMembers(x))
      issets == IF ThriftIssetStruct(c, x) THEN Len(members) - 1 ELSE 0
      all == ProcessChildren(c, t, members, issets)
      node == [TreeNode(c, n) EXCEPT !.children = <<t.nextId, t.nextId + Len(members)>>]
  IN CASE KnownDummy(c, x) \/ members = <<>> -> Put(t, id, TreeNode(c, n))
       [] ~KnownDummy(c, x) /\ members # <<>> ->
            Put(all.t, id, SetSize(node, all.dynamic, all.sizes))

\* The words that processContainer reads for each kind of container.
ReadHeader(ctype) ==
  CASE ctype \in {"OPTIONAL", "FOLLY_OPTIONAL", "STD_VARIANT"} -> <<"flag">>
    [] ctype \in {"SHRD_PTR", "UNIQ_PTR", "TRY", "REF_WRAPPER", "FOLLY_IOBUFQUEUE"} ->
         <<"pointer", "flag">>
    [] ctype \in {"SORTED_VEC_SET", "CONTAINER_ADAPTER"} -> <<"pointer">>
    [] ctype \in {"SEQ", "MICROLIST", "FEED_QUICK_HASH_SET", "FEED_QUICK_HASH_MAP", "FB_HASH_MAP",
                  "FB_HASH_SET", "MAP_SEQ", "FOLLY_SMALL_HEAP_VECTOR_MAP", "REPEATED_FIELD"} ->
         <<"pointer", "capacity", "length">>
    [] ctype = "LIST" -> <<"pointer", "length">>
    [] ctype \in {"FOLLY_IOBUF", "STRING"} -> <<"capacity", "length">>
    [] ctype = "FB_STRING" -> <<"pointer", "capacity", "length", "flag">>
    [] ctype = "CAFFE2_BLOB" -> <<"dynamic">>
    [] ctype \in {"ARRAY", "BOOST_BIMAP", "RADIX_TREE", "MULTI_SET", "MULTI_MAP", "BY_MULTI_QRT"} ->
         <<"length">>
    [] ctype = "SMALL_VEC" -> <<"inline", "capacity", "length">>
    [] ctype \in {"SET", "STD_MAP"} -> <<"node", "length">>
    [] ctype \in {"UNORDERED_SET", "UNORDERED_MULTISET", "STD_UNORDERED_MULTIMAP",
                  "STD_UNORDERED_MAP"} -> <<"node", "buckets", "length">>
    [] ctype \in {"F14_MAP", "F14_SET"} -> <<"dynamic", "capacity", "length">>
    [] ctype \in {"WEAK_PTR", "PAIR", "THRIFT_ISSET", "DUMMY"} -> <<>>

\* What a std::string of that size holds in itself: libc++ or libstdc++.
SsoCutOff(size) == IF size = 24 THEN 22 ELSE 15

\* Containers whose elements do not count as dynamic.
StoredInline(ctype, size, read, perElement) ==
  CASE ctype \in {"OPTIONAL", "FOLLY_OPTIONAL", "PAIR", "ARRAY", "F14_MAP", "F14_SET"} -> TRUE
    [] ctype = "FB_STRING" -> read["flag"] = 0
    [] ctype = "STRING" -> read["capacity"] <= SsoCutOff(size)
    [] ctype = "SMALL_VEC" ->
         read["capacity"] <= (IF read["inline"] = 0 THEN 0
                              ELSE Larger(WordSize \div perElement, read["inline"]))
    [] OTHER -> FALSE

(***************************************************************************)
(* processContainer after the words of kind ctype were read for elements of *)
(* the given types.                                                         *)
(***************************************************************************)
ProcessElements(c, t, id, n, ctype, elements, read) ==
  LET has == ToSet(ReadHeader(ctype))
      sizes == [i \in DOMAIN elements |-> Size(c.g, elements[i])]
      perElement == (IF ctype \in {"THRIFT_ISSET", "DUMMY"} THEN 0 ELSE Total(sizes))
                    + (IF "node" \in has THEN read["node"] ELSE 0)
      length == CASE ctype \in {"OPTIONAL", "FOLLY_OPTIONAL", "PAIR", "TRY", "REF_WRAPPER"} -> 1
                  [] ctype \in {"SHRD_PTR", "UNIQ_PTR"} -> IF read["pointer"] # 0 THEN 1 ELSE 0
                  [] "length" \in has -> read["length"]
                  [] OTHER -> 0
      capacity == CASE "capacity" \in has -> read["capacity"]
                    [] ctype \in {"SHRD_PTR", "UNIQ_PTR"} -> 1
                    [] OTHER -> length
      own == (IF "buckets" \in has THEN read["buckets"] * WordSize ELSE 0)
             + (IF "dynamic" \in has THEN read["dynamic"] ELSE 0)
             + (IF StoredInline(ctype, Size(c.g, n), read, perElement) THEN 0 ELSE perElement * capacity)
      node == [SetSize(TreeNode(c, n), own, 0) EXCEPT !.length = length, !.capacity = capacity]
      all == ProcessChildren(c, t, FlattenSeq([i \in 1..length |-> elements]), 0)
      withChildren ==
        [SetSize(node, own + all.dynamic, all.sizes)
           EXCEPT !.children = <<t.nextId, t.nextId + length * Len(elements)>>]
  IN CASE perElement * capacity >= ContainerSizeThreshold -> Thrown(t, "threshold")
       [] OTHER ->
            IF (\A e \in ToSet(elements) : IsPrimitive(c, e)) \/ length = 0
            THEN Put(t, id, node) ELSE Put(all.t, id, withChildren)

RECURSIVE ProcessContainer(_, _, _, _, _, _)

ProcessContainer(c, t0, id, n, ctype, elements) ==
  LET header == ReadHeader(ctype)
      t == Noted(Words(t0, Len(header)), n)
      read == [field \in ToSet(header) |->
                 t.words[CHOOSE i \in DOMAIN header : header[i] = field]]
      none == TreeNode(c, n)
      one == [none EXCEPT !.length = 1, !.capacity = 1]
      skipped == [one EXCEPT !.length = IF ctype \in {"TRY", "REF_WRAPPER"} THEN 1
                                        ELSE IF ctype \in SmartPointers /\ read["pointer"] # 0 THEN 1
                                        ELSE 0]
      adapter == ProcessInner(c, t, id, none, elements[1], FALSE)
      under == adapter.db[t.nextId]
  IN CASE t.thrown # "" -> t
       [] t.thrown = "" /\ ctype \in {"OPTIONAL", "FOLLY_OPTIONAL", "SHRD_PTR", "UNIQ_PTR", "TRY",
                                      "REF_WRAPPER"} /\ read["flag"] = 0 -> Put(t, id, skipped)
       [] t.thrown = "" /\ ctype = "FOLLY_IOBUFQUEUE" ->
            IF read["flag"] = 0 THEN Put(t, id, none)
            ELSE ProcessContainer(c, t, id, n, "FOLLY_IOBUF", elements)
       [] t.thrown = "" /\ ctype \in {"SORTED_VEC_SET", "CONTAINER_ADAPTER"} ->
            IF adapter.thrown # "" THEN adapter
            ELSE Put(adapter, id, [adapter.node EXCEPT !.length = under.length,
                                                       !.capacity = under.capacity])
       [] t.thrown = "" /\ ctype = "STD_VARIANT" ->
            IF read["flag"] < Len(elements)
            THEN ProcessInner(c, t, id, one, elements[read["flag"] + 1], FALSE)
            ELSE Put(t, id, one)
       [] t.thrown = "" /\ ctype = "CAFFE2_BLOB" ->
            Put(t, id, SetSize(none, read["dynamic"], 0))
       [] OTHER -> ProcessElements(c, t, id, n, ctype, elements, read)

\* standardIntegerRegex: typedefs that are shown as if they were primitive.
StandardIntegers == {<<"size_t">>, <<"int64_t">>, <<"uint32_t">>}

\* process: what is read for a variable depends on the kind that was exported.
Process(c, t, id, n) ==
  LET x == c.g.nodes[n]
      kind == DrgnKind(x)
  IN CASE t.thrown # "" -> t
       [] t.thrown = "" /\ kind = "pointer" -> ProcessPointer(c, t, id, n, x)
       [] t.thrown = "" /\ kind = "typedef" /\ x.input \in StandardIntegers ->
            Put(t, id, TreeNode(c, n))
       [] t.thrown = "" /\ kind = "typedef" /\ x.input \notin StandardIntegers ->
            ProcessInner(c, t, id, TreeNode(c, n), x.to[1], FALSE)
       [] t.thrown = "" /\ kind \in {"class", "array"} ->
            CASE KnownDummy(c, x) -> Put(t, id, TreeNode(c, n))
              [] ~KnownDummy(c, x) /\ kind = "array" ->
                   IF x.len = 0 THEN Thrown(t, "assert(numElems > 0)")
                   ELSE ProcessContainer(c, t, id, n, "ARRAY", x.to)
              [] ~KnownDummy(c, x) /\ InContainerTypeMap(c, x) ->
                   ProcessContainer(c, t, id, n, CType(c.infos, x), ElementTypes(c.infos, x))
              [] ~KnownDummy(c, x) /\ x.kind = "Class" -> ProcessClass(c, t, id, n, x)
              [] OTHER -> Put(t, id, TreeNode(c, n))
       [] OTHER -> Put(t, id, TreeNode(c, n))

Root == 1                \* the id the root of the tree is given

Build(c, data) ==
  LET t == Tree(data)
  IN Process(c, [t EXCEPT !.nextId = Root + 1], Root, c.g.roots[1])
=============================================================================
