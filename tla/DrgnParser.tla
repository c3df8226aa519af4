----------------------------- MODULE DrgnParser -----------------------------
(***************************************************************************)
(* DrgnParser.cpp: building a type graph from debug information.            *)
(*                                                                         *)
(* The debug information is a function db from drgn types to records; drgn  *)
(* itself is external and modelled by what the parser asks of it.  An       *)
(* element of a list whose look-up fails has bad = TRUE.  The parser p is a *)
(* record: the graph it adds to, drgn_types_ (memo), depth_, the node the   *)
(* last call returned, and whether a DrgnParserError is being thrown.       *)
(***************************************************************************)
EXTENDS TypeGraph

DrgnType(kind) ==
  [kind |-> kind, tag |-> <<>>, fqName |-> <<>>, size |-> 0, complete |-> TRUE,
   signed |-> TRUE, virtuality |-> 0, tparams |-> <<>>, parents |-> <<>>,
   members |-> <<>>, functions |-> <<>>, to |-> 0, len |-> 0]

ClassKinds == {"class", "struct", "union"}

RECURSIVE SizeComplete(_, _), PtrUnderlyingKind(_, _)

\* drgn_utils::isSizeComplete: drgn_type_sizeof succeeds.
SizeComplete(db, t) ==
  CASE db[t].kind = "typedef" -> SizeComplete(db, db[t].to)
    [] db[t].kind = "array" -> db[t].complete /\ SizeComplete(db, db[t].to)
    [] db[t].kind \in {"void", "function"} -> FALSE
    [] OTHER -> db[t].complete

\* getPtrUnderlyingType.
PtrUnderlyingKind(db, t) ==
  IF db[t].kind \in {"pointer", "typedef"} THEN PtrUnderlyingKind(db, db[t].to)
                                           ELSE db[t].kind

Parser(g, db, chaseRawPointers) ==
  [g |-> g, db |-> db, chase |-> chaseRawPointers, memo |-> <<>>, depth |-> 0,
   node |-> 0, thrown |-> FALSE]

Throw(p) == [p EXCEPT !.thrown = TRUE]

\* makeType: the node is added to the graph and remembered for its drgn type.
Make(p, t, node) ==
  LET g == MakeType(p.g, node)
  IN [p EXCEPT !.g = g, !.node = NewNode(g), !.memo = (t :> NewNode(g)) @@ @]

\* A primitive is a singleton of the graph, remembered all the same.
MakePrimitive(p, t, name) ==
  [p EXCEPT !.node = Primitive(name), !.memo = (t :> Primitive(name)) @@ @]

\* primitiveIntKind, primitiveFloatKind and enumeratePrimitive.
EnumeratePrimitive(p, t) ==
  LET d == p.db[t]
      named == {i \in DOMAIN Primitives :
                  Primitives[i].size = d.size /\
                  Primitives[i].name \in
                    CASE d.kind = "int" /\ d.signed ->
                           {"int8_t", "int16_t", "int32_t", "int64_t"}
                      [] d.kind = "int" ->
                           {"uint8_t", "uint16_t", "uint32_t", "uint64_t"}
                      [] d.kind = "float" -> {"float", "double", "long double"}
                      [] OTHER -> {d.kind}}
  IN CASE d.kind \in {"bool", "void"} -> MakePrimitive(p, t, d.kind)
       [] named = {} -> Throw(p)
       [] OTHER -> MakePrimitive(p, t, Primitives[CHOOSE i \in named : TRUE].name)

\* The enumerator names are only read for values of template parameters.
EnumerateEnum(p, t) ==
  IF ~SizeComplete(p.db, t) THEN Throw(p)
  ELSE Make(p, t, Enum(p.db[t].tag, p.db[t].fqName, p.db[t].size))

\* Mutant: in the order of the debug information.
ByOffset_asListed(refs) == refs

ByOffset(refs) == SortSeq(refs, LAMBDA a, b : a.bitOffset < b.bitOffset)

RECURSIVE EnumerateType(_, _), EnumerateList(_, _, _, _), AddElement(_, _, _, _, _)

(***************************************************************************)
(* The loops over template parameters, parents and members of the class at  *)
(* node c: the elements are added one by one, so that a cycle that comes    *)
(* back to the class meets it as far as it got, and an exception leaves it  *)
(* there.  Parents and members are sorted when all were added.  A value of  *)
(* a template parameter that cannot be written down is an error.            *)
(***************************************************************************)
EnumerateList(p, field, c, list) ==
  IF p.thrown THEN p
  ELSE IF list = <<>>
  THEN IF field = "params" THEN p
       ELSE [p EXCEPT !.g.nodes[c][field] = ByOffset(@)]
  ELSE IF Head(list).bad THEN EnumerateList(p, field, c, Tail(list))
  ELSE AddElement(EnumerateType(p, Head(list).type), field, c, Head(list), Tail(list))

\* Element e, whose type was enumerated, and the rest.
AddElement(q, field, c, e, rest) ==
  LET ref == CASE field = "params" -> TemplateParam(q.node, e.const, e.value)
               [] field = "parents" -> Parent(q.node, e.bitOffset)
               [] field = "members" -> Member(q.node, e.name, e.bitOffset, e.bitsize)
  IN CASE q.thrown -> q
       [] ~q.thrown /\ field = "params" /\ e.value = "unknown" -> Throw(q)
       [] OTHER ->
            EnumerateList([q EXCEPT !.g.nodes[c][field] = Append(@, ref)], field, c, rest)

EnumerateClass(p, t) ==
  LET d == p.db[t]
      made == Make(p, t, Class(d.tag, d.fqName, d.size, d.kind = "union", d.virtuality))
      c == made.node
      lists == <<[field |-> "params", list |-> d.tparams],
                 [field |-> "parents", list |-> d.parents],
                 [field |-> "members", list |-> d.members]>>
      Functions(done) ==
        IF done.thrown THEN done
        ELSE [done EXCEPT !.node = c, !.g.nodes[c].functions = d.functions]
  IN IF ~d.complete THEN Throw(p)
     ELSE Functions(FoldLeft(LAMBDA q, l : EnumerateList(q, l.field, c, l.list),
                             made, lists))

\* The target first, then the node that refers to it.
EnumerateOver(p, t, New(_)) ==
  LET q == EnumerateType(p, p.db[t].to)
      x == New(q.node)
  IN IF q.thrown THEN q
     ELSE Make(q, t, IF x.kind = "Typedef" THEN x
                     ELSE [x EXCEPT !.name = RegeneratedName(q.g, x)])

EnumerateTypedef(p, t) == EnumerateOver(p, t, LAMBDA to : Typedef(p.db[t].tag, to))
EnumerateArray(p, t) == EnumerateOver(p, t, LAMBDA to : Array(to, p.db[t].len))

\* A pointer is followed at the top level or when chasePointer says so.
EnumeratePointer(p, t) ==
  IF (p.depth # 1 /\ ~p.chase) \/ PtrUnderlyingKind(p.db, t) = "function"
  THEN MakePrimitive(p, t, "StubbedPointer")
  ELSE EnumerateOver(p, t, Pointer)

EnumerateKind(p, t) ==
  LET kind == p.db[t].kind
  IN CASE kind \in ClassKinds -> EnumerateClass(p, t)
       [] kind = "enum" -> EnumerateEnum(p, t)
       [] kind = "typedef" -> EnumerateTypedef(p, t)
       [] kind = "pointer" -> EnumeratePointer(p, t)
       [] kind = "array" -> EnumerateArray(p, t)
       [] kind \in {"int", "bool", "float", "void"} -> EnumeratePrimitive(p, t)
       [] OTHER -> Throw(p)

(***************************************************************************)
(* enumerateType: a type met before is returned as it was remembered.  A    *)
(* type without a size becomes an Incomplete node around what could be      *)
(* enumerated; that node is not remembered, what it wraps is.               *)
(***************************************************************************)
EnumerateType(p, t) ==
  IF t \in DOMAIN p.memo THEN [p EXCEPT !.node = p.memo[t]]
  ELSE LET incomplete == ~SizeComplete(p.db, t) /\ p.db[t].kind # "void"
           q == EnumerateKind([p EXCEPT !.depth = @ + 1], t)
           r == [q EXCEPT !.depth = p.depth]
           g == MakeType(r.g, Incomplete(IF q.thrown THEN p.db[t].tag
                                         ELSE r.g.nodes[r.node].input))
       IN IF incomplete THEN [r EXCEPT !.g = g, !.node = NewNode(g), !.thrown = FALSE]
                        ELSE r

Parse(p, root) == EnumerateType([p EXCEPT !.depth = 0], root)
=============================================================================
