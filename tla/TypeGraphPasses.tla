-------------------------- MODULE TypeGraphPasses --------------------------
(***************************************************************************)
(* The passes over the type graph (oi/type_graph/*.cpp), one operator per   *)
(* pass, from a graph to the PassState it ends in (its error is "" unless   *)
(* an exception escapes or an assertion fails, undefined is TRUE once it    *)
(* did something the language does not define).                             *)
(*                                                                         *)
(* A ContainerInfo is a record [typeName, matches, ctype, stub, align]: the *)
(* names its regular expression finds, the indices (from 0) of the template *)
(* parameters to stub and the alignment its header gives it.                *)
(***************************************************************************)
EXTENDS DrgnParser

ParentPrefix == "__oi_parent"
PaddingPrefix == "__oi_padding"
AnonPrefix == "__oi_anon"

StartsWith(name, prefix) == name # <<>> /\ Head(name) = prefix
IsClass(g, n) == g.nodes[n].kind = "Class"
IsContainer(g, n) == g.nodes[n].kind = "Container"
Fail(s, what) == [s EXCEPT !.error = IF @ = "" THEN what ELSE @]

(***************************************************************************)
(* RemoveTopLevelPointer: one level of a pointer or reference root.         *)
(***************************************************************************)
RemoveTopLevelPointer(g) ==
  PassState([g EXCEPT !.roots =
    [i \in DOMAIN @ |-> IF g.nodes[@[i]].kind \in {"Pointer", "Reference"}
                        THEN g.nodes[@[i]].to[1] ELSE @[i]]])

(***************************************************************************)
(* IdentifyContainers.  The mutator's result for a class is known as soon   *)
(* as it is met (a Container around it, or itself), so a cycle that comes   *)
(* back to it is redirected too.  Of a Container only the parameters are    *)
(* mutated: its class stays as parsed.                                      *)
(***************************************************************************)
MatchingContainer(infos, x) ==
  LET found == {i \in DOMAIN infos : x.input \in infos[i].matches}
  IN IF x.kind # "Class" \/ found = {} THEN <<>>
     ELSE <<infos[CHOOSE i \in found : \A j \in found : i <= j]>>

MakeContainer(g, info, c) ==
  MakeType(g, Container(info, g.nodes[c].size, c, g.nodes[c].params))

IdentifyContainers(g, infos) ==
  LET Mutated(s, n) == IF n \in DOMAIN s.dummies THEN s.dummies[n] ELSE n
      Pre(s, n) ==
        LET info == MatchingContainer(infos, s.g.nodes[n])
            made == MakeContainer(s.g, info[1], n)
        IN IF info = <<>> THEN s
           ELSE [s EXCEPT !.g = made, !.dummies = (n :> NewNode(made)) @@ @]
      First(s, n) ==
        LET x == s.g.nodes[n]
        IN CASE n \in DOMAIN s.dummies -> Accept(Types(x.params))
             [] x.kind = "Container" -> Accept(Types(x.params))
             [] OTHER -> Accept(Edges(x))
      Retarget(s, refs) ==
        [i \in DOMAIN refs |-> [refs[i] EXCEPT !.type = Mutated(s, @)]]
      Post(s, n) ==
        LET at == Mutated(s, n)
            x == s.g.nodes[at]
            t == SetNode(s, at,
                   [x EXCEPT !.params = Retarget(s, @), !.parents = Retarget(s, @),
                             !.members = Retarget(s, @),
                             !.children = [i \in DOMAIN @ |-> Mutated(s, @[i])],
                             !.to = IF x.kind = "Container" THEN @
                                    ELSE [i \in DOMAIN @ |-> Mutated(s, @[i])]])
        IN \* dynamic_cast<Class&> of a child that became a container
           IF \E i \in DOMAIN x.children : x.children[i] \in DOMAIN s.dummies
           THEN Fail(t, "bad_cast") ELSE t
      end == Walk(PassState(g), g.roots, FALSE, Pre, First, Post, NoCalls, Keep)
  IN [end EXCEPT !.g.roots = [i \in DOMAIN @ |-> Mutated(end, @[i])]]

(***************************************************************************)
(* Flattener: the members of the parents are pulled into every class, in    *)
(* the order of their offsets.                                              *)
(***************************************************************************)
IsAllocator(x) ==
  x.kind = "Class" /\ \E f \in ToSet(x.functions) : f.name = "allocate"

\* Mutant: the offset of the parent is not added.
FlattenParent_unshifted(g, parent) ==
  LET n == StripTypedefs(g, parent.type)
      x == g.nodes[n]
  IN CASE x.kind = "Class" -> x.members
       [] x.kind = "Container" -> <<Member(n, <<ParentPrefix>>, parent.bitOffset, 0)>>
       [] OTHER -> <<>>

FlattenParent(g, parent) ==
  LET n == StripTypedefs(g, parent.type)
      x == g.nodes[n]
  IN CASE x.kind = "Class" ->
            [i \in DOMAIN x.members |->
               [x.members[i] EXCEPT
                  !.bitOffset = @ + parent.bitOffset,
                  !.align = IF i = 1 /\ x.align > @ THEN x.align ELSE @]]
       [] x.kind = "Container" -> <<Member(n, <<ParentPrefix>>, parent.bitOffset, 0)>>
       [] OTHER -> <<>>

RECURSIVE MergeMembers(_, _, _)

\* The three loops that merge members and parents by offset.
MergeMembers(g, members, parents) ==
  CASE members # <<>> /\ (parents = <<>>
            \/ Head(members).bitOffset < Head(parents).bitOffset) ->
         <<Head(members)>> \o MergeMembers(g, Tail(members), parents)
    [] parents # <<>> /\ (members = <<>>
            \/ Head(members).bitOffset >= Head(parents).bitOffset) ->
         FlattenParent(g, Head(parents)) \o MergeMembers(g, members, Tail(parents))
    [] OTHER -> <<>>

\* fixAllocatorParams: the parameter missing from bad debug information.
FixAllocatorParams(g, x) ==
  LET base == g.nodes[StripTypedefs(g, x.parents[1].type)]
  IN IF /\ IsAllocator(x) /\ x.params = <<>> /\ x.parents # <<>>
        /\ base.kind = "Class" /\ base.params # <<>> /\ base.params[1].value = ""
     THEN <<TemplateParam(StripTypedefs(g, base.params[1].type), FALSE, "")>>
     ELSE x.params

Flattened(g, x) ==
  LET parentClasses == SelectSeq([i \in DOMAIN x.parents |->
                                    StripTypedefs(g, x.parents[i].type)],
                                 LAMBDA n : IsClass(g, n))
      inherited == FlattenSeq([i \in DOMAIN parentClasses |->
                                 g.nodes[parentClasses[i]].functions])
      y == [x EXCEPT !.functions = @ \o inherited]
  IN [y EXCEPT !.members = MergeMembers(g, x.members, x.parents),
               !.params = FixAllocatorParams(g, y), !.parents = <<>>]

Flattener(g) ==
  LET First(s, n) == LET x == s.g.nodes[n] IN
        IF x.kind = "Class"
        THEN Accept(Types(x.params) \o Types(x.parents) \o Types(x.members))
        ELSE Accept(Edges(x))
      Post(s, n) ==
        IF ~IsClass(s.g, n) THEN s
        ELSE LET x == s.g.nodes[n]
                 t == SetNode(s, n, Flattened(s.g, x))
                 kinds == {s.g.nodes[StripTypedefs(s.g, p.type)].kind : p \in ToSet(x.parents)}
             IN IF kinds \subseteq {"Class", "Container", "Incomplete"} THEN t
                ELSE Fail(t, "Invalid type for parent")
      Late(s, n) == Accept(s.g.nodes[n].children)
      \* The vector of children is appended to while it is iterated over, up to
      \* where it ended before.  It moves when it grows: children that are left
      \* then are read from where it was (the result here is as if they were there
      \* still, and Introspection may end the process instead).
      End(s, n) ==
        LET x == s.g.nodes[n]
            more == [i \in DOMAIN x.children |-> s.g.nodes[x.children[i]].children]
            t == SetNode(s, n, [x EXCEPT !.children = @ \o FlattenSeq(more)])
        IN [t EXCEPT !.undefined = @ \/ \E i \in 1 .. Len(more) - 1 : more[i] # <<>>]
  IN Walk(PassState(g), g.roots, TRUE, Keep, First, Post, Late, End)

(***************************************************************************)
(* AlignmentCalc: a class' alignment from its members', and whether it is   *)
(* packed.  A class or container that is still being visited has alignment  *)
(* 0 for those who ask.                                                     *)
(***************************************************************************)
Larger(a, b) == IF a > b THEN a ELSE b

\* Mutant: no class is packed.
AlignClass_natural(g, x) ==
  LET members == [i \in DOMAIN x.members |->
                    [x.members[i] EXCEPT !.align = IF @ = 0 THEN Align(g, x.members[i].type)
                                                            ELSE @]]
  IN IF x.align # 0 THEN x
     ELSE [x EXCEPT !.members = members,
                    !.align = FoldLeft(LAMBDA a, m : Larger(a, m.align), 1, members)]

AlignClass(g, x) ==
  LET members == [i \in DOMAIN x.members |->
                    [x.members[i] EXCEPT !.align = IF @ = 0 THEN Align(g, x.members[i].type)
                                                            ELSE @]]
      align == FoldLeft(LAMBDA a, m : Larger(a, m.align), 1, members)
      aligned == \A m \in ToSet(members) :
                   m.align = 0 \/ (m.bitOffset \div 8) % m.align = 0
      y == IF x.align # 0 THEN x
           ELSE [x EXCEPT !.members = members, !.align = align, !.packed = @ \/ ~aligned]
  IN [y EXCEPT !.packed = @ \/ y.align = 1 \/ y.size % y.align # 0]

AlignmentCalc(g) ==
  LET Post(s, n) ==
        LET x == s.g.nodes[n]
        IN CASE x.kind = "Class" -> SetNode(s, n, AlignClass(s.g, x))
             [] x.kind = "Container" /\ x.to # <<>> ->
                  SetNode(s, n, [x EXCEPT !.align = s.g.nodes[x.to[1]].align])
             [] OTHER -> s
  IN Walk(PassState(g), g.roots, FALSE, Keep, AllEdges, Post, NoCalls, Keep)

(***************************************************************************)
(* TypeIdentifier: template parameters of containers that are replaced by   *)
(* dummies of the same size (a reported size of 1 stands for 0) and by      *)
(* containers for the types that are passed through.                        *)
(***************************************************************************)
StubSize(g, n) == IF Size(g, n) = 1 THEN 0 ELSE Size(g, n)

IdentifyParam(s, c, i, infos, passThrough) ==
  LET n == s.g.nodes[c].params[i].type
      x == s.g.nodes[n]
      Replace(t, m) == [t EXCEPT !.g.nodes[c].params[i] = TemplateParam(m, FALSE, "")]
      ReplaceNew(t, g) == Replace([t EXCEPT !.g = g], NewNode(g))
      pass == MatchingContainer(passThrough, x)
      stub == (i - 1) \in UNION {info.stub : info \in
                 {j \in infos : j.typeName = s.g.nodes[c].info}}
      id == s.g.nextId
      dummy == Dummy(id, StubSize(s.g, n), Align(s.g, n), x.name)
      alloc == DummyAllocator(id, x.params[1].type, StubSize(s.g, n), Align(s.g, n), x.name)
  IN CASE x.kind \in {"Dummy", "DummyAllocator", "Container"} -> s
       [] pass # <<>> /\ n \in DOMAIN s.dummies -> Replace(s, s.dummies[n])
       [] pass # <<>> /\ n \notin DOMAIN s.dummies ->
            LET g == MakeContainer(s.g, pass[1], n)
            IN ReplaceNew([s EXCEPT !.dummies = (n :> NewNode(g)) @@ @], g)
       [] pass = <<>> /\ stub /\ IsAllocator(x) /\ x.params = <<>> -> Fail(s, "out_of_range")
       [] pass = <<>> /\ stub /\ IsAllocator(x) /\ x.params # <<>> ->
            ReplaceNew(s, MakeNamed(s.g, alloc))
       [] pass = <<>> /\ stub /\ ~IsAllocator(x) -> ReplaceNew(s, MakeType(s.g, dummy))
       [] OTHER -> s

TypeIdentifier(g, infos, passThrough) ==
  LET Pre(s, n) ==
        IF ~IsContainer(s.g, n) THEN s
        ELSE FoldLeft(LAMBDA t, i : IdentifyParam(t, n, i, ToSet(infos \o passThrough), passThrough),
                      s, [i \in DOMAIN s.g.nodes[n].params |-> i])
      First(s, n) == LET x == s.g.nodes[n] IN
        IF x.kind = "Container" THEN Accept(Types(x.params)) ELSE Accept(Edges(x))
  IN Walk(PassState(g), g.roots, TRUE, Pre, First, Keep, NoCalls, Keep)

\* Prune: what later passes do not need is dropped once it was walked.
Prune(g) ==
  LET Post(s, n) ==
        LET x == s.g.nodes[n]
        IN CASE x.kind = "Class" ->
                  SetNode(s, n, [x EXCEPT !.params = <<>>, !.parents = <<>>,
                                          !.functions = <<>>])
             [] x.kind = "Container" -> SetNode(s, n, [x EXCEPT !.to = <<>>])
             [] OTHER -> s
  IN Walk(PassState(g), g.roots, TRUE, Keep, AllEdges, Post, NoCalls, Keep)

(***************************************************************************)
(* AddChildren: the classes of the whole program that derive from a dynamic *)
(* class.  They are found by the unqualified name of the parent and parsed  *)
(* by a parser of their own, which knows none of the nodes there are.       *)
(***************************************************************************)
RECURSIVE UnderlyingType(_, _)
UnderlyingType(db, t) ==
  IF db[t].kind = "typedef" THEN UnderlyingType(db, db[t].to) ELSE t

\* enumerateChildClasses and recordChildren: one entry per parent of that name.
ChildClasses(db, name) ==
  LET Recorded(p) == LET parent == UnderlyingType(db, p.type)
                     IN ~p.bad /\ SizeComplete(db, parent) /\ db[parent].tag = name
      Entries(t) == IF db[t].kind \in {"class", "struct"}
                    THEN SelectSeq(db[t].parents, Recorded) ELSE <<>>
  IN IF name = <<>> THEN <<>>
     ELSE FlattenSeq([t \in DOMAIN db |-> [i \in DOMAIN Entries(t) |-> t]])

\* The loop over the possible children of the class at node c.
AddParsed(s, c, p) ==
  LET x == p.g.nodes[p.node]
      t == [s EXCEPT !.g = p.g, !.parser = p]
      Base(parent) == p.g.nodes[StripTypedefs(p.g, parent.type)]
  IN CASE p.thrown -> Fail(t, "DrgnParserError")
       [] ~p.thrown /\ x.kind # "Class" -> Fail(t, "abort")
       [] OTHER ->
            IF \E q \in ToSet(x.parents) :
                  Base(q).kind = "Class" /\ Base(q).input = s.g.nodes[c].input
            THEN [t EXCEPT !.g.nodes[c].children = Append(@, p.node)] ELSE t

AddChild(s, c, child) == AddParsed(s, c, Parse([s.parser EXCEPT !.g = s.g], child))

AddChildren(g, db, chaseRawPointers) ==
  LET First(s, n) == LET x == s.g.nodes[n] IN
        IF x.kind = "Class" THEN Accept(Types(x.params) \o Types(x.members))
                            ELSE Accept(Edges(x))
      Post(s, n) ==
        IF ~IsClass(s.g, n) \/ ~IsDynamic(s.g.nodes[n]) THEN s
        ELSE FoldLeft(LAMBDA t, child : AddChild(t, n, child), s,
                      ChildClasses(db, s.g.nodes[n].name))
      Late(s, n) == IF IsClass(s.g, n) /\ IsDynamic(s.g.nodes[n])
                    THEN Accept(s.g.nodes[n].children) ELSE <<>>
  IN Walk(PassState(g) @@ [parser |-> Parser(g, db, chaseRawPointers)],
          g.roots, FALSE, Keep, First, Post, Late, Keep)

(***************************************************************************)
(* RemoveMembers: the members the configuration ignores, those of an        *)
(* incomplete type, and all members of a union (before it is walked, so     *)
(* their types are not reached through it).                                 *)
(***************************************************************************)
IgnoreMember(ignored, x, m) ==
  \E i \in ignored : x.input = i.type /\ (m.name = i.member \/ i.member = <<"*">>)

RemoveMembers(g, ignored) ==
  LET Pre(s, n) == IF s.g.nodes[n].union THEN SetNode(s, n, [s.g.nodes[n] EXCEPT !.members = <<>>])
                                         ELSE s
      Post(s, n) ==
        LET x == s.g.nodes[n]
            Kept(m) == ~IgnoreMember(ignored, x, m) /\ s.g.nodes[m.type].kind # "Incomplete"
        IN SetNode(s, n, [x EXCEPT !.members = SelectSeq(@, Kept)])
  IN Walk(PassState(g), g.roots, FALSE, Pre, AllEdges, Post, NoCalls, Keep)

\* EnforceCompatibility: what CodeGen v1 stubs is stubbed here too.
EnforceCompatibility(g, typesToStub) ==
  LET Pre(s, n) == LET x == s.g.nodes[n] IN
        IF IsClass(s.g, n) /\ x.name # <<>> /\ Head(x.name) \in typesToStub
        THEN SetNode(s, n, [x EXCEPT !.members = <<>>]) ELSE s
      Post(s, n) ==
        LET Kept(m) == ~StartsWith(m.name, ParentPrefix)
        IN SetNode(s, n, [s.g.nodes[n] EXCEPT !.members = SelectSeq(@, Kept)])
  IN Walk(PassState(g), g.roots, TRUE, Pre, AllEdges, Post, NoCalls, Keep)

(***************************************************************************)
(* KeyCapture: a CaptureKeys node above the containers whose keys are       *)
(* wanted, at the top level or as a member.                                 *)
(***************************************************************************)
CaptureKey(s, n) ==
  LET c == StripTypedefs(s.g, n)
  IN IF IsContainer(s.g, c)
     THEN [s EXCEPT !.g = MakeNamed(s.g, CaptureKeys(n, s.g.nodes[c].info))] ELSE s

\* The type captureKey returned: the node it made, or the type it was given.
Captured(before, after, n) ==
  IF NewNode(after.g) > NewNode(before.g) THEN NewNode(after.g) ELSE n

KeyCapture(g, keys) ==
  LET CaptureMember(s, c, i) ==
        LET m == s.g.nodes[c].members[i]
            t == CaptureKey(s, m.type)
        IN [t EXCEPT !.g.nodes[c].members[i].type = Captured(s, t, m.type),
                     !.g.nodes[c].members[i].align = 0]
      CaptureMembers(s, c, key) ==
        FoldLeft(LAMBDA t, i : IF t.g.nodes[c].members[i].name = key.member
                               THEN CaptureMember(t, c, i) ELSE t,
                 s, [i \in DOMAIN s.g.nodes[c].members |-> i])
      Pre(s, n) ==
        IF ~IsClass(s.g, n) THEN s
        ELSE FoldLeft(LAMBDA t, key : IF ~key.topLevel /\ s.g.nodes[n].name = key.type
                                      THEN CaptureMembers(t, n, key) ELSE t, s, keys)
      CaptureRoot(s, i) ==
        LET t == CaptureKey(s, s.g.roots[i])
        IN [t EXCEPT !.g.roots[i] = Captured(s, t, s.g.roots[i])]
      start == IF \E i \in DOMAIN keys : keys[i].topLevel
               THEN FoldLeft(CaptureRoot, PassState(g), [i \in DOMAIN g.roots |-> i])
               ELSE PassState(g)
  IN Walk(start, start.g.roots, TRUE, Pre, AllEdges, Keep, NoCalls, Keep)

\* Mutant: the padding has the type that is made next.
PaddingMembers_next(s, start, end, members) ==
  LET bytes == (end - start) \div 8
      g == MakeNamed(s.g, Array(Primitive("int8_t"), bytes))
  IN IF bytes <= 0 THEN [st |-> s, members |-> members]
     ELSE [st |-> [s EXCEPT !.g = g],
           members |-> Append(members, Member(NewNode(g) + 1, <<PaddingPrefix>>, start, 0))]

(***************************************************************************)
(* AddPadding: members for every gap before, between and after the members, *)
(* a bitfield for what is not a whole number of bytes and an array of bytes *)
(* for the rest.  paddingBits is an unsigned difference: a negative one is  *)
(* an overlap and would be an enormous array.                               *)
(***************************************************************************)
PaddingMembers(s, start, end, members) ==
  LET bits == end - start
      bytes == bits \div 8
      bitfield == IF bits % 8 = 0 THEN <<>>
                  ELSE <<Member(Primitive("int8_t"), <<PaddingPrefix>>, start, bits % 8)>>
      g == MakeNamed(s.g, Array(Primitive("int8_t"), bytes))
      array == [Member(NewNode(g), <<PaddingPrefix>>, ((start + 7) \div 8) * 8, 0)
                  EXCEPT !.inputName = <<>>]
  IN CASE bits < 0 -> [st |-> Fail(s, "overlapping members"), members |-> members]
       [] bits >= 0 /\ bytes = 0 -> [st |-> s, members |-> members \o bitfield]
       [] bits >= 0 /\ bytes > 0 -> [st |-> [s EXCEPT !.g = g],
                                     members |-> members \o bitfield \o <<array>>]

EndBits(g, m) == m.bitOffset + (IF m.bitsize = 0 THEN Size(g, m.type) * 8 ELSE m.bitsize)

PadClass(s, n) ==
  LET x == s.g.nodes[n]
      count == Len(x.members)
      Start(i) == IF i = 1 THEN 0 ELSE EndBits(s.g, x.members[i - 1])
      Padded(acc, i) ==
        LET p == PaddingMembers(acc.st, Start(i), x.members[i].bitOffset, acc.members)
        IN [p EXCEPT !.members = Append(@, x.members[i])]
      body == FoldLeft(Padded, [st |-> s, members |-> <<>>], [i \in 1..count |-> i])
      all == PaddingMembers(body.st, Start(count + 1), x.size * 8, body.members)
      whole == PaddingMembers(s, 0, x.size * 8, x.members)
      filled == \E m \in ToSet(x.members) :
                  m.bitsize = x.size * 8 \/ Size(s.g, m.type) = x.size
  IN CASE x.union /\ filled -> s
       [] x.union /\ ~filled -> [whole.st EXCEPT !.g.nodes[n].members = whole.members]
       [] OTHER -> [all.st EXCEPT !.g.nodes[n].members = all.members]

AddPadding(g) ==
  LET First(s, n) == LET x == s.g.nodes[n] IN
        IF x.kind = "Class" THEN Accept(Types(x.params) \o Types(x.members))
                            ELSE Accept(Edges(x))
      Post(s, n) ==
        CASE ~IsClass(s.g, n) -> s
          [] IsClass(s.g, n) /\ s.g.nodes[n].parents # <<>> -> Fail(s, "assert(c.parents.empty())")
          [] OTHER -> PadClass(s, n)
      Late(s, n) == IF s.g.nodes[n].union THEN <<>> ELSE Accept(s.g.nodes[n].children)
  IN Walk(PassState(g), g.roots, FALSE, Keep, First, Post, Late, Keep)

(***************************************************************************)
(* NameGen.  Classes, enums and typedefs are numbered when they are met;    *)
(* the names that are built from other names are rebuilt after the walk of  *)
(* what they are built from, if that is not already under way.              *)
(***************************************************************************)
RemoveTemplateParams(name) ==
  LET open == {i \in DOMAIN name : name[i] = "<"}
  IN IF open = {} THEN name
     ELSE SubSeq(name, 1, (CHOOSE i \in open : \A j \in open : i <= j) - 1)

Deduplicated(name, n) == (IF name = <<>> THEN <<AnonPrefix>> ELSE name) \o <<ToString(n)>>

NumberMembers(members) ==
  [i \in DOMAIN members |->
     LET name == Deduplicated(members[i].name, i - 1)
     IN [members[i] EXCEPT !.name = name, !.inputName = IF @ = <<>> THEN name ELSE @]]

ContainerName(g, base, params, Name(_)) ==
  LET Param(p) == IF p.value # "" THEN <<p.value>>
                  ELSE Name(g.nodes[p.type]) \o (IF p.const THEN <<"const">> ELSE <<>>)
  IN RemoveTemplateParams(base) \o <<"<">>
       \o FlattenSeq([i \in DOMAIN params |->
                        (IF i > 1 THEN <<",">> ELSE <<>>) \o Param(params[i])])
       \o <<">">>

NameGen(g) ==
  LET Pre(s, n) ==
        LET x == s.g.nodes[n]
            base == IF x.kind = "Enum" THEN x.name ELSE RemoveTemplateParams(x.name)
            name == Deduplicated(base, s.n)
            y == [x EXCEPT !.name = name, !.members = NumberMembers(@),
                           !.input = IF x.name = <<>> /\ x.kind # "Typedef" THEN name ELSE @]
        IN IF x.kind \in {"Class", "Enum", "Typedef"}
           THEN [SetNode(s, n, y) EXCEPT !.n = @ + 1] ELSE s
      First(s, n) == LET x == s.g.nodes[n] IN
        IF x.kind = "Container" THEN Accept(Types(x.params)) ELSE Accept(Edges(x))
      Post(s, n) ==
        LET x == s.g.nodes[n]
        IN CASE x.kind = "Container" /\ x.params # <<>> ->
                  SetNode(s, n, [x EXCEPT
                    !.name = ContainerName(s.g, x.name, x.params, LAMBDA y : y.name),
                    !.input = ContainerName(s.g, x.input, x.params, LAMBDA y : y.input)])
             [] x.kind \in {"Array", "Pointer", "Reference", "DummyAllocator", "CaptureKeys"} ->
                  SetNode(s, n, [x EXCEPT !.name = RegeneratedName(s.g, x)])
             [] x.kind = "Incomplete" ->
                  SetNode(s, n, [x EXCEPT !.name = <<"Incomplete", "<", "struct">> \o x.input \o <<">">>])
             [] OTHER -> s
  IN Walk(PassState(g), g.roots, FALSE, Pre, First, Post, NoCalls, Keep)

\* Mutant: the first parameter of any container.
AllowsIncompleteParam_any(infos, x, i) == i = 1

(***************************************************************************)
(* TopoSorter: types after the types their definitions need.  What can be   *)
(* declared only is left for later, in a queue.                             *)
(***************************************************************************)
AllowsIncompleteParam(infos, x, i) ==
  i = 1 /\ \E info \in ToSet(infos) :
             info.typeName = x.info /\ info.ctype \in {"SEQ", "LIST", "UNIQ_PTR", "SHRD_PTR"}

TopoSorter(g, infos) ==
  LET First(s, n) ==
        LET x == s.g.nodes[n]
        IN CASE x.kind = "Class" ->
                  Accept(Types(x.parents) \o Types(x.members) \o Types(x.params))
             [] x.kind = "Container" ->
                  FlattenSeq([i \in DOMAIN x.params |->
                    Calls(IF AllowsIncompleteParam(infos, x, i) THEN "after" ELSE "accept",
                          <<x.params[i].type>>)])
             [] x.kind \in {"Pointer", "Reference"} ->
                  IF s.g.nodes[x.to[1]].kind = "Typedef" THEN Accept(x.to) ELSE AcceptAfter(x.to)
             [] OTHER -> Accept(Edges(x))
      \* Dummies are the only types that are not sorted: nothing defines them.
      Post(s, n) == IF s.g.nodes[n].kind \in {"Dummy", "DummyAllocator"} THEN s
                    ELSE [s EXCEPT !.sorted = Append(@, n)]
      Late(s, n) == AcceptAfter(s.g.nodes[n].children)
      end == Walk(PassState(g), g.roots, FALSE, Keep, First, Post, Late, Keep)
  IN [end EXCEPT !.g.finalTypes = end.sorted]
=============================================================================
