------------------------ MODULE IntrospectionResult ------------------------
(***************************************************************************)
(* IntrospectionResult.cpp, ParsedData.cpp: the iterator over what the code *)
(* of TreeBuilderV2 wrote.  It runs the instructions the generated code     *)
(* brings along (genClassTreeBuilderInstructions, DefineBasicTypeHandlers,  *)
(* the processors of types/*.toml) on a stack.                              *)
(*                                                                         *)
(* A Field is a record: the node it is for, what kind of field it is, its   *)
(* name and its exclusive size.  The iterator it is a record: data_ (the    *)
(* index), stack_ (top first), type_path_, dynamic_type_path_, next_ (a     *)
(* sequence of at most one element) and increments_.                        *)
(***************************************************************************)
EXTENDS CodeGen

Field(c, n, name, isset) ==
  [op |-> "field", node |-> n, name |-> name, isset |-> isset, elem |-> FALSE,
   exclusive |-> CalculateExclusiveSize(c.g, n)]

\* inst::Field{0, 0, ...} for a bitfield.
MemberField(c, m, isset) ==
  [Field(c, m.type, m.inputName, isset) EXCEPT !.exclusive = IF m.bitsize > 0 THEN 0 ELSE @]

PopTypePath == [op |-> "pop"]
Repeat(n, field) == [op |-> "repeat", n |-> n, field |-> field]

Iterator(c) ==
  [pos |-> 1, stack |-> <<Field(c, c.g.roots[1], <<"a0">>, FALSE)>>, path |-> <<>>,
   dynamicPath |-> <<>>, next |-> <<>>, increments |-> 0, total |-> 0, log |-> <<>>]

\* Mutant: the end is the last word.
AtEnd_last(it, data) == it.pos = Len(data) /\ it.next = <<>>

\* operator== with end().
AtEnd(it, data) == it.pos = Len(data) + 1 /\ it.next = <<>>

Varint(it, data) == IF it.pos <= Len(data) THEN data[it.pos] ELSE 0

\* ParsedData::parse of a VarInt, of the index of a Sum, of the length of a List.
Parsed(it, count) == [it EXCEPT !.pos = @ + count]

\* Mutant: the fields in the order they are to be popped.
ClassFields_reversed(c, x) ==
  LET members == Reverse(DataMembers(x))
      isset == ThriftIssetMember(c.g, c.infos, c.features, x)
  IN [i \in DOMAIN members |-> MemberField(c, members[i], isset # 0 /\ isset # Len(members) - i + 1)]

\* The fields of a class, the isset processor before those of the member.
ClassFields(c, x) ==
  LET members == DataMembers(x)
      isset == ThriftIssetMember(c.g, c.infos, c.features, x)
  IN [i \in DOMAIN members |-> MemberField(c, members[i], isset # 0 /\ isset # i)]

(***************************************************************************)
(* The processors of a container (types/*.toml): the words they parse, what *)
(* they push and the exclusive size they leave.                             *)
(***************************************************************************)
ProcessedContainer(c, x, field, word) ==
  LET ctype == CType(c.infos, x)
      T(i) == Types(x.params)[i]
      Elem(i, name) == Field(c, T(i), name, FALSE)
      S(i) == Size(c.g, T(i))
      entry == [field EXCEPT !.elem = TRUE, !.name = <<"[]">>,
                             !.exclusive = MapElementSize(c, <<T(1), T(2)>>) - S(1) - S(2)]
  IN CASE ctype = "SEQ" ->
            [words |-> 3, push |-> <<Repeat(word[3], Elem(1, <<"[]">>))>>,
             exclusive |-> field.exclusive + (word[2] - word[3]) * S(1)]
       [] ctype = "UNIQ_PTR" ->
            [words |-> 2, exclusive |-> field.exclusive,
             push |-> IF IsComplete(c.g, T(1)) /\ word[2] = 1 THEN <<Elem(1, <<"ptr_val">>)>> ELSE <<>>]
       [] ctype = "STD_MAP" ->
            [words |-> 2, push |-> [i \in 1..word[2] |-> entry], exclusive |-> field.exclusive]
       [] ctype = "PAIR" ->
            [words |-> 0, push |-> <<Elem(2, <<"second">>), Elem(1, <<"first">>)>>,
             exclusive |-> SizeOf(c.g, c.infos, field.node) - S(1) - S(2)]
       [] ctype = "OPTIONAL" ->
            [words |-> 1, push |-> IF word[1] = 1 THEN <<Elem(1, <<"el">>)>> ELSE <<>>,
             exclusive |-> field.exclusive - (IF word[1] = 1 THEN S(1) ELSE 0)]
       [] ctype = "THRIFT_ISSET" -> [words |-> 0, push |-> <<>>, exclusive |-> field.exclusive]

\* The processors of a pointer and of OIArray (FuncGen.cpp).
ProcessedPointer(c, x, field, word) ==
  [words |-> 2, exclusive |-> field.exclusive,
   push |-> IF word[2] = 1 /\ IsComplete(c.g, x.to[1])
            THEN <<Field(c, x.to[1], <<"*">>, FALSE)>> ELSE <<>>]

ProcessedArray(c, x, field) ==
  [words |-> 1, exclusive |-> 0,
   push |-> [i \in 1..x.len |-> Field(c, x.to[1], <<"[]">>, FALSE)]]

(***************************************************************************)
(* The entry of a map whose keys are captured gets its name from the data:  *)
(* one word says scalar or pointer, one is the value.                       *)
(***************************************************************************)
MapEntry(c, x, field, capture) ==
  LET key == Field(c, x.params[1].type, <<"key">>, FALSE)
      value == Field(c, x.params[2].type, <<"value">>, FALSE)
  IN [words |-> IF capture THEN 2 ELSE 0, push |-> <<value, key>>, exclusive |-> field.exclusive]

\* All processors of a field, in order, then its fields (pushed last first).
Processed(c, field, word) ==
  LET n == StripTypedefs(c.g, field.node)
      x == c.g.nodes[n]
      inner == IF x.kind = "CaptureKeys" THEN c.g.nodes[StripTypedefs(c.g, x.to[1])] ELSE x
      static == [words |-> 0, push |-> <<>>, exclusive |-> field.exclusive]
  IN CASE field.elem -> MapEntry(c, inner, field, x.kind = "CaptureKeys")
       [] ~field.elem /\ inner.kind = "Container" -> ProcessedContainer(c, inner, field, word)
       [] ~field.elem /\ x.kind \in {"Pointer", "Reference"} -> ProcessedPointer(c, x, field, word)
       [] ~field.elem /\ x.kind = "Array" -> ProcessedArray(c, x, field)
       [] ~field.elem /\ x.kind = "Class" -> [static EXCEPT !.push = Reverse(ClassFields(c, x))]
       [] OTHER -> static

\* operator++ for a Field, whose processors begin at at and have done so much.
FieldRead(c, at, field, done, word) ==
  LET renamed == field.elem /\ done.words > 0
      name == IF renamed THEN <<"[", ToString(word[2]), "]">> ELSE field.name
      node == StripTypedefs(c.g, field.node)
      described == done.words > 0 \/ c.g.nodes[node].kind \in {"Container", "CaptureKeys"}
  IN [Parsed(at, done.words) EXCEPT
        !.path = Append(@, name),
        !.dynamicPath = IF renamed THEN Append(@, Len(at.path) + 1) ELSE @,
        !.next = <<[node |-> field.node, name |-> name]>>,
        !.total = @ + done.exclusive,
        !.log = IF described /\ ~field.elem
                THEN Append(@, [node |-> node, words |-> [i \in 1..done.words |-> word[i]]])
                ELSE @,
        !.stack = Reverse(done.push) \o <<PopTypePath>> \o @]

ReadField(c, it, data, field) ==
  LET at == Parsed(it, IF field.isset THEN 1 ELSE 0)
      word == [i \in 1..3 |-> Varint(Parsed(at, i - 1), data)]
  IN FieldRead(c, at, field, Processed(c, field, word), word)

RECURSIVE Increment(_, _, _)

\* operator++: pops and repeats are gone through until a field gives an element.
Increment(c, it, data) ==
  LET top == Head(it.stack)
      popped == [it EXCEPT !.stack = Tail(@)]
      dynamic == it.dynamicPath # <<>> /\ Last(it.dynamicPath) = Len(it.path)
      step == [popped EXCEPT !.increments = @ + 1]
  IN CASE it.stack = <<>> ->
            IF it.next = <<>> THEN it
            ELSE [it EXCEPT !.increments = @ + 1, !.next = <<>>]
       [] it.stack # <<>> /\ top.op = "pop" ->
            Increment(c, [step EXCEPT !.path = Front(@),
                                      !.dynamicPath = IF dynamic THEN Front(@) ELSE @], data)
       [] it.stack # <<>> /\ top.op = "repeat" ->
            Increment(c, IF top.n = 0 THEN step
                         ELSE [step EXCEPT !.stack = <<top.field, Repeat(top.n - 1, top.field)>> \o @],
                      data)
       [] it.stack # <<>> /\ top.op = "field" -> ReadField(c, step, data, top)
=============================================================================
