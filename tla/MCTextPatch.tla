---------------------------- MODULE MCTextPatch ----------------------------
(***************************************************************************)
(* TextPatch on windows of 3 bytes: functions with one or two ranges,      *)
(* return instructions next to each other and next to the entry.           *)
(***************************************************************************)
EXTENDS TextPatch

MCRequests ==
  {[type |-> "entry",  args |-> <<"arg0">>],
   [type |-> "return", args |-> <<"retval">>],
   [type |-> "return", args |-> <<"arg0">>],
   [type |-> "return", args |-> <<"retval", "arg0">>]}

CodeRange(start, rets) == [start |-> start, rets |-> rets]

AllFuncDescs ==
  [ranges: {<<CodeRange(s, r)>> : s \in {3, 4}, r \in {<<0>>, <<1, 2>>, <<1, 3, 4>>}}
           \cup {<<CodeRange(3, <<1, 2>>), CodeRange(s, r)>> :
                   s \in {0, 6, 7}, r \in {<<0>>, <<0, 1>>, <<1, 2>>, << >>}},
   argStart: {0, 4}]

\* The layouts whose neighbouring traps are installed in ascending order.
MCFuncDescs ==
  {fd \in AllFuncDescs : \A req \in MCRequests : Ascending(TrapSites(fd, req))}

=============================================================================
