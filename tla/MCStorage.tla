----------------------------- MODULE MCStorage -----------------------------
(* Two values of one parameter with a sub-parameter and a set, one whose    *)
(* sub-parameter has no key, one with a set of mixtures, and a set that is  *)
(* a root itself beside its elements.                                       *)
EXTENDS Storage, DBFunctions

Root(key, val, kids) == Mix("root", key, <<val>>, kids)
Sub(key, val) == Mix("sub", key, <<val>>, <<>>)

Item(key, val) == Mix("item", key, <<val>>, <<>>)

MCParams ==
  {Root("a", 1, <<Sub("x", 1), Singles("set", "s", <<1>>)>>),
   Root("a", 2, <<Sub("x", 2), Singles("set", "s", <<2, 1>>)>>),
   Root("b", 1, <<Singles("set", "s", <<1>>), Sub("", 1)>>),
   Root("d", 1, <<Mixes("list", "e", <<Mix("e", "k", <<1>>, <<>>)>>)>>),
   Item("i", 1), Mixes("items", "item", <<Item("i", 1), Item("j", 2)>>)}

MCRequests   == {Request(op, n) : op \in Calls, n \in MCParams}
MCNoRequests == {}
=============================================================================
