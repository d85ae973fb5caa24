---------------------------- MODULE DBFunctions ----------------------------
(***************************************************************************)
(* The database functions of pparam::_XMixParam and XSetParam              *)
(* (include/xparam.tcc): a parameter is saved, updated, deleted, and its   *)
(* tables created and destroyed, by a sequence of calls of the engine of   *)
(* module XDBEngine.                                                       *)
(***************************************************************************)
EXTENDS XDBEngine

-----------------------------------------------------------------------------
(* Parameters.                                                              *)

Singles(name, elem, vals)  == [kind |-> "singles", name |-> name, elem |-> elem, key |-> "", vals |-> vals, kids |-> <<>>]
Mixes(name, elem, kids)    == [kind |-> "mixes", name |-> name, elem |-> elem, key |-> "", vals |-> <<>>, kids |-> kids]

\* newT(NULL): an element as its constructor leaves it.
Fresh(n) == Mix(n.elem, "", <<0>>, <<>>)

\* params.size() = 0.
Empty(n) == n.vals = <<>> /\ n.kids = <<>>

-----------------------------------------------------------------------------
(* The engine calls of a parameter p's child n.                             *)

\* The root opens the transaction and commits it.
InTransaction(p, calls) == IF p = NoParent THEN <<Start>> \o calls \o <<Commit>> ELSE calls

NoKey == <<Rollback, Throw>>

\* The elements of a set of single values, as rows without a key.
SaveSingles(n, p) == [i \in DOMAIN n.vals |-> saveXParam(Mix(n.elem, "", <<n.vals[i]>>, <<>>), p)]

\* Mutant of UpdateSingles: the rows of the old elements stay.
UpdateSinglesAppend(n, p) == SaveSingles(n, p)

UpdateSingles(n, p) == <<removeXParamByParent(n.elem, p)>> \o SaveSingles(n, p)

RECURSIVE Save(_, _), Update(_, _), Delete(_, _), Create(_, _), Destroy(_, _), Inside(_, _)

OfKids(F(_, _), n, p) == FlattenSeq([i \in DOMAIN n.kids |-> F(n.kids[i], p)])

\* XSetParam: the elements of a set of mixtures are saved under its parent, but
\* deleted, created and destroyed under the set, by one element made for it.
SaveSet(n, p)    == IF n.kind = "singles" THEN SaveSingles(n, p) ELSE OfKids(Save, n, p)
UpdateSet(n, p)  == IF n.kind = "singles" THEN UpdateSingles(n, p) ELSE OfKids(Update, n, p)
DeleteSet(n, p)  == IF n.kind = "singles" THEN <<removeXParamByParent(n.elem, p)>> ELSE Delete(Fresh(n), n)
CreateSet(n, p)  == IF n.kind = "singles" THEN <<createXParamStructure(n.elem, p)>> ELSE Create(Fresh(n), n)
DestroySet(n, p) == IF n.kind = "singles" THEN <<destroyXParamStructure(n.elem)>> ELSE Destroy(Fresh(n), n)

\* _XMixParam: the children before the mixture itself.
Save(n, p) ==
  CASE Empty(n) -> <<>>
    [] n.kind = "mix" /\ n.key = "" -> NoKey
    [] OTHER -> InTransaction(p, IF n.kind = "mix" THEN OfKids(Save, n, n) \o <<saveXParam(n, p)>> ELSE SaveSet(n, p))

Update(n, p) ==
  IF Empty(n) THEN <<>>
  ELSE InTransaction(p, CASE n.kind # "mix" -> UpdateSet(n, p)
                          [] n.key = "" -> NoKey
                          [] OTHER -> OfKids(Update, n, n) \o <<updateXParam(n, p)>>)

Delete(n, p) ==
  InTransaction(p, CASE n.kind # "mix" -> DeleteSet(n, p)
                     [] n.key = "" \/ (p # NoParent /\ p.key = "") -> NoKey
                     [] OTHER -> OfKids(Delete, n, n) \o <<removeXParam(n, p)>>)

Create(n, p) ==
  IF Empty(n) THEN <<>>
  ELSE InTransaction(p, IF n.kind = "mix" THEN OfKids(Create, n, n) \o <<createXParamStructure(n.name, p)>>
                        ELSE CreateSet(n, p))

Destroy(n, p) ==
  InTransaction(p, IF n.kind = "mix" THEN OfKids(Destroy, n, n) \o <<destroyXParamStructure(n.name)>>
                   ELSE DestroySet(n, p))

Calls == {"dbSave", "dbUpdate", "dbDelete", "dbCreateStructure", "dbDestroyStructure", "cleanup"}

EngineCalls(op, n) ==
  CASE op = "dbSave" -> Save(n, NoParent) [] op = "dbUpdate" -> Update(n, NoParent)
    [] op = "dbDelete" -> Delete(n, NoParent) [] op = "dbCreateStructure" -> Create(n, NoParent)
    [] op = "dbDestroyStructure" -> Destroy(n, NoParent) [] op = "cleanup" -> <<vacuum>>

\* What dbLoad of n reads: n and the objects in it, each with its parent.
Inside(n, p) == {[n |-> n, p |-> p]}
                \union UNION {Inside(n.kids[i], IF n.kind = "mix" THEN n ELSE p) : i \in DOMAIN n.kids}

\* An exception ends the function, and those that called it.
UpToThrow(calls) ==
  LET throws == {i \in DOMAIN calls : calls[i] = Throw}
  IN IF throws = {} THEN calls ELSE SubSeq(calls, 1, Min(throws))

Request(op, n) == [op |-> op, param |-> n, calls |-> UpToThrow(EngineCalls(op, n)), reads |-> Inside(n, NoParent)]
=============================================================================
