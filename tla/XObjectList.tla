---------------------------- MODULE XObjectList ----------------------------
(***************************************************************************)
(* pparam::XObjectList (include/xobject.hpp 1229-1910): several threads    *)
(* load, add, delete, modify and reload the objects of one list.           *)
(*                                                                         *)
(* The status of an object is that of module XObjectStatus, one operation  *)
(* on an object is a grant of its status and a later end (module XObject   *)
(* has the steps between).  A node stays readable while an iterator is on  *)
(* it and iterators meet the nodes in the order of loading (module XList). *)
(* list_lock is never held over a step that waits, so that what it guards  *)
(* is one step; dup_lock is held over many.                                *)
(***************************************************************************)
EXTENDS XObjectStatus, Integers, SequencesExt

CONSTANTS
  Threads, Objects, Keys,
  None,           \* no object, no thread
  KeyOf,          \* get_key() of every object
  Preloaded,      \* objects loaded from the XML document, in order
  Calls,          \* the calls clients make
  MaxOps          \* bound on the calls of a thread

\* The calls: by new object, by key, or on all objects of the list.
OnNew == {"load", "add"}
OnKey == {"addLoaded", "del", "mod", "reload"}
OnAll == {"addAll", "delAll"}

\* The document is loaded into a list that refuses a key it has.
ASSUME ListAssumption ==
  /\ KeyOf \in [Objects -> Keys] /\ None \notin Objects \union Threads
  /\ Preloaded \in Seq(Objects)
  /\ \A i, j \in DOMAIN Preloaded : KeyOf[Preloaded[i]] = KeyOf[Preloaded[j]] => i = j
  /\ Calls \subseteq OnNew \union OnKey \union OnAll
  /\ MaxOps \in Nat

\* The status an operation asks for.
Asks == [add |-> "ADDING", addLoaded |-> "ADDING", addAll |-> "ADDING", del |-> "DELETING",
         delAll |-> "DELETING", mod |-> "MODIFYING", reload |-> "RELOADING"]

VARIABLES
  xoStatus, xoStatus_prev,  \* of every object
  thisIter,                 \* objects whose this_iter is on their node
  loaded,                   \* objects in the order of loading, erased ones included
  smap,                     \* the search map: key to object
  erased,                   \* objects whose node is out of the chain
  erasers,                  \* eraser threads started for an object
  freed,                    \* deleted objects
  dup_lock,                 \* its holder
  th                        \* what every thread is doing

vars == <<xoStatus, xoStatus_prev, thisIter, loaded, smap, erased, erasers, freed, dup_lock, th>>

\* pc: idle, or the next thing to do; obj: the object at hand; cur: the
\* object the duplicate check stands on; left: calls left.
Thread == [pc : {"idle", "dup", "verify", "compare", "append", "iter", "enter", "prepare",
                 "operate", "cleanup", "remove"},
           op : OnNew \union OnKey \union OnAll, obj : Objects \union {None},
           cur : Objects \union {None}, left : 0..MaxOps]

Init ==
  /\ xoStatus = [o \in Objects |-> "LOADED"]
  /\ xoStatus_prev = xoStatus
  /\ thisIter = {} /\ loaded = Preloaded /\ erased = {} /\ freed = {}
  /\ erasers = [o \in Objects |-> 0]
  /\ smap = [k \in Keys |-> IF \E o \in ToSet(Preloaded) : KeyOf[o] = k
                            THEN CHOOSE o \in ToSet(Preloaded) : KeyOf[o] = k ELSE None]
  /\ dup_lock = None
  /\ th = [t \in Threads |-> [pc |-> "idle", op |-> "load", obj |-> None, cur |-> None, left |-> MaxOps]]

Chained == ToSet(loaded) \ erased

\* The node operator++ leads to from o's node, or from before the first.
After(o) ==
  LET here == {i \in DOMAIN loaded : loaded[i] = o}
      rest == {i \in DOMAIN loaded : loaded[i] \notin erased /\ \A j \in here : j < i}
  IN IF rest = {} THEN None ELSE loaded[Min(rest)]

-----------------------------------------------------------------------------
(* Statuses.                                                                *)

setStatus(o, s) == xoStatus' = [xoStatus EXCEPT ![o] = s]
                   /\ xoStatus_prev' = [xoStatus_prev EXCEPT ![o] = xoStatus[o]]

bkStatus(o) == setStatus(o, xoStatus_prev[o])

Statuses == <<xoStatus, xoStatus_prev>>
Lists    == <<loaded, smap, erased, erasers, freed>>

At(t, pc) == th[t].pc = pc
Goto(t, pc) == th' = [th EXCEPT ![t].pc = pc]
Give(t) == dup_lock' = IF dup_lock = t THEN None ELSE dup_lock

\* The call of t returns or throws; a call on all objects goes on behind obj.
Return(t) ==
  LET next == After(th[t].obj)
      more == th[t].op \in OnAll /\ next # None
  IN th' = [th EXCEPT ![t].pc = IF ~more THEN "idle" ELSE IF th[t].op = "addAll" THEN "iter" ELSE "enter",
                      ![t].obj = IF more THEN next ELSE None, ![t].cur = None]

-----------------------------------------------------------------------------
(* Calls.                                                                   *)

Unused(o) == o \notin ToSet(loaded) /\ \A u \in Threads : th[u].obj # o

Begin(t, op, o, pc) ==
  /\ op \in Calls /\ At(t, "idle") /\ th[t].left > 0
  /\ th' = [th EXCEPT ![t] = [pc |-> pc, op |-> op, obj |-> o, cur |-> None, left |-> @.left - 1]]
  /\ UNCHANGED <<Statuses, thisIter, Lists, dup_lock>>

CallNew(t, op, o) == op \in OnNew /\ Unused(o) /\ Begin(t, op, o, "dup")

\* list.find(key); without an object of that key the call throws.
CallKey(t, op, k) ==
  /\ op \in OnKey /\ smap[k] # None
  /\ Begin(t, op, smap[k], CASE op = "addLoaded" -> "iter" [] op = "del" -> "enter" [] OTHER -> "dup")

CallAll(t, op) ==
  op \in OnAll /\ After(None) # None /\ Begin(t, op, After(None), IF op = "addAll" THEN "iter" ELSE "enter")

-----------------------------------------------------------------------------
(* verifyObjectDuplication, under dup_lock.                                 *)

LockDup(t) ==
  /\ At(t, "dup") /\ dup_lock = None
  /\ dup_lock' = t /\ Goto(t, "verify")
  /\ UNCHANGED <<Statuses, thisIter, Lists>>

\* The next object but the one being modified.
Candidate(t) == LET next == After(th[t].cur)
                IN IF next # None /\ next = th[t].obj THEN After(next) ELSE next

\* chStatus(QUERYING); an object that refuses is not compared.
Visit(t) ==
  LET o == Candidate(t) IN
  /\ At(t, "verify") /\ o # None
  /\ \/ /\ canTransit(xoStatus[o], "QUERYING") = "DIRECT"
        /\ setStatus(o, "QUERYING")
        /\ th' = [th EXCEPT ![t].pc = "compare", ![t].cur = o]
     \/ /\ canTransit(xoStatus[o], "QUERYING") = "NONE"
        /\ th' = [th EXCEPT ![t].cur = o]
        /\ UNCHANGED Statuses
  /\ UNCHANGED <<thisIter, Lists, dup_lock>>

\* Mutant of Compare: the status is kept when the objects are equal.
CompareKeepsStatus(t) ==
  LET o == th[t].cur IN
  /\ At(t, "compare")
  /\ IF KeyOf[o] = KeyOf[th[t].obj] THEN Return(t) /\ Give(t) /\ UNCHANGED Statuses
     ELSE Goto(t, "verify") /\ UNCHANGED dup_lock /\ bkStatus(o)
  /\ UNCHANGED <<thisIter, Lists>>

\* Mutant of Compare: the exception leaves dup_lock taken.
CompareKeepsLock(t) ==
  LET o == th[t].cur IN
  /\ At(t, "compare") /\ bkStatus(o)
  /\ IF KeyOf[o] = KeyOf[th[t].obj] THEN Return(t) ELSE Goto(t, "verify")
  /\ UNCHANGED <<thisIter, Lists, dup_lock>>

\* An object of the same key makes the call throw.
Compare(t) ==
  LET o == th[t].cur IN
  /\ At(t, "compare") /\ bkStatus(o)
  /\ IF KeyOf[o] = KeyOf[th[t].obj] THEN Return(t) /\ Give(t)
     ELSE Goto(t, "verify") /\ UNCHANGED dup_lock
  /\ UNCHANGED <<thisIter, Lists>>

Verified(t) ==
  /\ At(t, "verify") /\ Candidate(t) = None
  /\ th' = [th EXCEPT ![t].pc = IF th[t].op \in OnNew THEN "append" ELSE "prepare", ![t].cur = None]
  /\ UNCHANGED <<Statuses, thisIter, Lists, dup_lock>>

-----------------------------------------------------------------------------
(* loadObj and _add.                                                        *)

\* Mutant of AppendNew: a key in use is not refused.
AppendAnyKey(t) ==
  LET o == th[t].obj IN
  /\ At(t, "append")
  /\ loaded' = Append(loaded, o) /\ smap' = [smap EXCEPT ![KeyOf[o]] = o]
  /\ (IF th[t].op = "add" THEN Goto(t, "iter") ELSE Return(t))
  /\ Give(t)
  /\ UNCHANGED <<Statuses, thisIter, erased, erasers, freed>>

\* Mutant of AppendNew: an object that was refused is added all the same.
AppendGoesOn(t) ==
  LET o == th[t].obj
      taken == smap[KeyOf[o]] # None
  IN
  /\ At(t, "append")
  /\ loaded' = IF taken THEN loaded ELSE Append(loaded, o)
  /\ smap' = IF taken THEN smap ELSE [smap EXCEPT ![KeyOf[o]] = o]
  /\ (IF th[t].op = "add" THEN Goto(t, "iter") ELSE Return(t))
  /\ Give(t)
  /\ UNCHANGED <<Statuses, thisIter, erased, erasers, freed>>

\* addT or addParam under list_lock: the search map refuses a key it has.
AppendNew(t) ==
  LET o == th[t].obj
      taken == smap[KeyOf[o]] # None
  IN
  /\ At(t, "append")
  /\ loaded' = IF taken THEN loaded ELSE Append(loaded, o)
  /\ smap' = IF taken THEN smap ELSE [smap EXCEPT ![KeyOf[o]] = o]
  /\ (IF ~taken /\ th[t].op = "add" THEN Goto(t, "iter") ELSE Return(t))
  /\ Give(t)
  /\ UNCHANGED <<Statuses, thisIter, erased, erasers, freed>>

SetThisIter(t) ==
  /\ At(t, "iter")
  /\ thisIter' = thisIter \union {th[t].obj} /\ Goto(t, "enter")
  /\ UNCHANGED <<Statuses, Lists, dup_lock>>

\* chStatus of the operation, in prepare with dup_lock still held; an add()
\* that is refused is taken back like one that failed.
Enter(t) ==
  LET o == th[t].obj
      answer == canTransit(xoStatus[o], Asks[th[t].op])
  IN
  /\ At(t, "enter") \/ At(t, "prepare")
  /\ \/ answer = "DIRECT" /\ setStatus(o, Asks[th[t].op]) /\ Goto(t, "operate")
     \/ answer = "NONE" /\ th[t].op = "add" /\ Goto(t, "cleanup") /\ UNCHANGED Statuses
     \/ answer = "NONE" /\ th[t].op # "add" /\ Return(t) /\ UNCHANGED Statuses
  /\ Give(t)
  /\ UNCHANGED <<thisIter, Lists>>

Working(t, status) == At(t, "operate") /\ Asks[th[t].op] = status

Done(t, status) == setStatus(th[t].obj, status) /\ UNCHANGED <<Lists, dup_lock>>

\* _add succeeds, or ends with an error that still leaves the object added.
Added(t) ==
  /\ Working(t, "ADDING") /\ Done(t, "NORMAL") /\ Return(t)
  /\ thisIter' \in {thisIter, thisIter \union {th[t].obj}}

AddFailed(t) ==
  /\ Working(t, "ADDING") /\ Done(t, xoStatus_prev[th[t].obj])
  /\ (IF th[t].op = "add" THEN Goto(t, "cleanup") ELSE Return(t))
  /\ UNCHANGED thisIter

\* mod and reload, or a deletion that fails or meets a busy object.
Back(t) ==
  /\ Working(t, "DELETING") \/ Working(t, "MODIFYING") \/ Working(t, "RELOADING")
  /\ Done(t, xoStatus_prev[th[t].obj]) /\ Return(t)
  /\ UNCHANGED thisIter

-----------------------------------------------------------------------------
(* Removal.                                                                 *)

\* del() of the object; disconnectAll() and this_iter.fini() included.  A
\* deletion that ends with an error is not followed by the removal.
Deleted(t) ==
  /\ Working(t, "DELETING") /\ Done(t, "DELETED")
  /\ thisIter' = thisIter \ {th[t].obj}
  /\ Goto(t, "remove") \/ Return(t)

\* add() takes the object back: disconnectAll(), this_iter_fini().
Cleanup(t) ==
  /\ At(t, "cleanup")
  /\ thisIter' = thisIter \ {th[t].obj} /\ Goto(t, "remove")
  /\ UNCHANGED <<Statuses, Lists, dup_lock>>

\* Mutant of Unlist: the node may have been erased before.
UnlistAgain(t) ==
  LET o == th[t].obj IN
  /\ At(t, "remove")
  /\ smap' = [smap EXCEPT ![KeyOf[o]] = None]
  /\ erased' = erased \union {o} /\ erasers' = [erasers EXCEPT ![o] = @ + 1]
  /\ Return(t) /\ UNCHANGED <<Statuses, thisIter, loaded, freed, dup_lock>>

\* Mutant of Unlist: the search map keeps the key.
UnlistKeepsKey(t) ==
  LET o == th[t].obj IN
  /\ At(t, "remove")
  /\ erased' = erased \union {o}
  /\ erasers' = IF o \in erased THEN erasers ELSE [erasers EXCEPT ![o] = @ + 1]
  /\ Return(t) /\ UNCHANGED <<Statuses, thisIter, loaded, smap, freed, dup_lock>>

\* xdel_prepare under list_lock forgets the key, whichever object it leads
\* to; an eraser is started by the one whose xerase_prepare succeeds.
Unlist(t) ==
  LET o == th[t].obj IN
  /\ At(t, "remove")
  /\ smap' = [smap EXCEPT ![KeyOf[o]] = None]
  /\ erased' = erased \union {o}
  /\ erasers' = IF o \in erased THEN erasers ELSE [erasers EXCEPT ![o] = @ + 1]
  /\ Return(t) /\ UNCHANGED <<Statuses, thisIter, loaded, freed, dup_lock>>

\* The eraser waits until no iterator is on the node, then deletes the object.
Free(o) ==
  /\ o \in erased \ freed /\ o \notin thisIter
  /\ \A t \in Threads : o \notin {th[t].obj, th[t].cur}
  /\ freed' = freed \union {o}
  /\ UNCHANGED <<Statuses, thisIter, loaded, smap, erased, erasers, dup_lock, th>>

Step(t) == \/ LockDup(t) \/ Visit(t) \/ Compare(t) \/ Verified(t) \/ AppendNew(t) \/ SetThisIter(t)
           \/ Enter(t) \/ Added(t) \/ AddFailed(t) \/ Back(t) \/ Deleted(t) \/ Cleanup(t) \/ Unlist(t)

Next == \/ \E t \in Threads :
             \/ Step(t)
             \/ \E op \in OnNew, o \in Objects : CallNew(t, op, o)
             \/ \E op \in OnKey, k \in Keys : CallKey(t, op, k)
             \/ \E op \in OnAll : CallAll(t, op)
        \/ \E o \in Objects : Free(o)

\* A thread with something to do that is not blocked goes on.
Spec == Init /\ [][Next]_vars /\ \A t \in Threads : WF_vars(Step(t))

-----------------------------------------------------------------------------
(* Properties.                                                              *)

TypeOK ==
  /\ xoStatus \in [Objects -> Status] /\ xoStatus_prev \in [Objects -> Status]
  /\ thisIter \subseteq Objects /\ loaded \in Seq(Objects)
  /\ smap \in [Keys -> Objects \union {None}]
  /\ freed \subseteq erased /\ erased \subseteq ToSet(loaded)
  /\ erasers \in [Objects -> Nat] /\ dup_lock \in Threads \union {None}
  /\ th \in [Threads -> Thread]

\* What find() returns is an object of that key whose node is still in the
\* chain: no caller begins an operation on an object that is being erased.
FoundIsListed ==
  \A k \in Keys : smap[k] # None => smap[k] \in Chained /\ KeyOf[smap[k]] = k

\* At most one eraser thread deletes an object, also when an add() that
\* fails takes the object back while another thread deletes it.
OneEraser == \A o \in Objects : erasers[o] = IF o \in erased THEN 1 ELSE 0

\* "Objects store base on their keys and may query/delete base on their keys"
\* (class comment): every object of the list is found by its key, so that
\* whoever put it there can delete it.
ListedIsFound == \A o \in Chained : smap[KeyOf[o]] = o

\* The list never holds two objects of one key, although the duplicate check
\* (verifyObjectDuplication) passes over an object that refuses QUERYING.
KeysUnique == \A o, p \in Chained : KeyOf[o] = KeyOf[p] => o = p

\* A status that stands for an operation belongs to exactly one thread, the
\* one that will end it: a duplicate check gives it back on every path.
AtWork(t, o) == \/ At(t, "operate") /\ th[t].obj = o /\ xoStatus[o] = Asks[th[t].op]
                \/ At(t, "compare") /\ th[t].cur = o /\ xoStatus[o] = "QUERYING"

StatusOwned ==
  \A o \in Objects : xoStatus[o] \in Operation => Cardinality({t \in Threads : AtWork(t, o)}) = 1

\* Every call on the list returns or throws: dup_lock, which mod() holds
\* while it waits for an object, is never part of a circle.
AllReturn == \A t \in Threads : th[t].pc # "idle" ~> th[t].pc = "idle"
=============================================================================
