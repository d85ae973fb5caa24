------------------------- MODULE XObjectRepository -------------------------
(***************************************************************************)
(* pparam::XObjectRepository (include/xobject.hpp 1931-2755): lists of     *)
(* objects under one read-write lock.  Calls that work on a list, or on    *)
(* one list after the other, hold the lock for reading from the lookup to  *)
(* the return; regObjList and unregObjList hold it for writing.            *)
(*                                                                         *)
(* What an operation does inside its list is module XObjectList; here it   *)
(* is a step that uses the list and may ask the repository again.  rw_lock *)
(* is the default lock of the platform: a reader enters whenever nobody    *)
(* writes, also while a writer waits.                                      *)
(***************************************************************************)
EXTENDS Integers, FiniteSets

CONSTANTS
  Threads, Lists,
  IDs,            \* list IDs, the order of loading
  None,           \* no thread, no list
  Registered,     \* lists registered by ID before the threads start
  MaxOps          \* bound on the calls of a thread

ASSUME IDsAreOrdered == IDs \subseteq Nat \ {0}
ASSUME FinitelyManyThreads == IsFiniteSet(Threads)
ASSUME BoundedCalls == MaxOps \in Nat
ASSUME RegisteredLists ==
  /\ Registered \in [IDs -> Lists \union {None}] /\ None \notin Threads \union Lists
  /\ \A i, j \in IDs : Registered[i] = Registered[j] => i = j \/ Registered[i] = None

\* The calls: on one list; on all lists, in one pass or in two; on the table
\* of lists.  "one" stands for loadObj, reloadObj, add, del, mod, loadXmlStr,
\* loadXmlDoc, addLoadedObjects, saveXmlDoc, xml, save, unload, the queries and
\* begin and end with a list ID; "all" for addLoadedObjects, xml, shell_xml and
\* save without one; "search" for the queries without one.  The overload
\* query_name_lock_locklist(listID, name) stands for nothing: it gives the lock
\* back on no exception, and cannot be instantiated, since the function it
\* calls (2494-2501) names a member that iterators do not have.
OneList  == {"one"}
OnePass  == {"all", "search"}
TwoPass  == {"load", "unload"}
OnTable  == {"reg", "unreg"}
Calls    == OneList \union OnePass \union TwoPass \union OnTable

\* Mutants of Exclusive: a call that changes the table takes the read lock.
ExclusiveReg   == {"reg"}
ExclusiveUnreg == {"unreg"}

\* The calls that take the lock for writing.
Exclusive == {"reg", "unreg"}

VARIABLES
  rw_lock,    \* readers and writer
  repo,       \* the list of every ID
  destroyed,  \* lists unregObjList deleted
  unloads,    \* number of unload() calls that returned
  th          \* what every thread is doing

vars == <<rw_lock, repo, destroyed, unloads, th>>

\* pc: idle, or the next thing to do; id: the list ID of the call, or the one
\* the walk is at; list: the list in use; pass and seen: the pass of a walk
\* and the lists met in the first; asked: the operation asked the repository.
Thread == [pc : {"idle", "lock", "find", "use", "asking", "walk", "table", "unloading"},
           op : Calls, id : IDs \union {0}, list : Lists \union {None}, pass : 1..2,
           seen : SUBSET Lists, asked : BOOLEAN, left : 0..MaxOps]

Idle(n) == [pc |-> "idle", op |-> "one", id |-> 0, list |-> None, pass |-> 1,
            seen |-> {}, asked |-> FALSE, left |-> n]

Init ==
  /\ rw_lock = [readers |-> 0, writer |-> None]
  /\ repo = Registered /\ destroyed = {} /\ unloads = 0
  /\ th = [t \in Threads |-> Idle(MaxOps)]

At(t, pc) == th[t].pc = pc
Return(t) == th' = [th EXCEPT ![t] = Idle(@.left)]
Present == {i \in IDs : repo[i] # None}

-----------------------------------------------------------------------------
(* The lock.                                                                *)

rdlock == rw_lock.writer = None /\ rw_lock' = [rw_lock EXCEPT !.readers = @ + 1]

wrlock(t) == rw_lock.readers = 0 /\ rw_lock.writer = None /\ rw_lock' = [rw_lock EXCEPT !.writer = t]

\* Mutant of unlock: a writer gives back a read lock.
unlockReader(t) == rw_lock' = [rw_lock EXCEPT !.readers = @ - 1]

unlock(t) == rw_lock' = IF rw_lock.writer = t THEN [rw_lock EXCEPT !.writer = None]
                        ELSE [rw_lock EXCEPT !.readers = @ - 1]

Call(t, op, id) ==
  /\ At(t, "idle") /\ th[t].left > 0
  /\ id # 0 <=> op \in OneList \union OnTable
  /\ th' = [th EXCEPT ![t] = [Idle(@.left - 1) EXCEPT !.pc = "lock", !.op = op, !.id = id]]
  /\ UNCHANGED <<rw_lock, repo, destroyed, unloads>>

Lock(t) ==
  /\ At(t, "lock")
  /\ IF th[t].op \in Exclusive THEN wrlock(t) ELSE rdlock
  /\ th' = [th EXCEPT ![t].pc = CASE th[t].op \in OnTable -> "table"
                                  [] th[t].op \in OneList -> "find" [] OTHER -> "walk"]
  /\ UNCHANGED <<repo, destroyed, unloads>>

-----------------------------------------------------------------------------
(* Calls on one list.                                                       *)

\* Mutant of FindList: the exception leaves the lock taken.
FindListKeepsLock(t) ==
  /\ At(t, "find")
  /\ IF repo[th[t].id] = None THEN Return(t) /\ UNCHANGED rw_lock
     ELSE th' = [th EXCEPT ![t].list = repo[th[t].id], ![t].pc = "use"] /\ UNCHANGED rw_lock
  /\ UNCHANGED <<repo, destroyed, unloads>>

\* findList; without the list the call throws.
FindList(t) ==
  /\ At(t, "find")
  /\ IF repo[th[t].id] = None THEN Return(t) /\ unlock(t)
     ELSE th' = [th EXCEPT ![t].list = repo[th[t].id], ![t].pc = "use"] /\ UNCHANGED rw_lock
  /\ UNCHANGED <<repo, destroyed, unloads>>

\* The operation of the list returns or throws.
Used(t) ==
  /\ At(t, "use") /\ th[t].op \in OneList
  /\ Return(t) /\ unlock(t)
  /\ UNCHANGED <<repo, destroyed, unloads>>

\* An object's _add, _del, _mod or _reload queries the repository.
Ask(t) ==
  /\ At(t, "use") /\ ~th[t].asked /\ rdlock
  /\ th' = [th EXCEPT ![t].pc = "asking", ![t].asked = TRUE]
  /\ UNCHANGED <<repo, destroyed, unloads>>

Asked(t) ==
  /\ At(t, "asking") /\ unlock(t)
  /\ th' = [th EXCEPT ![t].pc = "use"]
  /\ UNCHANGED <<repo, destroyed, unloads>>

-----------------------------------------------------------------------------
(* Walks over the lists.                                                    *)

\* From the smallest ID to the biggest, or the other way round when unloading.
Before(t, i, j) == IF th[t].op = "unload" THEN i > j ELSE i < j

\* IDs the pass has still to visit.
Ahead(t) == {i \in Present : th[t].id = 0 \/ Before(t, th[t].id, i)}

Visit(t) ==
  /\ At(t, "walk")
  /\ \E next \in Ahead(t) :
       /\ \A i \in Ahead(t) : i = next \/ Before(t, next, i)
       /\ th' = [th EXCEPT ![t].id = next, ![t].list = repo[next], ![t].pc = "use",
                           ![t].seen = IF th[t].pass = 1 THEN @ \union {repo[next]} ELSE @]
  /\ UNCHANGED <<rw_lock, repo, destroyed, unloads>>

\* The operation on this list ended, or failed and was logged.
Left(t) ==
  /\ At(t, "use") /\ th[t].op \notin OneList
  /\ th' = [th EXCEPT ![t].pc = "walk", ![t].list = None]
  /\ UNCHANGED <<rw_lock, repo, destroyed, unloads>>

\* Mutant of Found: the return from the loop keeps the lock.
FoundKeepsLock(t) ==
  /\ At(t, "use") /\ th[t].op \in OnePass
  /\ Return(t) /\ UNCHANGED <<rw_lock, repo, destroyed, unloads>>

\* The return from the loop: the search has its object, or xml() throws.
Found(t) ==
  /\ At(t, "use") /\ th[t].op \in OnePass
  /\ Return(t) /\ unlock(t)
  /\ UNCHANGED <<repo, destroyed, unloads>>

\* All objects are loaded, or disconnected: now they are added, or deleted.
SecondPass(t) ==
  /\ At(t, "walk") /\ Ahead(t) = {} /\ th[t].op \in TwoPass /\ th[t].pass = 1
  /\ th' = [th EXCEPT ![t].pass = 2, ![t].id = 0]
  /\ UNCHANGED <<rw_lock, repo, destroyed, unloads>>

WalkEnds(t) == At(t, "walk") /\ Ahead(t) = {} /\ (th[t].op \in TwoPass => th[t].pass = 2)

Walked(t) ==
  /\ WalkEnds(t) /\ th[t].op # "unload"
  /\ Return(t) /\ unlock(t)
  /\ UNCHANGED <<repo, destroyed, unloads>>

\* unload() ends with rdlock() where the other calls have unlock().
Unloaded(t) ==
  /\ WalkEnds(t) /\ th[t].op = "unload"
  /\ Return(t) /\ rdlock /\ unloads' = unloads + 1
  /\ UNCHANGED <<repo, destroyed>>

-----------------------------------------------------------------------------
(* The table of lists.                                                      *)

InUse == {repo[i] : i \in Present}

\* A new list under an ID of its own, or an exception.
regObjList(t) ==
  /\ At(t, "table") /\ th[t].op = "reg"
  /\ \/ th[t].id \in Present /\ UNCHANGED repo
     \/ th[t].id \notin Present
        /\ \E l \in Lists \ (InUse \union destroyed) : repo' = [repo EXCEPT ![th[t].id] = l]
     \/ Lists = InUse \union destroyed /\ UNCHANGED repo
  /\ Return(t) /\ unlock(t)
  /\ UNCHANGED <<destroyed, unloads>>

\* unregObjList finds the list, or throws, and unloads it.
UnloadList(t) ==
  /\ At(t, "table") /\ th[t].op = "unreg"
  /\ IF th[t].id \notin Present THEN Return(t) /\ unlock(t)
     ELSE th' = [th EXCEPT ![t].pc = "unloading", ![t].list = repo[th[t].id]] /\ UNCHANGED rw_lock
  /\ UNCHANGED <<repo, destroyed, unloads>>

DeleteList(t) ==
  /\ At(t, "unloading")
  /\ destroyed' = destroyed \union {th[t].list} /\ repo' = [repo EXCEPT ![th[t].id] = None]
  /\ Return(t) /\ unlock(t)
  /\ UNCHANGED unloads

Step(t) == \/ Lock(t) \/ FindList(t) \/ Used(t) \/ Ask(t) \/ Asked(t) \/ Visit(t) \/ Left(t) \/ Found(t)
           \/ SecondPass(t) \/ Walked(t) \/ Unloaded(t)
           \/ regObjList(t) \/ UnloadList(t) \/ DeleteList(t)

Next == \E t \in Threads : Step(t) \/ \E op \in Calls, id \in IDs \union {0} : Call(t, op, id)

\* A thread that is in a call and not blocked goes on; an object stops asking.
Spec == Init /\ [][Next]_vars /\ \A t \in Threads : WF_vars(Step(t))

-----------------------------------------------------------------------------
(* Properties.                                                              *)

TypeOK ==
  /\ rw_lock \in [readers : Nat, writer : Threads \union {None}]
  /\ repo \in [IDs -> Lists \union {None}]
  /\ destroyed \subseteq Lists /\ unloads \in Nat
  /\ th \in [Threads -> Thread]

\* Threads that hold the lock for reading, and those that hold it twice.
Reading == {t \in Threads : th[t].op \notin Exclusive /\ th[t].pc \notin {"idle", "lock"}}
Asking  == {t \in Threads : th[t].pc = "asking"}

\* Every path out of a call, exceptions and returns from a loop included, gives
\* back what the call took: the readers are the calls in progress, and two
\* for every unload() that returned.
LockBalance == rw_lock.readers = Cardinality(Reading) + Cardinality(Asking) + 2 * unloads

\* No call, and no walk, uses a list that unregObjList deleted.
UsedListsExist == \A t \in Threads : th[t].list \notin destroyed

\* No list is added that was not loaded before, and none is unloaded whose
\* objects are still connected: the table does not grow between two passes.
FirstPassComplete ==
  \A t \in Threads : th[t].pass = 2 => InUse \subseteq th[t].seen

\* Every call returns, a query from within an operation included; once unload()
\* was called, a call that changes the table may wait for ever.
AllReturn ==
  \A t \in Threads :
    th[t].pc # "idle" ~> th[t].pc = "idle" \/ (unloads > 0 /\ th[t].op \in OnTable)
=============================================================================
