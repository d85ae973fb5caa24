# PParam in TLA+

PParam is a C++ library of parameter objects: values, sets and lists that read and
write themselves as XML, objects with a life cycle and with connections to one
another, lists of such objects kept in a database, and a repository of those lists.
Several client threads work on the same objects and lists.  This directory holds
TLA+ models of the concurrent core, of what is kept on the disk and of the value parameters with
arithmetic in them, their TLC configurations, and TLAPS proofs.

File names and line numbers are those of the repository (`include/xlist.hpp` is
`src/include/xlist.hpp` in PROJECT.json).  PROJECT.json lists every run, every
theorem, the source lines behind every definition, the hazards and the findings.

## 1. The system

| component | state | operations | who calls it, what it calls |
|---|---|---|---|
| `XList` (`xlist.hpp`) | nodes with `_M_next`, `_M_prev`, `n_lock`, `usage_cond`, `usageNO`, the `erasing` flag; a sentinel | iterator begin, end, copy, assign, ++, --, destroy; `push_back`; `xerase_prepare`, `xerase`, `erase`, `clear` | the container of everything below; readers take no list lock, writers are in a critical section of their caller; `xerase` runs in a detached thread |
| `XObjectStatus` (`xobject.cpp`) | none | `canTransit(from, to)`: direct, wait, none | `XObject::chStatus` |
| `XObject`, `XObjectConnection` (`xobject.hpp` 80-1214) | `xoStatus`, `xoStatus_prev`, `obj_status_lock` and `obj_status_cond`, `cList` (an XList), `ruse`, `this_iter` | `add`, `mod`, `del`, `reload`, `scan`, `query_*`, `_xml`; `connect`, `disconnect`, `disconnectAll`; `notifyDependentObjects` | clients and `XObjectList`; virtual `_add`, `_mod`, `_del`, `mayConnect`, `notify` call back into `connect` and `disconnect` of other objects |
| `XObjectList` (`xobject.hpp` 1229-1930) | an XList of objects with its search map, `list_lock`, `dup_lock`, an XML document | `loadObj`, `add`, `mod`, `del`, `reloadObj`, `addLoadedObjects`, `delAll`, duplicate check, `load`, `saveXmlDoc` | `XObject`, `SQLiteDBEngine`, `XObjectRepository` |
| `XObjectRepository` (`xobject.hpp` 1931-2360) | map of lists under a read-write lock | `regObjList`, `unregObjList`, `load`, `unload`, lookups | `XObjectList` |
| `XListParam`, `XSetParam`, `XMixParam` (`xparam.hpp`) | an XList of parameters and a map from key to iterator | `push_back`, `del`, `xdel_prepare`, `xdel`, `find` | `XList` |
| `XIntParam`, `XFloatParam`, `XEnumParam`, `XTextParam` | a value and its bounds | set, ++, --, compare | pure |
| `XParam::saveXmlDoc` (`xparam.cpp`) | a file and its backup | rename, write, remove | the file system |
| `SQLiteDBEngine` (`xdbengine.cpp`) | `onTransaction`, a command buffer per thread | start, commit, rollback, execute | SQLite |
| value parameters (`sparam.cpp`) | UUID, date, time, IP, port, MAC... | conversions, netmask and calendar arithmetic | pure |
| XML wrapper, logs, exceptions | - | parse, print, throw | libxml++ |

What is hard in it:

* **Iteration without a list lock.**  An iterator on node *n* going to the next node
  locks *n*, gives up its use of *n*, reads `n->_M_next`, and only then counts itself on the node
  it read.  In between it is counted nowhere, while a writer may unlink either
  node and an eraser thread may wait for its count to drop to zero.  Only the node
  lock of *n* and the rule that a removed node keeps its neighbours counted protect it.
* **Deferred destruction.**  `~XListNode` sleeps on `usage_cond`; the last release has to
  wake it, and nothing may reach the node after it.
* **The status monitor.**  Ten statuses, a hundred pairs; one remembered previous
  status; a broadcast on every change; and virtual functions that run
  while the status is taken and call `connect` of other objects, which waits on *their* status.
* **Two-sided connections.**  Each side is added, refused, rolled back and removed under its own
  lock, never both, while the objects are being deleted.
* **Lists and repository** add a duplicate lock, a read-write lock and a database
  transaction on top, with early returns and exceptions between lock and unlock.

What makes each component correct:

* *XList*: usage counts are exact; nothing destroyed is reachable; iteration keeps
  the order and skips nothing; an erased node is destroyed in the end and not before.
* *XObject*: one operation at a time per object; no waiter is forgotten; both
  sides of a connection agree; strong connections protect from deletion; a
  deleted object ends with no connection; every operation returns.
* *XObjectList*: an object is in the list if and only if it is found by its key, so that keys are unique;
  one eraser per object; a status taken by the duplicate check is given back on every path; every call returns.
* *XObjectRepository*: the read-write lock is balanced; a list is not used after it was unregistered.
* *XListParam*: the key map and the list hold the same elements (stated of XObjectList, its only concurrent user).
* *SQLiteDBEngine*: a call on a parameter takes effect as a whole or not at all, what was saved is read
  back, and nothing is left in the engine by a call that failed.
* *saveXmlDoc*: at every moment some complete document exists under a known name.
* *values*: fields stay in their ranges after rejected assignments too; arithmetic is exact; what a
  parameter writes, it reads back.

## 2. Modules

    XListAbs  <-(refinement)-  XList  <-  XListProofs  <-  XListUsageProofs
    XObjectStatus  <-  XObject      <-  XObjectProofs  <-  XObjectConnProofs
                   <-  XObjectList  <-  XObjectListProofs,  MCXObjectList
    XObjectRepository  <-  XObjectRepositoryProofs,  MCXObjectRepository
    XDBEngine, XmlDocument  <-  Storage  <-  StorageProofs
    XDBEngine  <-  DBFunctions;   Storage, DBFunctions  <-  MCStorage
    DateTimeParam, IPParam, PortParam, SIDParam  <-  ValueParams  <-  ValueParamsProofs,  MCValueParams

An arrow is EXTENDS.  The layers meet at named steps and not in one product: XObject takes an operation
on `cList` as a step because XList is verified to be a list that can be changed during iteration; XObjectList
takes an operation of XObject as a grant of its status and a later end; XObjectRepository takes an operation of
a list as a step that may come back and ask the repository.

**XList** models `xlist.hpp`.  Nodes are numbers in the order in which `push_back` creates them, 0 is the
sentinel.  `M_next`, `M_prev`, `usageNO`, `M_node` are the fields of the
same name; `phase` says how far `push_back`, `xerase_prepare` or `xerase`
got with a node (it contains the `erasing` flag); `sleeping` holds the nodes whose
destructor is in `pthread_cond_wait`; `lockedNode` is the node lock an iterator's
thread holds *between* two actions; `pc` is the iterator's step; `writer` is
the caller's critical section, in which every write runs.  One action stands for each access to shared state that
another thread can observe.  A section that takes one node lock and
touches nothing else (`chNextPrev`, `fini`, a pass of `waitForUsage`) is one
action whose guard asks that the lock be free.  `usageNO` may go below zero in the model,
for the unsigned counter that wraps: the value after the wrap is never compared with anything but zero.

| code | actions |
|---|---|
| `begin`, `end`, copy, `operator=`, `fini` | `Begin`, `EndIter`, `Copy`, `Assign`, `Fini` |
| `++`, `--`, and their postfix forms | `Move` or `MovePost`, then `ReadPointer`, then `AccessUnlock` (also the end of `begin`) |
| `push_back` | `PushCreate`, `PushChain`, `PushLink` |
| `xerase_prepare` | `Prepare`, `Bypass`, `Unlink` |
| the start of an eraser thread | `Spawn`; `erase()` goes on inline (`Unlink(i, TRUE)`) |
| `xerase`, `~XListNode`, `waitForUsage` | `EraseFini`, `WaitForUsage`, `Destroy`, `ReleaseNext`, `ReleasePrev` |
| the iterator left on the destroyed node | `StalePos`, `StaleFini`, or `Reset` |

**XListAbs** is the contract in the class comment of `XList`: elements enter and
leave once, a removed element lives while an iterator stands on it, iterators
only move to live elements.  It has no pointers, counters or locks.

**XObjectStatus** is the transition table, cell by cell.

**XObject** models `xobject.hpp` 80-1214.  `th` holds what each client thread is
doing: its operation, the object it is on, the step, and the stack of nested
`scan` calls.  One action is one section under
`obj_status_lock`, or one read of shared state outside it (`is_busy`).
The virtual functions may do what the code lets them do: `_add`, `_mod` and `notify` (in the scan's visit, while the
object is SCANNING) connect, `_mod`, `notify` and `_del` disconnect, and so does a client of an object that is LOADED
again after a failed addition; all of them may fail or throw NOK, `mayConnect` may refuse, a scanner may go FORWARD or not.
Since XList is verified on its own, `cList` is a set here: `push_back` and
`xerase_prepare` are single steps, done under the status lock, and the later `xerase` frees what nobody reaches.

| code | actions |
|---|---|
| `XObjectList::_add` storing the iterator | `SetThisIter` |
| `chStatus` | `EnterOp`, `WaitOp`, `RefuseOp` (by table); `setStatus` broadcasts |
| `add`, `mod`, `del` after it | `AddOk`, `ModOk`, `OpFailed`, `DelBusy`, `DelNotBusy`, `DelFailed`, `DelOk`, `DelDone` |
| `reload`, queries, printing | `EndData` |
| `connect`, `addConnection` | `Connect`, `PeerMayConnect`, `PeerSleep`, `PeerRefuse`, `PeerAdd`, `Rollback` |
| `disconnect`, `disconnectAll` | `Disconnect`, `DisconnectLoaded`, `PeerDelete` |
| `scan`, `notifyDependentObjects` | `Visit`, `ScanPeer`, `ScanReturn` |

**XObjectList** models `xobject.hpp` 1229-1910 with the search map of `XListParam` (`xparam.hpp` 1232-1295).  `loaded`
holds the objects in the order of loading, erased ones too (iterators still stand on them), `erased`
those out of the chain, `smap` the map from key to object, `erasers` the detached threads started by `xdel`,
`freed` what they deleted.  `list_lock` guards single steps only; `dup_lock` has its holder.  A thread's `pc` is
the place in its call, `obj` the object of the call, `cur` the one the duplicate check stands on.

| code | actions |
|---|---|
| `loadObj`, `add` | `CallNew`, `LockDup`, the check, `AppendNew`, then for `add` `SetThisIter`, `Enter` |
| `verifyObjectDuplication` | `Visit`, `Compare`, `Verified` |
| `mod`, `reloadObj` by key | `CallKey`, `LockDup`, the check, `Enter` (with `dup_lock` still held), `Back` |
| `_add`, `addLoadedObject`, `addAllLoadedObjects` | `CallKey` or `CallAll`, `SetThisIter`, `Enter`, `Added`, `AddFailed` |
| `add` that takes its object back | `Cleanup`, `Unlist` |
| `del`, `delAll` | `CallKey` or `CallAll`, `Enter`, `Back` or `Deleted`, `Unlist` |
| the eraser thread of `xdel` | `Free` |

**XObjectRepository** models `xobject.hpp` 1931-2755.  Some forty public functions take the lock in
six ways, and each of these is one kind of call: on one list, on all of them in one pass, a search that returns
from its loop, `load` and `unload` in two passes, `regObjList`, `unregObjList` (the comment at `OneList`
says which function is of which kind, and of one that cannot be instantiated).  `rw_lock` counts readers and names the writer.  It is a
`pthread_rwlock_t` with default attributes, which on glibc lets a reader in whenever nobody writes.

| code | actions |
|---|---|
| `rdlock`, `wrlock`, `unlock` | operators of these names, taken in `Lock` |
| a call with a list ID | `FindList`, `Used`; the operation's own queries `Ask`, `Asked` |
| the loops over `repo` | `Visit`, `Left`, `Found`, `SecondPass`, `Walked`; `Unloaded` for `unload()` |
| `regObjList`, `unregObjList` | `regObjList`, `UnloadList`, `DeleteList` |

**XDBEngine** models `SQLiteDBEngine` (`xdbengine.cpp`): `onTransaction` and `buffer` are the engine's, and a thread's
`job` runs a request, a sequence of engine calls, one call at a time.  A command is a record, and of SQLite the
model uses what the code relies on: a table has the columns it was created with, its key is unique where not NULL, a batch
takes effect as a whole or not at all.  The engine knows nothing of the parameters; `RequestAssumption` says what it
needs of a request (`InTransactions`: a transaction is started, filled with commands and committed, or
rolled back before an exception; vacuum alone runs without one).

**DBFunctions** models `dbSave`, `dbUpdate`, `dbDelete`, `dbCreateStructure` and `dbDestroyStructure` of mixtures and
sets (`xparam.tcc`).  A parameter is a tree of records; each function is an operator that gives the sequence of engine
calls it makes, `EngineCalls`, and `Request` is that sequence up to its first exception, with the objects `dbLoad` would read back.
TLC checks `RequestAssumption` of them.  Clients call `dbUpdate` only for what is stored (`Stored` in the guard of `Begin`).

**XmlDocument** models `XParam::saveXmlDoc` (`xparam.cpp` 78-116) over a directory of names and texts, so
that a stream that is open stays on its text when the name moves.  Its handler catches `std::exception` only, which
`pparam::Exception` is not: one thrown by `xml()` of a client's parameter skips the restoring (`Escaped`) and leaves the old document
under the name with the time, just as a crash would (`interrupted`).  **Storage** puts both on one
machine: a thread does one thing at a time, commands and writes may fail, and the process may die between any two
steps (`Crash`): flag, buffers and streams are gone, tables and files stay.

**DateTimeParam, IPParam, PortParam, SIDParam** are the conversions of `sparam.cpp` as
operators: the calendar (`addDay`, `addMinute`, sums and differences of times, days between dates),
IPv4 and IPv6 addresses and netmasks, port texts, security identifiers.  A text is the sequence of
its parts (numbers, `Blank`, `Letters`), since what the code does depends on the parts; that of a port is the sequence of its characters,
which the automaton of `PortParam` (a recursive function, `Reading`) takes one by one.  **ValueParams** is one parameter and every call a
client may make on it, so that a property is checked in every state a sequence of accepted and rejected
assignments can reach.

Definitions introduced by the word *Mutant* are not part of the model: each is a
plausible slip of the programmer in the operation that follows it, and putting it in that
operation's place makes TLC report the property it is kept for.

## 3. Runs

| run | shows |
|---|---|
| `xlist` | `UsageAccounting`, `NoDestroyedReachable`, `TraversalOrder`, `FrozenPointers`, `EraseCompletes`, and that XList implements XListAbs |
| `xobject` | every operation at once: `OneOperation`, `NoLostWakeup`, `ConnectionSymmetric`, `RuseCounts`, `LifeCycle` |
| `xobject_delete` | deletion against everything but reloading and printing: `StrongProtects`, `DeletedIsolated`, and `AllReturn` (liveness) |
| `xobjectlist` | every call of a list: `FoundIsListed`, `OneEraser`, `StatusOwned` |
| `xobjectlist_loaded` | every call but `add` of a new object: `ListedIsFound` (hence `KeysUnique`) and `AllReturn` (liveness) |
| `xrepository` | `LockBalance`, `UsedListsExist`, `FirstPassComplete`, and `AllReturn` (liveness) |
| `storage` | database and document with failures, exceptions that escape and crashes: `AllOrNothing`, `SaveReadsBack`, `EngineClean`, `DocumentKept` |
| `values` | `ClockExact`, `DifferencesExact`, `MaskReadsBack`, `AddressReadsBack`, `RangeVersions`, `PortDenotes`, `SIDReadsBack` |
| `xlist_stale`, `xobject_print`, `xobject_refuse`, `xobject_scan` | violations, see findings |

The .cfg files have the runs' bounds.

*XList: `MaxNode` = 3, two iterators.*  With three nodes a removed node can have a
removed neighbour and a live one, an erase can happen at the beginning, in the
middle and at the end, and one can begin while another waits for its users.  Two iterators
give one that erases and one that walks, or two that pass each other; eraser threads
come on top, one for each node.  A third
iterator adds nothing to what a node's counter can miss by one, and the proofs
below do not depend on the bound.

*XObject: two threads, two objects, one connection, `MaxDepth` = 1.*  A hazard of this
class is between two operations on one object, or on the two ends of one
connection.  One connection name is enough for both threads to
make, refuse, roll back and remove it at once; a second one only repeats it.  `MaxDepth` bounds the nesting of
`scan`: at depth one a scan visits an object, is sent on to its connections,
and is refused or delayed on the neighbour.  `OwnAnswers` = {TRUE} says that
`mayConnect` of the connecting side agrees, as a caller of `connect` expects (see
findings for FALSE).  `Ops` is what clients start: `xobject` has all of it;
`xobject_delete` leaves out PRINTING because of the finding of `xobject_print`, and RELOADING, which only
touches an object that was never added.

*XObjectList: two threads, three objects, two calls a thread.*  Two objects have one key and the third, which comes from the
document, has its own: enough for a duplicate, for a key that is free again after a deletion, and for a
check that walks past an object of another thread.  Two calls let a thread leave something behind (a
deleted object, a forgotten key) that another call meets.
`xobjectlist_loaded` leaves out `add` because of a finding: the key that gets lost there makes `ListedIsFound`, and with it `KeysUnique`, false.

*XObjectRepository: three threads, one call each, IDs {1, 2}, three lists.*  A walk in two passes, a
writer and one more reader; the third list can be registered under a freed ID while a walk is between its passes.

*Storage: one thread, `MaxClock` = 3, `MCRequests`.*  The requests are all calls on `MCParams`, small trees that differ in what the
database functions distinguish: a sub-parameter, a set of values, a set of mixtures, a missing key, a set of two mixtures as root
beside one of its elements, and two values of one parameter.  Every set has an element, for the reason given under findings.  Three
seconds leave time for a crash, a restart and a save; a restart takes a second.

*Values.*  Clocks stand before the end of a February, of a leap year and a common one, and of a
year; the amounts are a fraction of a day, a day and forty days.  Netmasks are all prefixes, values outside of them
and all masks of bytes 0, 128 and 255; IPv6 addresses are all placements of zero and non-zero words; port texts are all
texts up to six characters over digits, `!`, `:` and another one; identifiers have up to ten ids.  The exceptions
inside the properties are findings: years where February differs 1900 years later (`ClockExact`), dates of
different years (`DifferencesExact`), the prefix of 32 bits (`MaskReadsBack`), a lone zero word at the edge
(`LoneEdgeZero`), ten ids and more (`SIDReadsBack`), and an address with a netmask given to `setAddressFrom` or
`setAddressTo` (`RangeVersions`): it is stored with its version, and then the call throws before the versions are compared.  Two
of the texts for ranges have a netmask, one of each version, so that this happens; every other call, also on a range
left in that state, is held to the property.

CHECK_DEADLOCK is off where the bounds themselves stop the system: calls are used up (XObjectList,
XObjectRepository), the clock or the year is at its bound (`values`).  It is on in all other runs: they have no
state in which everything stops.

### Fairness

*XList.*  An eraser thread that can take its next step takes it, and so does a thread in
the middle of `++`, `--`, `begin`, `push_back` or an erase: none of these
waits for a client.  Weak fairness is enough, since a node lock is never held across a wait.
Nothing makes a client start an operation or leave a node, and a condition variable need not wake by itself;
`EraseCompletes` therefore assumes that the iterators have left the erased nodes (`Quiet`).

*XObject.*  A thread inside an operation goes on unless it sleeps.  Sleepers are woken by
the broadcast only.  `AllReturn` assumes that clients stop starting things, since with an endless stream of
new operations a condition variable may pass over the same waiter for ever.

*XObjectList and XObjectRepository.*  `WF_vars(Step(t))`: a thread that is in a call and not blocked goes on.
The number of calls is bounded, so that nobody is passed over for ever; eraser threads need no fairness, since no
call waits for one.  Between an `Ask` and the next an object asks once only: an `_add` that queries for ever never ends.
`AllReturn` of the repository excepts calls on the table after an `unload()`, which leaves the lock taken (see findings).

*Storage and ValueParams* state safety only.

## 4. Proofs

Every theorem holds for all values of the constants that satisfy the assumptions of its module, which TLC evaluates on
every run: `XListAssumption` (any `MaxNode`, any finite set of iterators); for XObject a finite set of connections;
`ListAssumption` (a document without duplicate keys); for the repository a finite set of threads and `Registered` without one list under two IDs;
for Storage `RequestAssumption` (requests are made of whole transactions; DBFunctions' are, says TLC), `SameThreads`, a clock of at least one second and
enough texts for all names with a time and the savers' streams; for the
values `ClocksAssumption` and `TextsAssumption` (clients begin with dates on the calendar and assign numbers and words),
`BlankAssumption`, `NullAssumption`, `CharactersAssumption` (marks and characters are no numbers), `SubIDsAssumption` (four bytes), and `CharsAssumption`: port texts of at most nine characters, since ten digits
overflow the `int` they are added up in (see findings).

| theorem | module | states |
|---|---|---|
| `TypeCorrect` | XListProofs | `TypeOK` |
| `IterationInOrder`, `RemovedNodesFrozen` | XListProofs | `TraversalOrder`, `FrozenPointers` |
| `UsageIsExact`, `ReachableIsAlive` | XListUsageProofs | `UsageAccounting`, `NoDestroyedReachable` |
| `ListImplementsContract` | XListUsageProofs | `ImplementsContract` |
| `OperationsAreSequential`, `NoWakeupIsLost`, `LifeGoesForward` | XObjectProofs | `OneOperation`, `NoLostWakeup`, `LifeCycle` |
| `TypeCorrect`, `StrongConnectionsCounted` | XObjectConnProofs | `TypeOK`, `RuseCounts` |
| `StrongConnectionsProtect` | XObjectConnProofs | `StrongProtects`, if `"PRINTING" \notin Ops` |
| `ConnectionsBidirectional` | XObjectConnProofs | `ConnectionSymmetric`, if `OwnAnswers \subseteq {TRUE}` |
| `DeletedObjectsIsolated` | XObjectConnProofs | `DeletedIsolated`, under both conditions |
| `TypeCorrect`, `FoundObjectsAreListed`, `ErasedOnce`, `StatusesAreOwned` | XObjectListProofs | `TypeOK`, `FoundIsListed`, `OneEraser`, `StatusOwned` |
| `ListedObjectsAreFound`, `KeysAreUnique` | XObjectListProofs | `ListedIsFound`, `KeysUnique`, if `"add" \notin Calls` |
| `TypeCorrect`, `LockIsBalanced`, `UsedListsAreAlive`, `PassesAreComplete` | XObjectRepositoryProofs | `TypeOK`, `LockBalance`, `UsedListsExist`, `FirstPassComplete` |
| `StorageTypes` | StorageProofs | `TypeOK` |
| `StorageClean`, `StorageDocumentKept`, `StorageAllOrNothing` | StorageProofs | `EngineClean`, `DocumentKept`, `AllOrNothing`, for one thread (`OneThread`) |
| `ValueParamsClockExact` | ValueParamsProofs | `ClockExact` |
| `ValueParamsDifferencesExact`, `ValueParamsTypes` | ValueParamsProofs | `DifferencesExact`, `TypeOK`, under `NoFalseLeapDay` |
| `ValueParamsMaskReadsBack`, `ValueParamsAddressReadsBack` | ValueParamsProofs | `MaskReadsBack`, `AddressReadsBack` |
| `ValueParamsRangeVersions` | ValueParamsProofs | `RangeVersions` |
| `ValueParamsPortDenotes`, `ValueParamsSIDReadsBack` | ValueParamsProofs | `PortDenotes`, `SIDReadsBack` |

The conditions are not conveniences: where one is dropped the property is violated (`xobject_print`, and the findings about
`OwnAnswers`, `add`, two threads in one engine or saving one document, and the year 2100 for `TypeOK`).

### XList

None of these properties is inductive alone.  The inductive invariant is built in layers, each
preserved with the help of the earlier ones:

1. `Shape`: the types, and what an iterator's step says of its node and its lock.
   Without it `M_next[M_node[i]]` may be an application to NULL.
2. `WriterInv`: the phases agree with the critical section. At most one node is between two steps of
   `push_back` or `xerase_prepare`, and the iterator that erases it stands on it.
3. `ListInv`: the form of the list. `Chain`: a node in the list is its
   neighbour's neighbour, except at the very node being pushed or bypassed; `Order`:
   pointers of all nodes, removed ones too, go in the order of creation; `AllBorn`:
   no pointer or iterator leads to a node that does not exist yet.
4. `UsageAccounting` and `AliveInv` together.  A node is destroyed when its counter is zero;
   that nobody can reach it then needs the count to be exact, and that the count stays exact needs that
   nobody accesses a destroyed node.  `LockInv` covers the moment in which an iterator has read a
   pointer and is not yet counted: the node whose lock it holds is alive and still
   leads to the node read.

`UsageAccounting` compares a counter with four cardinalities.  The
lemmas `ChangeAtOne` and `ChangeAtTwo` give the change of a cardinality when
membership changes at one or two elements; for every action one lemma (`Count...`) names the node
or iterator at which it changes and shows that both sides of the equation move alike.

For traversal order a second inductive invariant says in addition which elements can lie between a
removed node and its neighbours (none that is in the list).  The refinement proof adds `Unseen` (a
new node is known to nobody until `push_back` chains it) and maps each step of XList to a step of XListAbs or a stutter:
`PushChain` to `Append`, `Unlink` to `Remove` or `RemoveAndLeave`, `Destroy` to `Destroy`,
`AccessUnlock`, `Copy`, `Assign`, `EndIter` to `Stand`, `Move` and `Fini` to
`Leave`, `MovePost` to `HandOver`, all others to a stutter.

### XObject

The steps change the status of an object in four ways, which the proofs name: `Keep`, `Take`, `Give` and `Sleep`.  The
invariant `MInv` of the status monitor consists of `Typed` (the types, without `ruse`), `Control` (which operation can be
at which step), `Known` (a connection some object or thread knows was made, and leads to that object), and the properties themselves:
a status that stands for an operation has one owner, so that the remembered previous status is one at rest, and
whoever sleeps waits for a status with an owner.

Connections come on top (XObjectConnProofs), in layers that use the earlier ones.  `LInv` adds that an object
whose connections `del` removes is deleted already (`DeletersGone`), that a connection in the making belongs to one thread
(`MakingAlone`), and that the side it was removed from does not get it back (`RemovedHere`).  `CInv` adds `RuseCounts`, a counter against a cardinality.
`PInv` says that a thread which found the object not busy leaves it bare (`Doomed` implies `Bare`), which is what printing
breaks.  `SInv` describes a connection in the making (`MakingHalf`) and one nobody works on (`Symmetric`), and `EInv` a deleted object that
`disconnectAll` has emptied (`Emptied`).  That `_del`, `notify` and clients of LOADED objects disconnect as well does no harm, since nobody can be
making a connection on an object they take one from (`NoDeleterBeside`).  Here the step kinds are `Still`, `Opens`, `Joins`, `Backs`, `Cuts`, `Follows`.

### XObjectList

`Places` says which calls come to which place and that a call's object is listed except while it is entering;
`Apart` that nobody else has an entering object; `Owned` that the thread at `operate` or `compare` is the only
owner of that status and that the status behind it is one at rest.  Together with `FoundIsListed` and `OneEraser` this is
inductive.  That the duplicate check comes to listed objects only needs that the least element of a set of numbers exists (`LeastIndex`,
from the well-foundedness of `<` on the natural numbers).
`ListedIsFound` needs `Removal` besides: the thread about to remove an object is the one that deleted it and the
object is still in the chain.  `add` that takes an object back breaks it, the only step that does.

### XObjectRepository

`Control` ties a place to the kinds of call; `WriterAlone` says that the writer is the thread inside a call on
the table and that nobody reads then; `ListsInTable` that a list in use is in the table; `TableOK` that no list has two IDs and
none of the table is destroyed; `Passes` what a walk has met.  A walk holds the read lock, so the table cannot change under it: that is how
`FirstPassComplete` follows.

### Storage

The inductive invariant is `IInv == Types /\ EngineInv /\ SaveInv /\ DocumentKept`.

`EngineInv` follows a request through its calls: the calls left are the end of the request's from some place `i` on
(`At`), and the flag and the buffer are what the calls before `i` make of them (`Collected`): between the start of a transaction and its
end the flag is set and the buffer holds exactly the commands since the start, elsewhere the flag is down and the buffer is empty.
A thread without a request has left nothing.  While a request that is one transaction runs, the tables are still those it began
with.  So the commit applies the transaction's commands and no others (`StorageAllOrNothing`), and `StorageClean` is the
part of it about threads at rest.  It is for one thread because `onTransaction` is the engine's: a second thread's commit lowers the flag under the
first one's commands.

`SaveInv` says how far `saveXmlDoc` got: the name with its second is free when it begins, or there is no document to rename (an exception left a save of the same second); while there is no new document
yet an old one is whole under such a name, also after a save that was interrupted; the stream it writes to is the document's own.  With it
`DocumentKept` survives every step, an exception that escapes and every crash between two steps.  Two threads break it in one second.

The properties of tables (`Table`, unique keys in `TypeOK`) need that deleting rows keeps the others in their order and their keys
(`Without`, a recursive function), and that the states of a batch are those of its first commands (`Batch`).

### Value parameters

A value changes by the action of its own kind only (`Moves`), so every kind has an invariant of its own:

* `ClockInv`: the date is on the calendar of the year 1900 years later, the time on the clock.  `addMinute` is
  division with remainder on the time and `addDay` on the date, and `addDay` walks over the months one by one: the lemmas follow
  that walk by the days since the first of January of year 1.  `ClockExact` is then arithmetic, and where the property excepts years it does so for the
  finding about February.  `ClockValid` says the date is on the true calendar; that needs `NoFalseLeapDay`: a `LastYear` before 2100, since in
  that year `addDay` leaves a 29th of February, and amounts of at most a year, so that one step does not lead from before `LastYear` past 2100.
* `V4Ok`, `V6Ok`: bytes, words and prefixes in their ranges.  `MaskReadsBack` and `AddressReadsBack` hold of every
  address in them.  A netmask is a set of bits: its bytes have the bits it was made of (`BytesOfBits`), the highest clear bit ends it, and two
  bytes agree from bit k on when they are the same after `% 2^k` is taken off (`ByteAgrees`, `WordAgrees`), which is where the network test of IPv4, on bits, and
  that of IPv6, on words, meet (`NetworkTest`).  An IPv6 address is cut by its first run of zeros (`Run`); the text is what stands around it
  (`Written`), and reading fills the gap up with as many zeros (`Filled`).
* `RangeOk` for the types.  `RangeVersions` is about steps: each operation either makes the versions fit whatever they were (`SetFromFits`, `SetToFits`,
  `SetAddressFromFits`, `SetAddressToFits`) or keeps them fitting, but for the texts with a netmask the property names.
* `PortOk`: what the text denotes is what the fields say.  `Scanned` tells what the automaton knows after k characters: where the text began, whether a colon was
  met and where, the two numbers so far; at the end it accepts exactly what the documented grammar accepts (`Denotes`).
* `SIDOk`: the ids are ids.  `SIDReadsBack` rests on the reversal of bytes being its own inverse and on a count of at most nine being one digit.

`addDay`, `Reading`, `Number`, the leap days and the batches of commands are recursive functions.  That they exist and unfold (`RecursionExists`), and
induction over them, is derived from the well-foundedness of `<` on the natural numbers (`NaturalsFrom0`); the library's
induction theorems take an operator as parameter and cannot be used here.

### Only model-checked

The liveness properties `EraseCompletes` and `AllReturn` (out of the prover's reach), and `SaveReadsBack`: what `dbSave` stored depends on the
recursion over the tree of parameters in DBFunctions, whose operators are RECURSIVE, and induction over trees is not to be had
there; for the same reason `RequestAssumption` is checked of DBFunctions and assumed by the proofs.  Every other property of the passing runs is a theorem.

## 5. Findings

Each is stated in PROJECT.json with its lines.

* `xlist_stale`: `erase()`, `XListParam::xdel` and `XObject::xdelConnection` leave the iterator on the
  destroyed node; its destructor locks that node's mutex and takes one off a counter that is already zero.
  The comment of `reset()` says such an iterator has to be reset; nothing resets it.
* `xobject_print`: a new connection to a deleted object is accepted while the object is being printed,
  because its status then is PRINTING and not DELETED.
* `xobject_refuse`: the class comment promises that concurrent operations are done
  sequentially; the table refuses some of them because another happens to be active.
* `xobject_scan`: `scan()` uses `this_iter` after it gave the status back; `del()` may have emptied it.

Without a run of their own; where constants are named, TLC shows the finding with them:

* `xdel_prepare` by iterator forgets the key of the element whether or not the
  element is still listed.  `add()` takes an object back while `del()` of another thread works on it, a new object gets the
  key, and the deleter then removes the new object's entry: it is listed, and cannot be found or deleted by its key
  (XObjectListLoaded.cfg with `Calls` = {"add", "del"}, `KeyOf` <- SameKey, `Preloaded` <- EmptyList violates `ListedIsFound`).
* The duplicate check passes over objects that refuse QUERYING; what refuses their duplicates is the search
  map, and after the loss above it does not (the same constants with every call violate `KeysUnique`).
* Two saves of one document at a time may leave none, or a mixed one; nothing serialises them (Storage.cfg with
  `Threads` = `Savers` = {t1, t2}, `Requests` <- MCNoRequests and five texts violates `DocumentKept`, in its part `DocumentInPlace`).
* `saveXmlDoc` catches `std::exception` and not `pparam::Exception`: when `xml()` of a client's parameter throws one, nothing has the
  document's name until the next save (what `interrupted` excepts in `DocumentInPlace`).
* `connect()` ignores its own side's refusal (`OwnAnswers` = {TRUE, FALSE} in XObject.cfg violates `ConnectionSymmetric`).
* `inc_usage`'s comment that the counter never grows at deletion time (`NoAccessAtDeletion` in XList) is not so, and the code does
  not depend on it.
* `XObjectRepository::unload()` ends with `rdlock()` where `unlock()` is meant; `XObjectList::saveXmlDoc` unlocks a lock it did not take.
* The transaction flag belongs to the engine and the buffers to threads: with two threads in one engine a commit may be skipped
  (two threads in Storage.cfg violate `SaveReadsBack`).
* `dbUpdate` of an emptied set keeps its old rows; a set of mixtures is created under another parent than it is saved under.
* `dbSave` of a set of mixtures that is saved on its own makes a transaction of each element: when one fails, those before it stay stored.
* `addDay` takes February from the year 1900 years later, so that 2100/2/28 and a day is 2100/2/29; dates of different years have wrong differences;
  `/255.255.255.255` becomes 31; an IPv6 address with a lone zero word at the edge is not read back; `setAddress` of eight numbers
  looks at four of them; a port of ten digits overflows; ranges, ports and security identifiers differ from their comments in the ways PROJECT.json lists.

## 6. Not modelled, and the plan

Left out of what is modelled:

* XObject: an object that connects to itself, whose `cList` has the connection twice under one ID, of which `queryConnection` finds one.
* XList, XObject: allocation, copying and printing of data; `const_iterator` (the same code as `iterator`); `inc_ruse` and
  `dec_ruse`, which only clients call; `cListVersion`, which is only printed; `scan` of an asynchronous scanner, which runs the
  same steps in a thread of its own.
* XObjectList: `disconnectAll` of a whole list and the walk by types of a priority list (both call what is modelled object by object), queries that
  only read, and the loading of a document while other threads run.
* XObjectRepository: queries from within `unregObjList`, which holds the write lock (the outcome is undefined in POSIX, see hazards).
* XDBEngine: `backup()`, the reading of rows, the text of `XDBCondition`.
* Value parameters: UUID (libuuid), MAC and Email (one pattern each), Bool, lists of addresses and ports.

Not modelled at all:

* XML text, its checksum and its parser: a wrapper of an external library, without steps of its own.
* Assignment of mixtures, sets and lists from XML nodes and from each other: sequential copying.
* `XIntParam`, `XFloatParam`, `XEnumParam`, `XTextParam`: single values read and written by streams; the overflow of a
  circulating `XIntParam` at the largest value of its type is listed under hazards.
* Logs and the layout of texts: no property depends on them.

What would come next: `XListParam` as an abstract map with order, implemented by list and search map where the code keeps them together;
the loading of a document into a list in use; `XIntParam` with the width of its type.
