----------------------- MODULE XObjectRepositoryProofs -----------------------
(***************************************************************************)
(* What holds of XObjectRepository for every number of threads, lists and  *)
(* list IDs.  One inductive invariant, and one lemma per action.           *)
(***************************************************************************)
EXTENDS XObjectRepository, FiniteSetTheorems, TLAPS

\* What the place a thread is at says of its call.
Control == \A t \in Threads :
  /\ th[t].pc = "idle" => th[t].op \notin OnTable
  /\ th[t].pc = "lock" /\ th[t].op \in OneList \union OnTable => th[t].id \in IDs
  /\ th[t].pc = "lock" /\ th[t].op \notin OneList \union OnTable => th[t].id = 0
  /\ th[t].pc = "find" => th[t].op \in OneList /\ th[t].id \in IDs
  /\ th[t].pc \in {"use", "asking"} => th[t].op \notin OnTable
  /\ th[t].pc = "walk" => th[t].op \notin OneList \union OnTable
  /\ th[t].pc \in {"table", "unloading"} => th[t].op \in OnTable /\ th[t].id \in IDs
  /\ th[t].pc = "unloading" => th[t].op = "unreg"
  /\ th[t].pc \notin {"walk", "use", "asking"} => th[t].pass = 1
  /\ th[t].pass = 2 => th[t].op \in TwoPass

\* The lock is held for writing by the call on the table that is behind it,
\* and by nobody for reading then.
WriterAlone ==
  /\ \A t \in Threads : rw_lock.writer = t <=> th[t].op \in OnTable /\ th[t].pc \notin {"idle", "lock"}
  /\ rw_lock.writer # None => rw_lock.readers = 0

\* A list in use is in the table, and nobody uses one without the lock.
ListsInTable == \A t \in Threads :
  /\ th[t].pc \in {"use", "asking"} => th[t].list \in InUse
  /\ th[t].pc = "unloading" => th[t].id \in Present /\ th[t].list = repo[th[t].id]
  /\ th[t].pc \notin {"use", "asking", "unloading"} => th[t].list = None

\* No list has two IDs, and no list of the table is deleted.
TableOK ==
  /\ \A i, j \in Present : repo[i] = repo[j] => i = j
  /\ InUse \cap destroyed = {}

\* In its first pass a walk has met every list that is not ahead of it, and
\* in its second one it has met every list.
Walking(t) == th[t].pc \in {"walk", "use", "asking"} /\ th[t].op \notin OneList

Passes == \A t \in Threads : Walking(t) =>
  /\ th[t].pass = 1 => \A i \in Present : i \in Ahead(t) \/ repo[i] \in th[t].seen
  /\ th[t].pass = 2 => InUse \subseteq th[t].seen

IInv == TypeOK /\ Control /\ WriterAlone /\ LockBalance /\ ListsInTable /\ TableOK /\ Passes

-----------------------------------------------------------------------------
(* Counting the threads that read.                                          *)

LEMMA CallSets ==
  /\ OnTable = {"reg", "unreg"} /\ OneList = {"one"} /\ OnePass = {"all", "search"}
  /\ TwoPass = {"load", "unload"} /\ Exclusive = OnTable
  /\ Calls = {"one", "all", "search", "load", "unload", "reg", "unreg"}
BY DEF OnTable, OneList, OnePass, TwoPass, Exclusive, Calls

LEMMA ReadersFinite ==
  /\ IsFiniteSet(Reading) /\ Cardinality(Reading) \in Nat
  /\ IsFiniteSet(Asking) /\ Cardinality(Asking) \in Nat
<1>1. Reading \in SUBSET Threads /\ Asking \in SUBSET Threads
  BY DEF Reading, Asking
<1> QED BY <1>1, FS_Subset, FS_CardinalityType, FinitelyManyThreads

\* A thread that reads has a read lock to give back.
LEMMA ReaderCounted ==
  ASSUME IInv, NEW t \in Threads, th[t].op \notin Exclusive, th[t].pc \notin {"idle", "lock"}
  PROVE  t \in Reading /\ rw_lock.readers > 0 /\ rw_lock.writer = None
<1>1. t \in Reading
  BY DEF Reading
<1>2. Cardinality(Reading) > 0
  <2>1. Cardinality(Reading) # 0
    BY <1>1, ReadersFinite, FS_EmptySet
  <2> QED BY <2>1, ReadersFinite
<1>3. rw_lock.readers > 0
  <2>1. rw_lock.readers = Cardinality(Reading) + Cardinality(Asking) + 2 * unloads /\ unloads \in Nat
    BY DEF IInv, LockBalance, TypeOK
  <2> QED BY <1>2, <2>1, ReadersFinite
<1> QED BY <1>1, <1>3 DEF IInv, WriterAlone

\* Beside a writer every thread is outside of the lock.
LEMMA WriterIsAlone ==
  ASSUME IInv, NEW t \in Threads, rw_lock.writer = t
  PROVE  \A u \in Threads : u = t \/ th[u].pc \in {"idle", "lock"}
<1> SUFFICES ASSUME NEW u \in Threads, u # t, th[u].pc \notin {"idle", "lock"}
             PROVE  FALSE
  OBVIOUS
<1>1. th[u].op \notin Exclusive
  BY CallSets DEF IInv, WriterAlone
<1>2. rw_lock.writer = None
  BY <1>1, ReaderCounted
<1> QED BY <1>2, RegisteredLists

\* How the two sets change when one thread enters or leaves them.
LEMMA Enters ==
  ASSUME NEW t \in Threads, NEW S, IsFiniteSet(S), t \notin S
  PROVE  Cardinality(S \union {t}) = Cardinality(S) + 1
BY FS_AddElement

LEMMA Leaves ==
  ASSUME NEW t \in Threads, NEW S, IsFiniteSet(S), t \in S
  PROVE  Cardinality(S \ {t}) = Cardinality(S) - 1
BY FS_RemoveElement

-----------------------------------------------------------------------------
(* The initial state, and the ends of calls.                                *)

LEMMA IdleThread == \A n \in 0..MaxOps : Idle(n) \in Thread
BY DEF Idle, Thread, Calls, OneList

LEMMA InvariantInit == Init => IInv
<1> SUFFICES ASSUME Init PROVE IInv
  OBVIOUS
<1> USE DEF Init
<1>1. \A t \in Threads : th[t] = Idle(MaxOps)
  OBVIOUS
<1>2. TypeOK
  <2>1. th \in [Threads -> Thread]
    BY IdleThread, BoundedCalls
  <2> QED BY <2>1, RegisteredLists DEF TypeOK
<1>3. Control /\ ListsInTable /\ Passes
  BY <1>1, CallSets DEF Control, ListsInTable, Passes, Walking, Idle
<1>4. WriterAlone
  BY <1>1, RegisteredLists DEF WriterAlone, Idle
<1>5. LockBalance
  <2>1. Reading = {} /\ Asking = {}
    BY <1>1 DEF Reading, Asking, Idle
  <2> QED BY <2>1, FS_EmptySet DEF LockBalance
<1>6. TableOK
  BY RegisteredLists DEF TableOK, Present
<1> QED BY <1>2, <1>3, <1>4, <1>5, <1>6 DEF IInv

\* What Return makes of a thread.
LEMMA Returned ==
  ASSUME TypeOK, NEW t \in Threads, Return(t)
  PROVE  /\ th' \in [Threads -> Thread]
         /\ \A u \in Threads : u # t => th'[u] = th[u]
         /\ th'[t].pc = "idle" /\ th'[t].op = "one" /\ th'[t].pass = 1 /\ th'[t].list = None
<1>1. th[t].left \in 0..MaxOps
  BY DEF TypeOK, Thread
<1>2. th' = [th EXCEPT ![t] = Idle(th[t].left)] /\ Idle(th[t].left) \in Thread
  BY <1>1, IdleThread DEF Return
<1> QED BY <1>2 DEF TypeOK, Idle

\* A call that reads ends with unlock: an exception of findList, the end of an
\* operation or a walk, and the return from a loop.
LEMMA ReaderReturns ==
  ASSUME IInv, NEW t \in Threads, Return(t), unlock(t), UNCHANGED <<repo, destroyed, unloads>>,
         th[t].op \notin Exclusive, th[t].pc \notin {"idle", "lock", "asking"}
  PROVE  IInv'
<1>1. t \in Reading /\ rw_lock.readers > 0 /\ rw_lock.writer = None
  BY ReaderCounted
<1>2. rw_lock' = [rw_lock EXCEPT !.readers = rw_lock.readers - 1]
  BY <1>1, RegisteredLists DEF unlock
<1>3. rw_lock.readers \in Nat /\ rw_lock'.readers = rw_lock.readers - 1 /\ rw_lock'.writer = None
  BY <1>1, <1>2 DEF IInv, TypeOK
<1>4. TypeOK
  BY DEF IInv
<1>5. TypeOK'
  <2>1. rw_lock' \in [readers : Nat, writer : Threads \union {None}]
    BY <1>1, <1>2, <1>4 DEF TypeOK
  <2> QED BY <1>4, <2>1, Returned DEF TypeOK
<1>6. Control'
  BY <1>4, Returned, CallSets DEF IInv, Control
<1>7. WriterAlone'
  <2>1. \A u \in Threads : ~(th'[u].op \in OnTable /\ th'[u].pc \notin {"idle", "lock"})
    BY <1>1, <1>4, Returned, RegisteredLists DEF IInv, WriterAlone
  <2> QED BY <1>3, <2>1, RegisteredLists DEF WriterAlone
<1>8. LockBalance'
  <2>1. Reading' = Reading \ {t} /\ Asking' = Asking
    BY <1>4, Returned, CallSets DEF Reading, Asking
  <2>2. Cardinality(Reading') = Cardinality(Reading) - 1
    BY <1>1, <2>1, ReadersFinite, Leaves
  <2>3. rw_lock.readers = Cardinality(Reading) + Cardinality(Asking) + 2 * unloads /\ unloads \in Nat
    BY DEF IInv, LockBalance, TypeOK
  <2>4. rw_lock'.readers = Cardinality(Reading') + Cardinality(Asking') + 2 * unloads
    BY <1>3, <2>1, <2>2, <2>3, ReadersFinite
  <2> QED BY <2>4 DEF LockBalance
<1>9. ListsInTable' /\ TableOK' /\ Passes'
  BY <1>4, Returned, CallSets DEF IInv, ListsInTable, TableOK, Passes, Walking, InUse, Present, Ahead, Before
<1> QED BY <1>5, <1>6, <1>7, <1>8, <1>9 DEF IInv

\* A call on the table ends, whatever it did to it.
LEMMA WriterReturns ==
  ASSUME IInv, NEW t \in Threads, Return(t), unlock(t), UNCHANGED unloads,
         th[t].op \in OnTable, th[t].pc \in {"table", "unloading"},
         repo' \in [IDs -> Lists \union {None}], destroyed' \subseteq Lists, TableOK'
  PROVE  IInv'
<1>1. rw_lock.writer = t /\ rw_lock.readers = 0
  BY RegisteredLists DEF IInv, WriterAlone
<1>2. \A u \in Threads : u = t \/ th[u].pc \in {"idle", "lock"}
  BY <1>1, WriterIsAlone
<1>3. rw_lock' = [rw_lock EXCEPT !.writer = None]
  BY <1>1 DEF unlock
<1>4. TypeOK
  BY DEF IInv
<1>5. \A u \in Threads : th'[u].pc \in {"idle", "lock"}
  BY <1>2, <1>4, Returned
<1>6. TypeOK'
  BY <1>3, <1>4, Returned DEF TypeOK
<1>7. Control'
  BY <1>4, Returned, CallSets DEF IInv, Control
<1>8. WriterAlone'
  BY <1>1, <1>3, <1>4, <1>5, RegisteredLists DEF WriterAlone, TypeOK
<1>9. LockBalance'
  <2>1. Reading' = {} /\ Reading = {} /\ Asking' = {} /\ Asking = {}
    BY <1>2, <1>5, CallSets DEF Reading, Asking
  <2> QED BY <1>3, <1>4, <2>1 DEF IInv, LockBalance, TypeOK
<1>10. ListsInTable' /\ Passes'
  <2>1. \A u \in Threads : th'[u].list = None
    BY <1>2, <1>4, Returned DEF IInv, ListsInTable
  <2> QED BY <1>5, <2>1 DEF ListsInTable, Passes, Walking
<1> QED BY <1>6, <1>7, <1>8, <1>9, <1>10 DEF IInv

-----------------------------------------------------------------------------
(* Moves: steps of one thread that take no lock and change no table.        *)

\* t goes on in its call, or to the lock of a new one.
Moves(t) ==
  /\ th' \in [Threads -> Thread] /\ \A u \in Threads : u # t => th'[u] = th[u]
  /\ th'[t].pc \in {"idle", "lock"} <=> th[t].pc \in {"idle", "lock"}
  /\ th'[t].pc \notin {"idle", "lock"} => th'[t].op = th[t].op
  /\ th'[t].pc # "asking" /\ th[t].pc # "asking"
  /\ UNCHANGED <<rw_lock, repo, destroyed, unloads>>

LEMMA MoveKeepsLock ==
  ASSUME IInv, NEW t \in Threads, Moves(t)
  PROVE  TypeOK' /\ WriterAlone' /\ LockBalance' /\ TableOK'
<1> USE DEF Moves
<1>1. TypeOK'
  BY DEF IInv, TypeOK
<1>2. WriterAlone'
  BY DEF IInv, WriterAlone
<1>3. LockBalance'
  <2>1. Reading' = Reading /\ Asking' = Asking
    BY DEF Reading, Asking
  <2> QED BY <2>1 DEF IInv, LockBalance
<1>4. TableOK'
  BY DEF IInv, TableOK, InUse, Present
<1> QED BY <1>1, <1>2, <1>3, <1>4

\* What the other threads are at does not change.
LEMMA OthersPass ==
  ASSUME Passes, NEW t \in Threads, NEW u \in Threads, th'[u] = th[u], UNCHANGED repo
  PROVE  Walking(u)' =>
           /\ th'[u].pass = 1 => \A i \in Present' : i \in Ahead(u)' \/ repo'[i] \in th'[u].seen
           /\ th'[u].pass = 2 => InUse' \subseteq th'[u].seen
BY DEF Passes, Walking, InUse, Present, Ahead, Before

LEMMA CallInv ==
  ASSUME IInv, NEW t \in Threads, NEW op \in Calls, NEW id \in IDs \union {0}, Call(t, op, id)
  PROVE  IInv'
<1> DEFINE new == [Idle(th[t].left - 1) EXCEPT !.pc = "lock", !.op = op, !.id = id]
<1>1. TypeOK /\ th[t].left \in 0..MaxOps /\ th[t].left > 0 /\ th[t].pc = "idle"
  BY DEF IInv, TypeOK, Thread, Call, At
<1>2. new \in Thread /\ new.pc = "lock" /\ new.op = op /\ new.id = id /\ new.pass = 1 /\ new.list = None
  <2>1. th[t].left - 1 \in 0..MaxOps
    BY <1>1, BoundedCalls
  <2>2. Idle(th[t].left - 1) \in Thread
    BY <2>1, IdleThread
  <2>3. new \in Thread
    BY <2>2 DEF Thread
  <2> QED BY <2>3 DEF Idle
<1>3. th' = [th EXCEPT ![t] = new] /\ UNCHANGED <<rw_lock, repo, destroyed, unloads>>
  BY DEF Call
<1>4. th' \in [Threads -> Thread] /\ th'[t] = new /\ \A u \in Threads : u # t => th'[u] = th[u]
  BY <1>1, <1>2, <1>3 DEF TypeOK
<1> HIDE DEF new
<1>5. Moves(t)
  BY <1>1, <1>2, <1>3, <1>4 DEF Moves
<1>6. Control'
  <2>1. id # 0 <=> op \in OneList \union OnTable
    BY DEF Call
  <2> QED BY <1>2, <1>4, <2>1, CallSets DEF IInv, Control
<1>7. ListsInTable'
  BY <1>2, <1>3, <1>4 DEF IInv, ListsInTable, InUse, Present
<1>8. Passes'
  <2>1. ~Walking(t)'
    BY <1>2, <1>4 DEF Walking
  <2> QED BY <1>3, <1>4, <2>1, OthersPass DEF IInv, Passes
<1> QED BY <1>5, <1>6, <1>7, <1>8, MoveKeepsLock DEF IInv

LEMMA FindListInv ==
  ASSUME IInv, NEW t \in Threads, FindList(t)
  PROVE  IInv'
<1>1. th[t].pc = "find" /\ th[t].op \in OneList /\ th[t].id \in IDs
  BY DEF FindList, At, IInv, Control
<1>2. CASE repo[th[t].id] = None
  BY <1>1, <1>2, ReaderReturns, CallSets DEF FindList
<1>3. CASE repo[th[t].id] # None
  <2> DEFINE new == [th[t] EXCEPT !.list = repo[th[t].id], !.pc = "use"]
  <2>1. th' = [th EXCEPT ![t] = new] /\ UNCHANGED <<rw_lock, repo, destroyed, unloads>>
    BY <1>3 DEF FindList, IInv, TypeOK, Thread
  <2>2. new \in Thread /\ new.pc = "use" /\ new.op = th[t].op /\ new.pass = th[t].pass
        /\ new.list = repo[th[t].id] /\ new.list \in InUse
    BY <1>1, <1>3 DEF IInv, TypeOK, Thread, InUse, Present
  <2>3. th' \in [Threads -> Thread] /\ th'[t] = new /\ \A u \in Threads : u # t => th'[u] = th[u]
    BY <2>1, <2>2 DEF IInv, TypeOK
  <2> HIDE DEF new
  <2>4. Moves(t)
    BY <1>1, <2>1, <2>2, <2>3 DEF Moves
  <2>5. Control'
    BY <1>1, <2>2, <2>3, CallSets DEF IInv, Control
  <2>6. ListsInTable'
    BY <2>1, <2>2, <2>3 DEF IInv, ListsInTable, InUse, Present
  <2>7. Passes'
    <3>1. ~Walking(t)'
      BY <1>1, <2>2, <2>3 DEF Walking
    <3> QED BY <2>1, <2>3, <3>1, OthersPass DEF IInv, Passes
  <2> QED BY <2>4, <2>5, <2>6, <2>7, MoveKeepsLock DEF IInv
<1> QED BY <1>2, <1>3

LEMMA VisitInv ==
  ASSUME IInv, NEW t \in Threads, Visit(t)
  PROVE  IInv'
<1>1. PICK next \in Ahead(t) :
        /\ \A i \in Ahead(t) : i = next \/ Before(t, next, i)
        /\ th' = [th EXCEPT ![t].id = next, ![t].list = repo[next], ![t].pc = "use",
                           ![t].seen = IF th[t].pass = 1 THEN @ \union {repo[next]} ELSE @]
  BY DEF Visit
<1>2. th[t].pc = "walk" /\ th[t].op \notin OneList \union OnTable /\ next \in Present
      /\ UNCHANGED <<rw_lock, repo, destroyed, unloads>>
  BY DEF Visit, At, IInv, Control, Ahead
<1> DEFINE new == [th[t] EXCEPT !.id = next, !.list = repo[next], !.pc = "use",
                        !.seen = IF th[t].pass = 1 THEN @ \union {repo[next]} ELSE @]
<1>3. th' = [th EXCEPT ![t] = new]
  BY <1>1 DEF IInv, TypeOK, Thread
<1>4. new \in Thread /\ new.pc = "use" /\ new.op = th[t].op /\ new.pass = th[t].pass /\ new.id = next
      /\ new.list = repo[next] /\ new.list \in InUse
      /\ new.seen = IF th[t].pass = 1 THEN th[t].seen \union {repo[next]} ELSE th[t].seen
  BY <1>1, <1>2 DEF IInv, TypeOK, Thread, InUse, Present
<1>5. th' \in [Threads -> Thread] /\ th'[t] = new /\ \A u \in Threads : u # t => th'[u] = th[u]
  BY <1>3, <1>4 DEF IInv, TypeOK
<1> HIDE DEF new
<1>6. Moves(t)
  BY <1>2, <1>4, <1>5 DEF Moves
<1>7. Control'
  BY <1>2, <1>4, <1>5, CallSets DEF IInv, Control
<1>8. ListsInTable'
  BY <1>2, <1>4, <1>5 DEF IInv, ListsInTable, InUse, Present
<1>9. Passes'
  <2>1. Walking(t) /\ th[t].pass \in 1..2
    BY <1>2 DEF Walking, IInv, TypeOK, Thread
  <2>2. ASSUME th[t].pass = 1, NEW i \in Present
        PROVE  i \in Ahead(t)' \/ repo'[i] \in th'[t].seen
    <3>1. CASE i \notin Ahead(t)
      BY <1>2, <1>4, <1>5, <2>1, <2>2, <3>1 DEF IInv, Passes
    <3>2. CASE i \in Ahead(t) /\ i # next
      <4>1. Before(t, next, i) /\ next # 0
        BY <1>1, <1>2, <3>2, IDsAreOrdered DEF Present
      <4> QED BY <1>2, <1>4, <1>5, <4>1 DEF Ahead, Present, Before
    <3>3. CASE i = next
      BY <1>2, <1>4, <1>5, <2>2, <3>3
    <3> QED BY <3>1, <3>2, <3>3
  <2>3. th[t].pass = 2 => InUse \subseteq th'[t].seen
    BY <1>4, <1>5, <2>1 DEF IInv, Passes
  <2>4. Present' = Present /\ InUse' = InUse
    BY <1>2 DEF Present, InUse
  <2> QED BY <1>2, <1>4, <1>5, <2>1, <2>2, <2>3, <2>4, OthersPass DEF IInv, Passes
<1> QED BY <1>6, <1>7, <1>8, <1>9, MoveKeepsLock DEF IInv

LEMMA LeftInv ==
  ASSUME IInv, NEW t \in Threads, Left(t)
  PROVE  IInv'
<1>1. th[t].pc = "use" /\ th[t].op \notin OneList \union OnTable
      /\ UNCHANGED <<rw_lock, repo, destroyed, unloads>>
  BY DEF Left, At, IInv, Control
<1> DEFINE new == [th[t] EXCEPT !.pc = "walk", !.list = None]
<1>2. th' = [th EXCEPT ![t] = new]
  BY DEF Left, IInv, TypeOK, Thread
<1>3. new \in Thread /\ new.pc = "walk" /\ new.op = th[t].op /\ new.pass = th[t].pass /\ new.id = th[t].id
      /\ new.list = None /\ new.seen = th[t].seen
  BY DEF IInv, TypeOK, Thread
<1>4. th' \in [Threads -> Thread] /\ th'[t] = new /\ \A u \in Threads : u # t => th'[u] = th[u]
  BY <1>2, <1>3 DEF IInv, TypeOK
<1> HIDE DEF new
<1>5. Moves(t)
  BY <1>1, <1>3, <1>4 DEF Moves
<1>6. Control'
  BY <1>1, <1>3, <1>4, CallSets DEF IInv, Control
<1>7. ListsInTable'
  BY <1>1, <1>3, <1>4 DEF IInv, ListsInTable, InUse, Present
<1>8. Passes'
  <2>1. Walking(t)
    BY <1>1 DEF Walking
  <2>2. /\ th'[t].pass = 1 => \A i \in Present' : i \in Ahead(t)' \/ repo'[i] \in th'[t].seen
        /\ th'[t].pass = 2 => InUse' \subseteq th'[t].seen
    BY <1>1, <1>3, <1>4, <2>1 DEF IInv, Passes, Ahead, Before, Present, InUse
  <2> QED BY <1>1, <1>4, <2>2, OthersPass DEF IInv, Passes
<1> QED BY <1>5, <1>6, <1>7, <1>8, MoveKeepsLock DEF IInv

LEMMA SecondPassInv ==
  ASSUME IInv, NEW t \in Threads, SecondPass(t)
  PROVE  IInv'
<1>1. th[t].pc = "walk" /\ th[t].op \in TwoPass /\ th[t].pass = 1 /\ Ahead(t) = {}
      /\ UNCHANGED <<rw_lock, repo, destroyed, unloads>>
  BY DEF SecondPass, At
<1> DEFINE new == [th[t] EXCEPT !.pass = 2, !.id = 0]
<1>2. th' = [th EXCEPT ![t] = new]
  BY DEF SecondPass, IInv, TypeOK, Thread
<1>3. new \in Thread /\ new.pc = "walk" /\ new.op = th[t].op /\ new.pass = 2 /\ new.id = 0
      /\ new.list = th[t].list /\ new.seen = th[t].seen
  <2>1. th[t] \in Thread
    BY DEF IInv, TypeOK
  <2> HIDE DEF IInv
  <2>2. new.pc = "walk" /\ new.op = th[t].op /\ new.pass = 2 /\ new.id = 0
        /\ new.list = th[t].list /\ new.seen = th[t].seen
    BY <1>1, <2>1 DEF Thread
  <2>3. new \in Thread
    <3>1. [th[t] EXCEPT !.pass = 2] \in Thread
      BY <2>1 DEF Thread
    <3> QED BY <3>1 DEF Thread
  <2> QED BY <2>2, <2>3
<1>4. th' \in [Threads -> Thread] /\ th'[t] = new /\ \A u \in Threads : u # t => th'[u] = th[u]
  BY <1>2, <1>3 DEF IInv, TypeOK
<1> HIDE DEF new
<1>5. Moves(t)
  BY <1>1, <1>3, <1>4 DEF Moves
<1>6. Control'
  BY <1>1, <1>3, <1>4, CallSets DEF IInv, Control
<1>7. ListsInTable'
  BY <1>1, <1>3, <1>4 DEF IInv, ListsInTable, InUse, Present
<1>8. Passes'
  <2>1. \A i \in Present : repo[i] \in th[t].seen
    BY <1>1, CallSets DEF Walking, IInv, Passes
  <2>2. InUse' \subseteq th'[t].seen
    BY <1>1, <1>3, <1>4, <2>1 DEF InUse, Present
  <2> QED BY <1>1, <1>3, <1>4, <2>2, OthersPass DEF IInv, Passes
<1> QED BY <1>5, <1>6, <1>7, <1>8, MoveKeepsLock DEF IInv

-----------------------------------------------------------------------------
(* Steps that take or give back the lock.                                   *)

LEMMA LockInv ==
  ASSUME IInv, NEW t \in Threads, Lock(t)
  PROVE  IInv'
<1> DEFINE place == CASE th[t].op \in OnTable -> "table" [] th[t].op \in OneList -> "find" [] OTHER -> "walk"
           new   == [th[t] EXCEPT !.pc = place]
<1>1. TypeOK /\ th[t] \in Thread /\ th[t].pc = "lock" /\ th[t].pass = 1 /\ th[t].list = None
      /\ UNCHANGED <<repo, destroyed, unloads>>
  BY DEF Lock, At, IInv, TypeOK, Control, ListsInTable
<1>2. /\ th[t].op \in OnTable => place = "table"
      /\ th[t].op \in OneList => place = "find"
      /\ th[t].op \notin OneList \union OnTable => place = "walk"
  BY CallSets
<1>3. place \in {"table", "find", "walk"}
  BY <1>2
<1>4. th' = [th EXCEPT ![t] = new]
  BY <1>1 DEF Lock, TypeOK
<1> HIDE DEF place
<1>5. new \in Thread /\ new.pc = place /\ new.op = th[t].op /\ new.pass = 1 /\ new.list = None /\ new.id = th[t].id
  BY <1>1, <1>3 DEF Thread
<1> HIDE DEF new
<1>6. th' \in [Threads -> Thread] /\ th'[t] = new /\ \A u \in Threads : u # t => th'[u] = th[u]
  BY <1>1, <1>4, <1>5 DEF TypeOK
<1>7. Control'
  BY <1>1, <1>2, <1>3, <1>5, <1>6, CallSets DEF IInv, Control
<1>8. ListsInTable' /\ TableOK'
  BY <1>1, <1>3, <1>5, <1>6 DEF IInv, ListsInTable, TableOK, InUse, Present
<1>9. Passes'
  <2>1. Walking(t)' => th'[t].pass = 1 /\ th'[t].id = 0
    BY <1>1, <1>2, <1>3, <1>5, <1>6 DEF Walking, IInv, Control
  <2>2. Walking(t)' => th'[t].pass = 1 /\ \A i \in Present' : i \in Ahead(t)'
    BY <2>1 DEF Ahead
  <2> QED BY <1>1, <1>6, <2>2, OthersPass DEF IInv, Passes
<1>10. CASE th[t].op \in OnTable
  <2>1. rw_lock.readers = 0 /\ rw_lock.writer = None /\ rw_lock' = [rw_lock EXCEPT !.writer = t]
    BY <1>10, CallSets DEF Lock, wrlock
  <2>2. TypeOK' /\ rw_lock'.readers = 0 /\ rw_lock'.writer = t
    BY <1>1, <1>6, <2>1 DEF TypeOK
  <2>3. \A u \in Threads : ~(th[u].op \in OnTable /\ th[u].pc \notin {"idle", "lock"})
    BY <2>1, RegisteredLists DEF IInv, WriterAlone
  <2>4. WriterAlone'
    BY <1>3, <1>5, <1>6, <1>10, <2>2, <2>3 DEF WriterAlone
  <2>5. LockBalance'
    <3>1. Reading' = Reading /\ Asking' = Asking
      BY <1>1, <1>3, <1>5, <1>6, <1>10, CallSets DEF Reading, Asking
    <3> QED BY <1>1, <2>1, <2>2, <3>1 DEF IInv, LockBalance
  <2> QED BY <1>7, <1>8, <1>9, <2>2, <2>4, <2>5 DEF IInv
<1>11. CASE th[t].op \notin OnTable
  <2>1. rw_lock.writer = None /\ rw_lock' = [rw_lock EXCEPT !.readers = rw_lock.readers + 1]
    BY <1>11, CallSets DEF Lock, rdlock
  <2>2. TypeOK' /\ rw_lock'.readers = rw_lock.readers + 1 /\ rw_lock'.writer = None
    BY <1>1, <1>6, <2>1 DEF TypeOK
  <2>3. WriterAlone'
    BY <1>3, <1>5, <1>6, <1>11, <2>1, <2>2, RegisteredLists DEF IInv, WriterAlone
  <2>4. LockBalance'
    <3>1. Reading' = Reading \union {t} /\ t \notin Reading /\ Asking' = Asking
      BY <1>1, <1>3, <1>5, <1>6, <1>11, CallSets DEF Reading, Asking
    <3>2. Cardinality(Reading') = Cardinality(Reading) + 1
      BY <3>1, ReadersFinite, Enters
    <3>3. rw_lock.readers = Cardinality(Reading) + Cardinality(Asking) + 2 * unloads /\ unloads \in Nat
      BY DEF IInv, LockBalance, TypeOK
    <3>4. rw_lock'.readers = Cardinality(Reading') + Cardinality(Asking') + 2 * unloads
      BY <2>2, <3>1, <3>2, <3>3, ReadersFinite
    <3> QED BY <1>1, <3>4 DEF LockBalance
  <2> QED BY <1>7, <1>8, <1>9, <2>2, <2>3, <2>4 DEF IInv
<1> QED BY <1>10, <1>11

\* A query from within an operation: the thread stays where it is in its call.
Queries(t, pc) ==
  /\ th' \in [Threads -> Thread] /\ \A u \in Threads : u # t => th'[u] = th[u]
  /\ th[t].pc \in {"use", "asking"} /\ pc \in {"use", "asking"} /\ th'[t].pc = pc
  /\ th'[t].op = th[t].op /\ th'[t].id = th[t].id /\ th'[t].list = th[t].list
  /\ th'[t].pass = th[t].pass /\ th'[t].seen = th[t].seen
  /\ UNCHANGED <<repo, destroyed, unloads>>

LEMMA QueryKeepsCall ==
  ASSUME IInv, NEW t \in Threads, NEW pc, Queries(t, pc)
  PROVE  Control' /\ ListsInTable' /\ TableOK' /\ Passes' /\ Reading' = Reading
<1> USE DEF Queries
<1>1. Control'
  BY CallSets DEF IInv, Control
<1>2. ListsInTable' /\ TableOK'
  BY DEF IInv, ListsInTable, TableOK, InUse, Present
<1>3. Passes'
  <2>1. Walking(t)' =>
          /\ th'[t].pass = 1 => \A i \in Present' : i \in Ahead(t)' \/ repo'[i] \in th'[t].seen
          /\ th'[t].pass = 2 => InUse' \subseteq th'[t].seen
    BY DEF IInv, Passes, Walking, Ahead, Before, Present, InUse
  <2> QED BY <2>1, OthersPass DEF IInv, Passes
<1>4. Reading' = Reading
  BY DEF Reading
<1> QED BY <1>1, <1>2, <1>3, <1>4

LEMMA AskInv ==
  ASSUME IInv, NEW t \in Threads, Ask(t)
  PROVE  IInv'
<1>1. TypeOK /\ th[t] \in Thread /\ th[t].pc = "use" /\ UNCHANGED <<repo, destroyed, unloads>>
  BY DEF Ask, At, IInv, TypeOK
<1> DEFINE new == [th[t] EXCEPT !.pc = "asking", !.asked = TRUE]
<1>2. th' = [th EXCEPT ![t] = new] /\ new \in Thread
  BY <1>1 DEF Ask, TypeOK, Thread
<1>3. Queries(t, "asking")
  BY <1>1, <1>2 DEF Queries, TypeOK, Thread
<1>4. rw_lock.writer = None /\ rw_lock' = [rw_lock EXCEPT !.readers = rw_lock.readers + 1]
  BY DEF Ask, rdlock
<1>5. TypeOK' /\ rw_lock'.readers = rw_lock.readers + 1 /\ rw_lock'.writer = None
  BY <1>1, <1>3, <1>4 DEF TypeOK, Queries
<1>6. WriterAlone'
  BY <1>1, <1>3, <1>4, <1>5, RegisteredLists DEF IInv, WriterAlone, Queries
<1>7. LockBalance'
  <2>1. Asking' = Asking \union {t} /\ t \notin Asking
    BY <1>1, <1>3 DEF Asking, Queries
  <2>2. Cardinality(Asking') = Cardinality(Asking) + 1
    BY <2>1, ReadersFinite, Enters
  <2>3. rw_lock.readers = Cardinality(Reading) + Cardinality(Asking) + 2 * unloads /\ unloads \in Nat
    BY DEF IInv, LockBalance, TypeOK
  <2>4. rw_lock'.readers = Cardinality(Reading) + Cardinality(Asking') + 2 * unloads
    BY <1>5, <2>2, <2>3, ReadersFinite
  <2> QED BY <1>1, <1>3, <2>4, QueryKeepsCall DEF LockBalance
<1> QED BY <1>3, <1>5, <1>6, <1>7, QueryKeepsCall DEF IInv

LEMMA AskedInv ==
  ASSUME IInv, NEW t \in Threads, Asked(t)
  PROVE  IInv'
<1>1. TypeOK /\ th[t] \in Thread /\ th[t].pc = "asking" /\ UNCHANGED <<repo, destroyed, unloads>>
  BY DEF Asked, At, IInv, TypeOK
<1> DEFINE new == [th[t] EXCEPT !.pc = "use"]
<1>2. th' = [th EXCEPT ![t] = new] /\ new \in Thread
  BY <1>1 DEF Asked, TypeOK, Thread
<1>3. Queries(t, "use")
  BY <1>1, <1>2 DEF Queries, TypeOK, Thread
<1>4. rw_lock.readers > 0 /\ rw_lock.writer = None
  BY <1>1, ReaderCounted, CallSets DEF IInv, Control
<1>5. rw_lock' = [rw_lock EXCEPT !.readers = rw_lock.readers - 1]
  BY <1>4, RegisteredLists DEF Asked, unlock
<1>6. TypeOK' /\ rw_lock'.readers = rw_lock.readers - 1 /\ rw_lock'.writer = None
  <2>1. rw_lock.readers - 1 \in Nat
    BY <1>1, <1>4 DEF TypeOK
  <2> QED BY <1>1, <1>3, <1>4, <1>5, <2>1 DEF TypeOK, Queries
<1>7. WriterAlone'
  BY <1>1, <1>3, <1>4, <1>6, RegisteredLists DEF IInv, WriterAlone, Queries
<1>8. LockBalance'
  <2>1. Asking' = Asking \ {t} /\ t \in Asking
    BY <1>1, <1>3 DEF Asking, Queries
  <2>2. Cardinality(Asking') = Cardinality(Asking) - 1
    BY <2>1, ReadersFinite, Leaves
  <2>3. rw_lock.readers = Cardinality(Reading) + Cardinality(Asking) + 2 * unloads /\ unloads \in Nat
    BY DEF IInv, LockBalance, TypeOK
  <2>4. rw_lock'.readers = Cardinality(Reading) + Cardinality(Asking') + 2 * unloads
    BY <1>6, <2>2, <2>3, ReadersFinite
  <2> QED BY <1>1, <1>3, <2>4, QueryKeepsCall DEF LockBalance
<1> QED BY <1>3, <1>6, <1>7, <1>8, QueryKeepsCall DEF IInv

\* The call that keeps its own read lock and takes another one.
LEMMA UnloadedInv ==
  ASSUME IInv, NEW t \in Threads, Unloaded(t)
  PROVE  IInv'
<1>1. TypeOK /\ Return(t) /\ th[t].pc = "walk" /\ th[t].op = "unload"
      /\ unloads' = unloads + 1 /\ UNCHANGED <<repo, destroyed>>
  BY DEF Unloaded, WalkEnds, At, IInv
<1>2. rw_lock.writer = None /\ rw_lock' = [rw_lock EXCEPT !.readers = rw_lock.readers + 1]
  BY DEF Unloaded, rdlock
<1>3. TypeOK' /\ rw_lock'.readers = rw_lock.readers + 1 /\ rw_lock'.writer = None
  BY <1>1, <1>2, Returned DEF TypeOK
<1>4. Control'
  BY <1>1, Returned, CallSets DEF IInv, Control
<1>5. WriterAlone'
  BY <1>1, <1>2, <1>3, Returned, RegisteredLists DEF IInv, WriterAlone
<1>6. LockBalance'
  <2>1. Reading' = Reading \ {t} /\ t \in Reading /\ Asking' = Asking
    BY <1>1, Returned, CallSets DEF Reading, Asking
  <2>2. Cardinality(Reading') = Cardinality(Reading) - 1
    BY <2>1, ReadersFinite, Leaves
  <2>3. rw_lock.readers = Cardinality(Reading) + Cardinality(Asking) + 2 * unloads /\ unloads \in Nat
    BY DEF IInv, LockBalance, TypeOK
  <2>4. rw_lock'.readers = Cardinality(Reading') + Cardinality(Asking') + 2 * unloads'
    BY <1>1, <1>3, <2>1, <2>2, <2>3, ReadersFinite
  <2> QED BY <2>4 DEF LockBalance
<1>7. ListsInTable' /\ TableOK'
  BY <1>1, Returned DEF IInv, ListsInTable, TableOK, InUse, Present
<1>8. Passes'
  <2>1. ~Walking(t)'
    BY <1>1, Returned DEF Walking
  <2> QED BY <1>1, <2>1, Returned, OthersPass DEF IInv, Passes
<1> QED BY <1>3, <1>4, <1>5, <1>6, <1>7, <1>8 DEF IInv

-----------------------------------------------------------------------------
(* Steps that change the table.                                             *)

LEMMA regObjListInv ==
  ASSUME IInv, NEW t \in Threads, regObjList(t)
  PROVE  IInv'
<1>1. TypeOK /\ TableOK /\ th[t].pc = "table" /\ th[t].op \in OnTable /\ th[t].id \in IDs
      /\ Return(t) /\ unlock(t) /\ UNCHANGED <<destroyed, unloads>>
  BY DEF regObjList, At, IInv, Control
<1>2. CASE UNCHANGED repo
  BY <1>1, <1>2, WriterReturns DEF TypeOK, TableOK, InUse, Present
<1>3. ASSUME NEW l \in Lists \ (InUse \union destroyed), th[t].id \notin Present,
             repo' = [repo EXCEPT ![th[t].id] = l]
      PROVE  IInv'
  <2>1. repo' \in [IDs -> Lists \union {None}] /\ repo'[th[t].id] = l
        /\ \A i \in IDs : i # th[t].id => repo'[i] = repo[i]
    BY <1>1, <1>3 DEF TypeOK
  <2>2. \A i \in Present : repo[i] # l
    BY <1>3 DEF InUse
  <2>3. Present' = Present \union {th[t].id}
    BY <1>1, <1>3, <2>1, RegisteredLists DEF Present
  <2>4. TableOK'
    BY <1>1, <1>3, <2>1, <2>2, <2>3 DEF TableOK, InUse, Present
  <2> QED BY <1>1, <2>1, <2>4, WriterReturns DEF TypeOK
<1> QED BY <1>2, <1>3 DEF regObjList

LEMMA UnloadListInv ==
  ASSUME IInv, NEW t \in Threads, UnloadList(t)
  PROVE  IInv'
<1>1. TypeOK /\ TableOK /\ th[t] \in Thread /\ th[t].pc = "table" /\ th[t].op = "unreg" /\ th[t].id \in IDs
      /\ th[t].pass = 1 /\ UNCHANGED <<repo, destroyed, unloads>>
  BY DEF UnloadList, At, IInv, TypeOK, Control
<1>2. CASE th[t].id \notin Present
  BY <1>1, <1>2, WriterReturns, CallSets DEF UnloadList, TypeOK, TableOK, InUse, Present
<1>3. CASE th[t].id \in Present
  <2> DEFINE new == [th[t] EXCEPT !.pc = "unloading", !.list = repo[th[t].id]]
  <2>1. th' = [th EXCEPT ![t] = new] /\ UNCHANGED rw_lock /\ repo[th[t].id] \in Lists
    BY <1>1, <1>3 DEF UnloadList, TypeOK, Present
  <2>2. new \in Thread /\ new.pc = "unloading" /\ new.op = th[t].op /\ new.pass = 1
        /\ new.list = repo[th[t].id] /\ new.id = th[t].id
    BY <1>1, <2>1 DEF Thread
  <2>3. th' \in [Threads -> Thread] /\ th'[t] = new /\ \A u \in Threads : u # t => th'[u] = th[u]
    BY <1>1, <2>1, <2>2 DEF TypeOK
  <2> HIDE DEF new
  <2>4. Moves(t)
    BY <1>1, <2>1, <2>2, <2>3 DEF Moves
  <2>5. Control'
    BY <1>1, <2>2, <2>3, CallSets DEF IInv, Control
  <2>6. ListsInTable'
    BY <1>1, <1>3, <2>2, <2>3 DEF IInv, ListsInTable, InUse, Present
  <2>7. Passes'
    <3>1. ~Walking(t)'
      BY <2>2, <2>3 DEF Walking
    <3> QED BY <1>1, <2>3, <3>1, OthersPass DEF IInv, Passes
  <2> QED BY <2>4, <2>5, <2>6, <2>7, MoveKeepsLock DEF IInv
<1> QED BY <1>2, <1>3

LEMMA DeleteListInv ==
  ASSUME IInv, NEW t \in Threads, DeleteList(t)
  PROVE  IInv'
<1>1. TypeOK /\ TableOK /\ th[t].pc = "unloading" /\ th[t].op \in OnTable /\ th[t].id \in Present
      /\ th[t].list = repo[th[t].id] /\ Return(t) /\ unlock(t) /\ UNCHANGED unloads
      /\ destroyed' = destroyed \union {th[t].list} /\ repo' = [repo EXCEPT ![th[t].id] = None]
  BY DEF DeleteList, At, IInv, Control, ListsInTable
<1>2. repo' \in [IDs -> Lists \union {None}] /\ repo'[th[t].id] = None
      /\ \A i \in IDs : i # th[t].id => repo'[i] = repo[i]
  BY <1>1 DEF TypeOK, Present
<1>3. destroyed' \subseteq Lists
  BY <1>1 DEF TypeOK, Present
<1>4. Present' = Present \ {th[t].id}
  BY <1>1, <1>2 DEF Present
<1>5. TableOK'
  <2>1. \A i, j \in Present' : repo'[i] = repo'[j] => i = j
    BY <1>1, <1>2, <1>4 DEF TableOK, Present
  <2>2. \A i \in Present' : repo'[i] # th[t].list /\ repo'[i] \notin destroyed
    BY <1>1, <1>2, <1>4 DEF TableOK, InUse, Present
  <2> QED BY <1>1, <2>1, <2>2 DEF TableOK, InUse
<1> QED BY <1>1, <1>2, <1>3, <1>5, WriterReturns

-----------------------------------------------------------------------------
(* Every step, and what the invariant says.                                 *)

LEMMA InvariantStep == IInv /\ [Next]_vars => IInv'
<1> SUFFICES ASSUME IInv, [Next]_vars PROVE IInv'
  OBVIOUS
<1>1. CASE UNCHANGED vars
  BY <1>1 DEF vars, IInv, TypeOK, Control, WriterAlone, LockBalance, Reading, Asking, ListsInTable,
              TableOK, Passes, Walking, Ahead, Before, InUse, Present
<1>2. ASSUME NEW t \in Threads, NEW op \in Calls, NEW id \in IDs \union {0}, Call(t, op, id)
      PROVE  IInv'
  BY <1>2, CallInv
<1>3. ASSUME NEW t \in Threads, Step(t)
      PROVE  IInv'
  <2>1. CASE Used(t)
    BY <2>1, ReaderReturns, CallSets DEF Used, At
  <2>2. CASE Found(t)
    BY <2>2, ReaderReturns, CallSets DEF Found, At
  <2>3. CASE Walked(t)
    BY <2>3, ReaderReturns, CallSets DEF Walked, WalkEnds, At, IInv, Control
  <2> QED BY <1>3, <2>1, <2>2, <2>3, LockInv, FindListInv, AskInv, AskedInv, VisitInv, LeftInv,
             SecondPassInv, UnloadedInv, regObjListInv, UnloadListInv, DeleteListInv DEF Step
<1> QED BY <1>1, <1>2, <1>3 DEF Next

LEMMA Invariant == Spec => []IInv
BY InvariantInit, InvariantStep, PTL DEF Spec

\* The states are of their types: a lock is never given back that was not
\* taken, whatever path a call takes, and a list has at most one owner.
THEOREM TypeCorrect == Spec => []TypeOK
<1>1. IInv => TypeOK
  BY DEF IInv
<1> QED BY <1>1, Invariant, PTL

\* rw_lock counts the calls in progress, the queries from within them, and
\* two more for every unload() that returned.
THEOREM LockIsBalanced == Spec => []LockBalance
<1>1. IInv => LockBalance
  BY DEF IInv
<1> QED BY <1>1, Invariant, PTL

\* unregObjList deletes no list another call, or walk, is using.
THEOREM UsedListsAreAlive == Spec => []UsedListsExist
<1>1. IInv => UsedListsExist
  <2> SUFFICES ASSUME IInv, NEW t \in Threads PROVE th[t].list \notin destroyed
    BY DEF UsedListsExist
  <2>1. InUse \cap destroyed = {} /\ None \notin destroyed
    BY RegisteredLists DEF IInv, TableOK, TypeOK
  <2>2. th[t].list \in InUse \/ th[t].list = None
    BY DEF IInv, ListsInTable, InUse
  <2> QED BY <2>1, <2>2
<1> QED BY <1>1, Invariant, PTL

\* load() adds no list it has not loaded, and unload() unloads none it has not
\* disconnected, whatever the other threads register in between.
THEOREM PassesAreComplete == Spec => []FirstPassComplete
<1>1. IInv => FirstPassComplete
  <2> SUFFICES ASSUME IInv, NEW t \in Threads, th[t].pass = 2 PROVE InUse \subseteq th[t].seen
    BY DEF FirstPassComplete
  <2>1. Walking(t)
    BY CallSets DEF IInv, Control, Walking
  <2> QED BY <2>1 DEF IInv, Passes
<1> QED BY <1>1, Invariant, PTL
=============================================================================
