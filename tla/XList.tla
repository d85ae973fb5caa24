------------------------------- MODULE XList -------------------------------
(***************************************************************************)
(* pparam::XList (include/xlist.hpp), the list on which every other class  *)
(* of the library stands: readers iterate without a list lock, one writer  *)
(* at a time changes the list, and an erased node is destroyed in the      *)
(* background once nobody uses it.                                         *)
(*                                                                         *)
(* A node counts its users in usageNO: one for every iterator on it and    *)
(* one for every next/prev pointer that leads to it.  The pointers of an   *)
(* erased node stay as they were, so that its iterators can go on, and     *)
(* keep their neighbours counted until the node is destroyed.              *)
(*                                                                         *)
(* Granularity: one action per atomic access to shared state that another  *)
(* thread can observe.  chNextPrev (lock, assign, unlock), fini (lock,     *)
(* release, unlock) and a pass of the waitForUsage loop hold one node lock *)
(* and no other, so each is one action guarded by that lock being free;    *)
(* operator++/-- release one node and access another under the lock of the *)
(* first, and are split at every access.                                   *)
(***************************************************************************)
EXTENDS Integers, FiniteSets

CONSTANTS MaxNode,   \* bound: nodes ever created
          Iters      \* iterator objects of the client threads

ASSUME XListAssumption == MaxNode \in Nat /\ IsFiniteSet(Iters)

Null   == -1         \* NULL
End    == 0          \* the list's sentinel node, _M_impl._M_node
Nodes  == 1..MaxNode \* nodes in the order push_back creates them
Places == 0..MaxNode

VARIABLES
  M_next, M_prev,  \* _XListNode_base::_M_next, _M_prev
  usageNO,         \* atomic_uint; a negative value stands for a wrapped one
  sleeping,        \* nodes whose destructor sleeps on usage_cond
  phase,           \* how far push_back / xerase_prepare / xerase got, per node
  writer,          \* the call in the caller's critical section: "push_back",
                   \* "erasing" (some step of xerase_prepare or erase) or "none"
  M_node,          \* XListIterator::_M_node
  lockedNode,      \* the node whose n_lock the iterator's thread holds
  pc               \* where the iterator's current operation stands

nodeVars == <<M_next, M_prev, phase, writer>>
useVars  == <<usageNO, sleeping>>
iterVars == <<M_node, lockedNode, pc>>
vars     == <<M_next, M_prev, phase, writer, usageNO, sleeping, M_node, lockedNode, pc>>

-----------------------------------------------------------------------------
(* Phases of a node.  "unborn"; "pushed" (created) and "chained" (the old   *)
(* last node leads to it) inside push_back; "linked"; "flagged" (is_erasing *)
(* set, prev accessed) and "bypassed" (next node leads round it) inside     *)
(* xerase_prepare; "unlinked"; "captured" (an eraser thread holds a copy of *)
(* the iterator); "waiting" (in ~XListNode); then destroyed: "freed",       *)
(* "nextReleased", "prevReleased", "done".                                  *)
Phases == {"unborn", "pushed", "chained", "linked", "flagged", "bypassed", "unlinked",
           "captured", "waiting", "freed", "nextReleased", "prevReleased", "done"}

Destroyed(n) == phase[n] \in {"freed", "nextReleased", "prevReleased", "done"}

\* _XListNode_base::is_erasing: set by erasing(), never cleared.
is_erasing(n) == phase[n] \notin {"unborn", "pushed", "chained", "linked"}

Locked(n) == \E i \in Iters : lockedNode[i] = n

\* dec_usage: atomic decrement, and a signal when nothing is left.
Release(u, n)   == [u EXCEPT ![n] = @ - 1]
Access(u, n)    == [u EXCEPT ![n] = @ + 1]
Signal(n)       == IF usageNO[n] = 1 THEN sleeping \ {n} ELSE sleeping

Init ==
  /\ M_next = [n \in Places |-> End]
  /\ M_prev = [n \in Places |-> End]
  /\ usageNO = [n \in Places |-> 0]
  /\ sleeping = {}
  /\ phase = [n \in Places |-> IF n = End THEN "linked" ELSE "unborn"]
  /\ writer = "none"
  /\ M_node = [i \in Iters |-> Null]
  /\ lockedNode = [i \in Iters |-> Null]
  /\ pc = [i \in Iters |-> "idle"]

-----------------------------------------------------------------------------
(* Iterators.  An iterator is used by one thread at a time.                 *)

Free(i) == pc[i] = "idle" /\ M_node[i] = Null      \* a fresh or finished iterator
On(i)   == pc[i] = "idle" /\ M_node[i] # Null

\* XList::begin(), first half: lock the sentinel and read its next pointer.
Begin(i) ==
  /\ Free(i)
  /\ ~Locked(End)
  /\ lockedNode' = [lockedNode EXCEPT ![i] = End]
  /\ M_node' = [M_node EXCEPT ![i] = M_next[End]]
  /\ pc' = [pc EXCEPT ![i] = "access"]
  /\ UNCHANGED <<nodeVars, useVars>>

\* XList::end(): access the sentinel, no lock.
EndIter(i) ==
  /\ Free(i)
  /\ M_node' = [M_node EXCEPT ![i] = End]
  /\ usageNO' = Access(usageNO, End)
  /\ UNCHANGED <<nodeVars, sleeping, lockedNode, pc>>

\* Copy constructor; the thread owns the original or nobody moves it.
Copy(i, j) ==
  /\ Free(i)
  /\ On(j)
  /\ M_node' = [M_node EXCEPT ![i] = M_node[j]]
  /\ usageNO' = Access(usageNO, M_node[j])
  /\ UNCHANGED <<nodeVars, sleeping, lockedNode, pc>>

\* operator=: release the old node under its lock, then copy and access the new one.
Assign(i, j) ==
  /\ i # j
  /\ On(i)
  /\ On(j)
  /\ ~Locked(M_node[i])
  /\ M_node' = [M_node EXCEPT ![i] = M_node[j]]
  /\ usageNO' = Access(Release(usageNO, M_node[i]), M_node[j])
  /\ sleeping' = IF M_node[i] = M_node[j] THEN sleeping ELSE Signal(M_node[i])
  /\ UNCHANGED <<nodeVars, lockedNode, pc>>

\* operator++ / operator--, first part: lock the node and release it.
Move(i, way) ==
  /\ On(i)
  /\ ~Locked(M_node[i])
  /\ lockedNode' = [lockedNode EXCEPT ![i] = M_node[i]]
  /\ usageNO' = Release(usageNO, M_node[i])
  /\ sleeping' = Signal(M_node[i])
  /\ pc' = [pc EXCEPT ![i] = way]
  /\ UNCHANGED <<nodeVars, M_node>>

\* operator++(int) / operator--(int): between release and read, the result
\* __tmp is copied from the iterator: it takes over the use of the node.
MovePost(i, j, way) ==
  /\ On(i)
  /\ Free(j)
  /\ i # j
  /\ ~Locked(M_node[i])
  /\ lockedNode' = [lockedNode EXCEPT ![i] = M_node[i]]
  /\ M_node' = [M_node EXCEPT ![j] = M_node[i]]
  /\ sleeping' = Signal(M_node[i])
  /\ pc' = [pc EXCEPT ![i] = way]
  /\ UNCHANGED <<nodeVars, usageNO>>

\* The pointer read of ++ / --: nobody is counted for the node just read.
ReadPointer(i) ==
  /\ pc[i] \in {"++", "--"}
  /\ M_node' = [M_node EXCEPT ![i] = IF pc[i] = "++" THEN M_next[M_node[i]]
                                     ELSE M_prev[M_node[i]]]
  /\ pc' = [pc EXCEPT ![i] = "access"]
  /\ UNCHANGED <<nodeVars, useVars, lockedNode>>

\* Last part of ++, -- and begin(): access the node read, then unlock.
AccessUnlock(i) ==
  /\ pc[i] = "access"
  /\ usageNO' = Access(usageNO, M_node[i])
  /\ lockedNode' = [lockedNode EXCEPT ![i] = Null]
  /\ pc' = [pc EXCEPT ![i] = "idle"]
  /\ UNCHANGED <<nodeVars, sleeping, M_node>>

\* Mutant of Fini: dec_usage without pthread_cond_signal.
FiniNoSignal(i) ==
  /\ On(i)
  /\ ~Locked(M_node[i])
  /\ usageNO' = Release(usageNO, M_node[i])
  /\ M_node' = [M_node EXCEPT ![i] = Null]
  /\ UNCHANGED <<nodeVars, sleeping, lockedNode, pc>>

\* fini() and the destructor.
Fini(i) ==
  /\ On(i)
  /\ ~Locked(M_node[i])
  /\ usageNO' = Release(usageNO, M_node[i])
  /\ sleeping' = Signal(M_node[i])
  /\ M_node' = [M_node EXCEPT ![i] = Null]
  /\ UNCHANGED <<nodeVars, lockedNode, pc>>

-----------------------------------------------------------------------------
(* The writer.  "XList supports concurrently multiple reads with one write  *)
(* at a time": every write runs in a critical section of its caller.        *)

NoWriter == writer = "none"

\* Mutant of PushCreate: _M_prev is never set.
PushCreateNoPrev(n) ==
  /\ NoWriter
  /\ phase[n] = "unborn"
  /\ \A m \in Nodes : m < n => phase[m] # "unborn"
  /\ M_prev' = [M_prev EXCEPT ![n] = Null]
  /\ usageNO' = Access(usageNO, n)
  /\ phase' = [phase EXCEPT ![n] = "pushed"]
  /\ writer' = "push_back"
  /\ UNCHANGED <<M_next, sleeping, iterVars>>

\* push_back, first part: create the node, set its pointers, access() it.
PushCreate(n) ==
  /\ NoWriter
  /\ phase[n] = "unborn"
  /\ \A m \in Nodes : m < n => phase[m] # "unborn"
  /\ M_next' = [M_next EXCEPT ![n] = End]
  /\ M_prev' = [M_prev EXCEPT ![n] = M_prev[End]]
  /\ usageNO' = Access(usageNO, n)
  /\ phase' = [phase EXCEPT ![n] = "pushed"]
  /\ writer' = "push_back"
  /\ UNCHANGED <<sleeping, iterVars>>

\* The old last node's chNextPrev(_node, NULL).
PushChain(n) ==
  /\ phase[n] = "pushed"
  /\ ~Locked(M_prev[End])
  /\ M_next' = [M_next EXCEPT ![M_prev[End]] = n]
  /\ phase' = [phase EXCEPT ![n] = "chained"]
  /\ UNCHANGED <<M_prev, writer, useVars, iterVars>>

\* Mutant of PushLink: the second access() is missing.
PushLinkNoAccess(n) ==
  /\ phase[n] = "chained"
  /\ ~Locked(End)
  /\ M_prev' = [M_prev EXCEPT ![End] = n]
  /\ phase' = [phase EXCEPT ![n] = "linked"]
  /\ writer' = "none"
  /\ UNCHANGED <<M_next, useVars, iterVars>>

\* The second access(), then the sentinel's chNextPrev(NULL, _node).
PushLink(n) ==
  /\ phase[n] = "chained"
  /\ ~Locked(End)
  /\ usageNO' = Access(usageNO, n)
  /\ M_prev' = [M_prev EXCEPT ![End] = n]
  /\ phase' = [phase EXCEPT ![n] = "linked"]
  /\ writer' = "none"
  /\ UNCHANGED <<M_next, sleeping, iterVars>>

\* Mutant of Prepare: erasing() does not remember the first call.
PrepareTwice(i) == LET n == M_node[i] IN
  /\ NoWriter
  /\ On(i)
  /\ n \in Nodes
  /\ phase[n] \notin {"flagged", "bypassed"}
  /\ usageNO' = Access(usageNO, M_prev[n])
  /\ phase' = [phase EXCEPT ![n] = "flagged"]
  /\ writer' = "erasing"
  /\ pc' = [pc EXCEPT ![i] = "preparing"]
  /\ UNCHANGED <<M_next, M_prev, sleeping, M_node, lockedNode>>

\* xerase_prepare: erasing() lets the first call through (a later one returns
\* false and changes nothing); then access() the previous node.
Prepare(i) == LET n == M_node[i] IN
  /\ NoWriter
  /\ On(i)
  /\ n \in Nodes
  /\ ~is_erasing(n)
  /\ usageNO' = Access(usageNO, M_prev[n])
  /\ phase' = [phase EXCEPT ![n] = "flagged"]
  /\ writer' = "erasing"
  /\ pc' = [pc EXCEPT ![i] = "preparing"]
  /\ UNCHANGED <<M_next, M_prev, sleeping, M_node, lockedNode>>

\* Mutant of Bypass: the next node's pointer is changed without its lock.
BypassNoLock(i) == LET n == M_node[i] IN
  /\ pc[i] = "preparing"
  /\ phase[n] = "flagged"
  /\ M_prev' = [M_prev EXCEPT ![M_next[n]] = M_prev[n]]
  /\ usageNO' = Access(Release(usageNO, n), M_next[n])
  /\ phase' = [phase EXCEPT ![n] = "bypassed"]
  /\ UNCHANGED <<M_next, writer, sleeping, iterVars>>

\* The next node's chNextPrev(NULL, prev); release this node, access the next.
Bypass(i) == LET n == M_node[i] IN
  /\ pc[i] = "preparing"
  /\ phase[n] = "flagged"
  /\ ~Locked(M_next[n])
  /\ M_prev' = [M_prev EXCEPT ![M_next[n]] = M_prev[n]]
  /\ usageNO' = Access(Release(usageNO, n), M_next[n])
  /\ phase' = [phase EXCEPT ![n] = "bypassed"]
  /\ UNCHANGED <<M_next, writer, sleeping, iterVars>>

\* Mutant of Unlink: the previous node is made to point behind the next one.
UnlinkTooFar(i, inline) == LET n == M_node[i] IN
  /\ pc[i] = "preparing"
  /\ phase[n] = "bypassed"
  /\ ~Locked(M_prev[n])
  /\ M_next' = [M_next EXCEPT ![M_prev[n]] = M_next[M_next[n]]]
  /\ usageNO' = Release(usageNO, n)
  /\ phase' = [phase EXCEPT ![n] = IF inline THEN "captured" ELSE "unlinked"]
  /\ writer' = IF inline THEN "erasing" ELSE "none"
  /\ pc' = [pc EXCEPT ![i] = IF inline THEN "stale" ELSE "prepared"]
  /\ UNCHANGED <<M_prev, sleeping, M_node, lockedNode>>

\* The previous node's chNextPrev(next, NULL), and the second release.  The
\* caller then leaves its critical section and lets a thread run xerase
\* ("prepared"), or is erase() itself and runs xerase with its own iterator
\* inside the critical section.
Unlink(i, inline) == LET n == M_node[i] IN
  /\ pc[i] = "preparing"
  /\ phase[n] = "bypassed"
  /\ ~Locked(M_prev[n])
  /\ M_next' = [M_next EXCEPT ![M_prev[n]] = M_next[n]]
  /\ usageNO' = Release(usageNO, n)
  /\ phase' = [phase EXCEPT ![n] = IF inline THEN "captured" ELSE "unlinked"]
  /\ writer' = IF inline THEN "erasing" ELSE "none"
  /\ pc' = [pc EXCEPT ![i] = IF inline THEN "stale" ELSE "prepared"]
  /\ UNCHANGED <<M_prev, sleeping, M_node, lockedNode>>

\* The eraser thread is started with a copy of the iterator
\* (XObject::xdelConnection, XListParam::xdel).
Spawn(i) ==
  /\ pc[i] = "prepared"
  /\ usageNO' = Access(usageNO, M_node[i])
  /\ phase' = [phase EXCEPT ![M_node[i]] = "captured"]
  /\ pc' = [pc EXCEPT ![i] = "idle"]
  /\ UNCHANGED <<M_next, M_prev, writer, sleeping, M_node, lockedNode>>

-----------------------------------------------------------------------------
(* xerase(pos) for node n, in the eraser thread or inside erase().          *)

\* pos.release() stands for the iterator pos was copied from; pos.fini()
\* takes the copy off the node as well.
EraseFini(n) ==
  /\ phase[n] = "captured"
  /\ ~Locked(n)
  /\ usageNO' = Release(usageNO, n)
  /\ phase' = [phase EXCEPT ![n] = "waiting"]
  /\ UNCHANGED <<M_next, M_prev, writer, sleeping, iterVars>>

\* waitForUsage: usageNO > 0, so pthread_cond_wait gives up n_lock and sleeps.
WaitForUsage(n) ==
  /\ phase[n] = "waiting"
  /\ n \notin sleeping
  /\ ~Locked(n)
  /\ usageNO[n] # 0
  /\ sleeping' = sleeping \cup {n}
  /\ UNCHANGED <<nodeVars, usageNO, iterVars>>

\* A condition variable may wake its waiter without a signal.
SpuriousWakeup(n) ==
  /\ n \in sleeping
  /\ sleeping' = sleeping \ {n}
  /\ UNCHANGED <<nodeVars, usageNO, iterVars>>

\* Mutant of Destroy: the waiter does not look at usageNO again after it woke.
DestroyNoRecheck(n) ==
  /\ phase[n] = "waiting"
  /\ n \notin sleeping
  /\ ~Locked(n)
  /\ phase' = [phase EXCEPT ![n] = "freed"]
  /\ UNCHANGED <<M_next, M_prev, writer, useVars, iterVars>>

\* waitForUsage returns and the data is destroyed (the memory never is).
Destroy(n) ==
  /\ phase[n] = "waiting"
  /\ n \notin sleeping
  /\ ~Locked(n)
  /\ usageNO[n] = 0
  /\ phase' = [phase EXCEPT ![n] = "freed"]
  /\ UNCHANGED <<M_next, M_prev, writer, useVars, iterVars>>

\* Release the nodes the destroyed node's pointers led to, next first.
ReleaseNeighbour(n, from, m, to) ==
  /\ phase[n] = from
  /\ ~Locked(m)
  /\ usageNO' = Release(usageNO, m)
  /\ sleeping' = Signal(m)
  /\ phase' = [phase EXCEPT ![n] = to]
  /\ UNCHANGED <<M_next, M_prev, writer, iterVars>>

ReleaseNext(n) == ReleaseNeighbour(n, "freed", M_next[n], "nextReleased")
ReleasePrev(n) == ReleaseNeighbour(n, "nextReleased", M_prev[n], "prevReleased")

\* The iterator given to xerase still points at the destroyed node when its
\* own destructor runs fini: the eraser thread's captured copy, or the
\* parameter of erase(), which then returns from the critical section.
StalePos(n) ==
  /\ phase[n] = "prevReleased"
  /\ ~Locked(n)
  /\ usageNO' = Release(usageNO, n)
  /\ sleeping' = Signal(n)
  /\ phase' = [phase EXCEPT ![n] = "done"]
  /\ writer' = IF \E i \in Iters : pc[i] = "stale" /\ M_node[i] = n
               THEN "none" ELSE writer
  /\ UNCHANGED <<M_next, M_prev, iterVars>>

\* So does the iterator that was passed to erase(): at its destructor, or in
\* operator= of clear()'s own loop.
StaleFini(i) == LET n == M_node[i] IN
  /\ pc[i] = "stale"
  /\ phase[n] = "done"
  /\ ~Locked(n)
  /\ usageNO' = Release(usageNO, n)
  /\ sleeping' = Signal(n)
  /\ M_node' = [M_node EXCEPT ![i] = Null]
  /\ pc' = [pc EXCEPT ![i] = "idle"]
  /\ UNCHANGED <<nodeVars, lockedNode>>

\* reset(): forget the node instead, as its comment asks of such an iterator.
Reset(i) ==
  /\ pc[i] = "stale"
  /\ phase[M_node[i]] = "done"
  /\ M_node' = [M_node EXCEPT ![i] = Null]
  /\ pc' = [pc EXCEPT ![i] = "idle"]
  /\ UNCHANGED <<nodeVars, useVars, lockedNode>>

-----------------------------------------------------------------------------
IterStep(i) ==
  \/ Begin(i) \/ EndIter(i)
  \/ \E j \in Iters : Copy(i, j) \/ Assign(i, j)
  \/ \E way \in {"++", "--"} : Move(i, way) \/ \E j \in Iters : MovePost(i, j, way)
  \/ ReadPointer(i) \/ AccessUnlock(i) \/ Fini(i)

WriterStep ==
  \/ \E n \in Nodes : PushCreate(n) \/ PushChain(n) \/ PushLink(n)
  \/ \E i \in Iters : \/ Prepare(i) \/ Bypass(i) \/ Spawn(i)
                     \/ \E inline \in BOOLEAN : Unlink(i, inline)

EraserStep(n) ==
  \/ EraseFini(n) \/ WaitForUsage(n) \/ Destroy(n)
  \/ ReleaseNext(n) \/ ReleasePrev(n) \/ StalePos(n)

Next ==
  \/ \E i \in Iters : IterStep(i) \/ StaleFini(i) \/ Reset(i)
  \/ WriterStep
  \/ \E n \in Nodes : EraserStep(n) \/ SpuriousWakeup(n)

Spec == Init /\ [][Next]_vars

\* A thread that can take its next step takes it: eraser threads, and a
\* writer or an iterator in the middle of an operation.  Nothing makes a
\* client start an operation, and no condition variable has to wake by itself.
Fairness == /\ \A n \in Nodes : WF_vars(EraserStep(n))
            /\ \A i \in Iters : WF_vars(ReadPointer(i)) /\ WF_vars(AccessUnlock(i))
            /\ WF_vars(\E n \in Nodes : PushChain(n) \/ PushLink(n))
            /\ WF_vars(\E i \in Iters : Bypass(i) \/ Spawn(i) \/
                                       \E inline \in BOOLEAN : Unlink(i, inline))

FairSpec == Spec /\ Fairness

-----------------------------------------------------------------------------
(* Properties.                                                              *)

TypeOK ==
  /\ M_next \in [Places -> Places]
  /\ M_prev \in [Places -> Places]
  /\ usageNO \in [Places -> Int]
  /\ sleeping \in SUBSET Nodes
  /\ phase \in [Places -> Phases]
  /\ writer \in {"none", "push_back", "erasing"}
  /\ M_node \in [Iters -> Places \cup {Null}]
  /\ lockedNode \in [Iters -> Places \cup {Null}]
  /\ pc \in [Iters -> {"idle", "++", "--", "access", "preparing", "prepared", "stale"}]

\* The iterators that are counted on a node.
IterRefs(n) == {i \in Iters : M_node[i] = n /\ pc[i] \in {"idle", "preparing", "prepared"}}

\* The nodes whose next (prev) pointer is counted on node n.  A pointer to the
\* sentinel is counted once its node left the list.
NextRefs(n) == {m \in Places :
  /\ M_next[m] = n
  /\ \/ phase[m] \in {"unlinked", "captured", "waiting", "freed"}
     \/ n # End /\ phase[m] \in {"chained", "linked", "flagged", "bypassed"}}

PrevRefs(n) == {m \in Places :
  /\ M_prev[m] = n
  /\ \/ phase[m] \in {"bypassed", "unlinked", "captured", "waiting", "freed", "nextReleased"}
     \/ n # End /\ phase[m] \in {"linked", "flagged"}}

\* What the writer has accessed ahead of the pointer it is about to store, and
\* the captured iterator of an eraser thread.
WriteRefs(n) == {m \in Places :
  \/ phase[m] = "pushed" /\ m = n
  \/ phase[m] = "flagged" /\ M_prev[m] = n
  \/ phase[m] = "bypassed" /\ M_next[m] = n
  \/ phase[m] = "captured" /\ m = n}

\* usageNO counts exactly the iterators on a live node and the pointers to it,
\* through every step of every concurrent iteration, push_back and erase: a
\* count too low destroys data in use, one too high leaks the node for ever.
UsageAccounting == \A n \in Places : ~Destroyed(n) =>
  usageNO[n] = Cardinality(IterRefs(n)) + Cardinality(NextRefs(n))
             + Cardinality(PrevRefs(n)) + Cardinality(WriteRefs(n))

\* No iterator stands on, or has read and is about to access, a node that was
\* destroyed, and no pointer an iterator could still follow leads to one
\* ("we would care concurrent accesses to target node", xlist.hpp 816).
NoDestroyedReachable ==
  /\ \A i \in Iters : pc[i] # "stale" /\ M_node[i] # Null => ~Destroyed(M_node[i])
  /\ \A n \in Places : phase[n] # "unborn" /\ ~Destroyed(n) =>
                           ~Destroyed(M_next[n]) /\ ~Destroyed(M_prev[n])

\* Iteration follows the order of push_back from any node, removed ones
\* included, and never jumps over an element that is in the list.
TraversalOrder ==
  \A n, y \in Nodes : phase[n] # "unborn" /\ phase[y] = "linked" =>
    /\ M_next[n] # End => n < M_next[n] /\ ~(n < y /\ y < M_next[n])
    /\ M_prev[n] < n /\ ~(M_prev[n] < y /\ y < n)
    /\ phase[n] = "linked" /\ M_next[n] = End => y <= n

\* "xerase_prepare would remove pointers to target node ... any iteration on
\* this node can go back/forward": a node that left the list keeps its pointers.
FrozenPointers == [][\A n \in Nodes : phase[n] \notin {"unborn", "pushed", "chained", "linked",
                                                       "flagged", "bypassed"} =>
                       M_next'[n] = M_next[n] /\ M_prev'[n] = M_prev[n]]_vars

\* Nobody is inside an operation, or stands on a node that is being erased.
Quiet == \A i \in Iters :
  /\ lockedNode[i] = Null
  /\ M_node[i] # Null /\ pc[i] # "stale" => ~is_erasing(M_node[i])

\* No signal on usage_cond is lost: once the iterators have left the erased
\* nodes, every node being erased is destroyed and every erase returns.
EraseCompletes == <>[]Quiet =>
  \A n \in Nodes : []<>(phase[n] \notin {"captured", "waiting", "freed", "nextReleased",
                                         "prevReleased"})

\* The contract of the list (module XListAbs): elements enter and leave once,
\* data is destroyed when nobody stands on it, nobody moves onto destroyed data.
Contract == INSTANCE XListAbs WITH
  Elements  <- Nodes,
  members   <- {n \in Nodes : phase[n] \in {"chained", "linked", "flagged", "bypassed"}},
  removed   <- {n \in Nodes : phase[n] \in {"unlinked", "captured", "waiting"}},
  destroyed <- {n \in Nodes : Destroyed(n)},
  at        <- [i \in Iters |-> IF pc[i] \in {"idle", "preparing", "prepared"}
                                THEN M_node[i] ELSE Null]

ImplementsContract == Contract!Spec

\* reset()'s comment asks that an iterator used for a deletion be reset, since
\* using it afterwards is unpredictable: nobody touches a destroyed node.
DestroyedNodeUnused == \A n \in Nodes : Destroyed(n) => usageNO[n] = 0

\* inc_usage's comment: at deletion time "no one could access him to increment
\* usageNO, so usageNO never been increased at deletion time".
NoAccessAtDeletion == [][\A n \in Nodes : phase[n] = "waiting" => usageNO'[n] <= usageNO[n]]_vars
=============================================================================
