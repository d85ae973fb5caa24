---------------------------- MODULE XListProofs ----------------------------
(***************************************************************************)
(* What holds of XList for every number of nodes and iterators.  The       *)
(* inductive invariant is built in layers, each proved with the help of    *)
(* the ones before it: types, the writer, the list's chain, and the order  *)
(* an iteration meets.                                                     *)
(***************************************************************************)
EXTENDS XList, FiniteSetTheorems, TLAPS

LEMMA PlacesFacts ==
  /\ End \in Places
  /\ Null \notin Places
  /\ \A n \in Nodes : n \in Places /\ n # End
  /\ Places \subseteq Int
BY XListAssumption DEF Places, Nodes, End, Null

\* What access() and release() do to the counters.
LEMMA AccessFacts ==
  ASSUME NEW u \in [Places -> Int], NEW n \in Places
  PROVE  /\ Access(u, n) \in [Places -> Int]
         /\ \A m \in Places : Access(u, n)[m] = IF m = n THEN u[m] + 1 ELSE u[m]
BY DEF Access

LEMMA ReleaseFacts ==
  ASSUME NEW u \in [Places -> Int], NEW n \in Places
  PROVE  /\ Release(u, n) \in [Places -> Int]
         /\ \A m \in Places : Release(u, n)[m] = IF m = n THEN u[m] - 1 ELSE u[m]
BY DEF Release

-----------------------------------------------------------------------------
(* Layer 1: types, and what the step an iterator is in says of its node and *)
(* of the lock its thread holds.                                            *)

IterShape == \A i \in Iters :
  /\ pc[i] = "idle" => lockedNode[i] = Null
  /\ pc[i] \in {"++", "--"} => lockedNode[i] = M_node[i] /\ M_node[i] # Null
  /\ pc[i] = "access" => lockedNode[i] # Null /\ M_node[i] # Null
  /\ pc[i] \in {"preparing", "prepared", "stale"} => lockedNode[i] = Null /\ M_node[i] \in Nodes

Shape == TypeOK /\ IterShape

LEMMA ShapeInit == Init => Shape
BY PlacesFacts DEF Init, Shape, TypeOK, IterShape, Phases

\* The steps of an iterator keep the types and the iterators' shape.
LEMMA ShapeIterStep ==
  ASSUME Shape, NEW i \in Iters, IterStep(i) \/ StaleFini(i) \/ Reset(i)
  PROVE  Shape'
<1> USE PlacesFacts, AccessFacts, ReleaseFacts DEF Shape, On, Free, nodeVars, useVars, iterVars
<1>1. CASE Begin(i)
  <2>0. M_next[End] \in Places
    BY <1>1 DEF TypeOK, IterShape, Begin
  <2>1. lockedNode' \in [Iters -> Places \cup {Null}]
    BY <1>1, <2>0 DEF TypeOK, Begin
  <2>2. M_node' \in [Iters -> Places \cup {Null}]
    BY <1>1, <2>0 DEF TypeOK, Begin
  <2>3. pc' \in [Iters -> {"idle", "++", "--", "access", "preparing", "prepared", "stale"}]
    BY <1>1, <2>0 DEF TypeOK, Begin
  <2>4. TypeOK'
    BY <1>1, <2>0, <2>1, <2>2, <2>3 DEF TypeOK, Begin
  <2>5. IterShape'
    BY <1>1, <2>0 DEF TypeOK, IterShape, Begin
  <2>q. QED BY <2>4, <2>5
<1>2. CASE EndIter(i)
  <2>1. usageNO' \in [Places -> Int]
    BY <1>2 DEF TypeOK, EndIter
  <2>2. M_node' \in [Iters -> Places \cup {Null}]
    BY <1>2 DEF TypeOK, EndIter
  <2>3. TypeOK'
    BY <1>2, <2>1, <2>2 DEF TypeOK, EndIter
  <2>4. IterShape'
    BY <1>2 DEF TypeOK, IterShape, EndIter
  <2>q. QED BY <2>3, <2>4
<1>3. CASE \E j \in Iters : Copy(i, j)
  <2>p. PICK j \in Iters : Copy(i, j)
    BY <1>3
  <2>0. M_node[j] \in Places
    BY <2>p DEF TypeOK, IterShape, Copy
  <2>1. usageNO' \in [Places -> Int]
    BY <2>p, <2>0 DEF TypeOK, Copy
  <2>2. M_node' \in [Iters -> Places \cup {Null}]
    BY <2>p, <2>0 DEF TypeOK, Copy
  <2>3. TypeOK'
    BY <2>p, <2>0, <2>1, <2>2 DEF TypeOK, Copy
  <2>4. IterShape'
    BY <2>p, <2>0 DEF TypeOK, IterShape, Copy
  <2>q. QED BY <2>3, <2>4
<1>4. CASE \E j \in Iters : Assign(i, j)
  <2>p. PICK j \in Iters : Assign(i, j)
    BY <1>4
  <2>0. M_node[i] \in Places /\ M_node[j] \in Places
    BY <2>p DEF TypeOK, IterShape, Assign, Signal
  <2>1. usageNO' \in [Places -> Int]
    BY <2>p, <2>0 DEF TypeOK, Assign, Signal
  <2>2. sleeping' \in SUBSET Nodes
    BY <2>p, <2>0 DEF TypeOK, Assign, Signal
  <2>3. M_node' \in [Iters -> Places \cup {Null}]
    BY <2>p, <2>0 DEF TypeOK, Assign, Signal
  <2>4. TypeOK'
    BY <2>p, <2>0, <2>1, <2>2, <2>3 DEF TypeOK, Assign, Signal
  <2>5. IterShape'
    BY <2>p, <2>0 DEF TypeOK, IterShape, Assign, Signal
  <2>q. QED BY <2>4, <2>5
<1>5. CASE \E way \in {"++", "--"} : Move(i, way)
  <2>p. PICK way \in {"++", "--"} : Move(i, way)
    BY <1>5
  <2>0. M_node[i] \in Places
    BY <2>p DEF TypeOK, IterShape, Move, Signal
  <2>1. usageNO' \in [Places -> Int]
    BY <2>p, <2>0 DEF TypeOK, Move, Signal
  <2>2. sleeping' \in SUBSET Nodes
    BY <2>p, <2>0 DEF TypeOK, Move, Signal
  <2>3. lockedNode' \in [Iters -> Places \cup {Null}]
    BY <2>p, <2>0 DEF TypeOK, Move, Signal
  <2>4. pc' \in [Iters -> {"idle", "++", "--", "access", "preparing", "prepared", "stale"}]
    BY <2>p, <2>0 DEF TypeOK, Move, Signal
  <2>5. TypeOK'
    BY <2>p, <2>0, <2>1, <2>2, <2>3, <2>4 DEF TypeOK, Move, Signal
  <2>6. IterShape'
    BY <2>p, <2>0 DEF TypeOK, IterShape, Move, Signal
  <2>q. QED BY <2>5, <2>6
<1>6. CASE \E way \in {"++", "--"}, j \in Iters : MovePost(i, j, way)
  <2>p. PICK way \in {"++", "--"}, j \in Iters : MovePost(i, j, way)
    BY <1>6
  <2>0. M_node[i] \in Places
    BY <2>p DEF TypeOK, IterShape, MovePost, Signal
  <2>1. sleeping' \in SUBSET Nodes
    BY <2>p, <2>0 DEF TypeOK, MovePost, Signal
  <2>2. lockedNode' \in [Iters -> Places \cup {Null}]
    BY <2>p, <2>0 DEF TypeOK, MovePost, Signal
  <2>3. M_node' \in [Iters -> Places \cup {Null}]
    BY <2>p, <2>0 DEF TypeOK, MovePost, Signal
  <2>4. pc' \in [Iters -> {"idle", "++", "--", "access", "preparing", "prepared", "stale"}]
    BY <2>p, <2>0 DEF TypeOK, MovePost, Signal
  <2>5. TypeOK'
    BY <2>p, <2>0, <2>1, <2>2, <2>3, <2>4 DEF TypeOK, MovePost, Signal
  <2>6. IterShape'
    BY <2>p, <2>0 DEF TypeOK, IterShape, MovePost, Signal
  <2>q. QED BY <2>5, <2>6
<1>7. CASE ReadPointer(i)
  <2>0. M_node[i] \in Places /\ lockedNode[i] # Null
    BY <1>7 DEF TypeOK, IterShape, ReadPointer
  <2>1. M_node' \in [Iters -> Places \cup {Null}]
    BY <1>7, <2>0 DEF TypeOK, ReadPointer
  <2>2. pc' \in [Iters -> {"idle", "++", "--", "access", "preparing", "prepared", "stale"}]
    BY <1>7, <2>0 DEF TypeOK, ReadPointer
  <2>3. TypeOK'
    BY <1>7, <2>0, <2>1, <2>2 DEF TypeOK, ReadPointer
  <2>4. /\ M_node'[i] \in Places /\ pc'[i] = "access" /\ lockedNode'[i] # Null
        /\ \A j \in Iters \ {i} : M_node'[j] = M_node[j] /\ pc'[j] = pc[j]
    BY <1>7, <2>0 DEF TypeOK, ReadPointer
  <2>5. IterShape'
    BY <1>7, <2>4 DEF IterShape, ReadPointer
  <2>q. QED BY <2>3, <2>5
<1>8. CASE AccessUnlock(i)
  <2>0. M_node[i] \in Places
    BY <1>8 DEF TypeOK, IterShape, AccessUnlock
  <2>1. usageNO' \in [Places -> Int]
    BY <1>8, <2>0 DEF TypeOK, AccessUnlock
  <2>2. lockedNode' \in [Iters -> Places \cup {Null}]
    BY <1>8, <2>0 DEF TypeOK, AccessUnlock
  <2>3. pc' \in [Iters -> {"idle", "++", "--", "access", "preparing", "prepared", "stale"}]
    BY <1>8, <2>0 DEF TypeOK, AccessUnlock
  <2>4. TypeOK'
    BY <1>8, <2>0, <2>1, <2>2, <2>3 DEF TypeOK, AccessUnlock
  <2>5. IterShape'
    BY <1>8, <2>0 DEF TypeOK, IterShape, AccessUnlock
  <2>q. QED BY <2>4, <2>5
<1>9. CASE Fini(i)
  <2>0. M_node[i] \in Places
    BY <1>9 DEF TypeOK, IterShape, Fini, Signal
  <2>1. usageNO' \in [Places -> Int]
    BY <1>9, <2>0 DEF TypeOK, Fini, Signal
  <2>2. sleeping' \in SUBSET Nodes
    BY <1>9, <2>0 DEF TypeOK, Fini, Signal
  <2>3. M_node' \in [Iters -> Places \cup {Null}]
    BY <1>9, <2>0 DEF TypeOK, Fini, Signal
  <2>4. TypeOK'
    BY <1>9, <2>0, <2>1, <2>2, <2>3 DEF TypeOK, Fini, Signal
  <2>5. IterShape'
    BY <1>9, <2>0 DEF TypeOK, IterShape, Fini, Signal
  <2>q. QED BY <2>4, <2>5
<1>10. CASE StaleFini(i)
  <2>0. M_node[i] \in Places
    BY <1>10 DEF TypeOK, IterShape, StaleFini, Signal
  <2>1. usageNO' \in [Places -> Int]
    BY <1>10, <2>0 DEF TypeOK, StaleFini, Signal
  <2>2. sleeping' \in SUBSET Nodes
    BY <1>10, <2>0 DEF TypeOK, StaleFini, Signal
  <2>3. M_node' \in [Iters -> Places \cup {Null}]
    BY <1>10, <2>0 DEF TypeOK, StaleFini, Signal
  <2>4. pc' \in [Iters -> {"idle", "++", "--", "access", "preparing", "prepared", "stale"}]
    BY <1>10, <2>0 DEF TypeOK, StaleFini, Signal
  <2>5. TypeOK'
    BY <1>10, <2>0, <2>1, <2>2, <2>3, <2>4 DEF TypeOK, StaleFini, Signal
  <2>6. IterShape'
    BY <1>10, <2>0 DEF TypeOK, IterShape, StaleFini, Signal
  <2>q. QED BY <2>5, <2>6
<1>11. CASE Reset(i)
  <2>1. M_node' \in [Iters -> Places \cup {Null}]
    BY <1>11 DEF TypeOK, Reset
  <2>2. pc' \in [Iters -> {"idle", "++", "--", "access", "preparing", "prepared", "stale"}]
    BY <1>11 DEF TypeOK, Reset
  <2>3. TypeOK'
    BY <1>11, <2>1, <2>2 DEF TypeOK, Reset
  <2>4. IterShape'
    BY <1>11 DEF TypeOK, IterShape, Reset
  <2>q. QED BY <2>3, <2>4
<1>q. QED BY <1>1, <1>2, <1>3, <1>4, <1>5, <1>6, <1>7, <1>8, <1>9, <1>10, <1>11 DEF IterStep

\* So do the steps of the writer.
LEMMA ShapeWriterStep ==
  ASSUME Shape, WriterStep
  PROVE  Shape'
<1> USE PlacesFacts, AccessFacts, ReleaseFacts DEF Shape, On, Free, nodeVars, useVars, iterVars
<1>1. CASE \E n \in Nodes : PushCreate(n)
  <2>p. PICK n \in Nodes : PushCreate(n)
    BY <1>1
  <2>0. M_prev[End] \in Places
    BY <2>p DEF TypeOK, IterShape, PushCreate
  <2>1. M_next' \in [Places -> Places]
    BY <2>p, <2>0 DEF TypeOK, PushCreate
  <2>2. M_prev' \in [Places -> Places]
    BY <2>p, <2>0 DEF TypeOK, PushCreate
  <2>3. usageNO' \in [Places -> Int]
    BY <2>p, <2>0 DEF TypeOK, PushCreate
  <2>4. phase' \in [Places -> Phases]
    BY <2>p, <2>0 DEF TypeOK, PushCreate, Phases
  <2>5. TypeOK'
    BY <2>p, <2>0, <2>1, <2>2, <2>3, <2>4 DEF TypeOK, PushCreate
  <2>6. IterShape'
    BY <2>p, <2>0 DEF TypeOK, IterShape, PushCreate
  <2>q. QED BY <2>5, <2>6
<1>2. CASE \E n \in Nodes : PushChain(n)
  <2>p. PICK n \in Nodes : PushChain(n)
    BY <1>2
  <2>0. M_prev[End] \in Places
    BY <2>p DEF TypeOK, IterShape, PushChain
  <2>1. M_next' \in [Places -> Places]
    BY <2>p, <2>0 DEF TypeOK, PushChain
  <2>2. phase' \in [Places -> Phases]
    BY <2>p, <2>0 DEF TypeOK, PushChain, Phases
  <2>3. TypeOK'
    BY <2>p, <2>0, <2>1, <2>2 DEF TypeOK, PushChain
  <2>4. IterShape'
    BY <2>p, <2>0 DEF TypeOK, IterShape, PushChain
  <2>q. QED BY <2>3, <2>4
<1>3. CASE \E n \in Nodes : PushLink(n)
  <2>p. PICK n \in Nodes : PushLink(n)
    BY <1>3
  <2>1. M_prev' \in [Places -> Places]
    BY <2>p DEF TypeOK, PushLink
  <2>2. usageNO' \in [Places -> Int]
    BY <2>p DEF TypeOK, PushLink
  <2>3. phase' \in [Places -> Phases]
    BY <2>p DEF TypeOK, PushLink, Phases
  <2>4. TypeOK'
    BY <2>p, <2>1, <2>2, <2>3 DEF TypeOK, PushLink
  <2>5. IterShape'
    BY <2>p DEF TypeOK, IterShape, PushLink
  <2>q. QED BY <2>4, <2>5
<1>4. CASE \E i \in Iters : Prepare(i)
  <2>p. PICK i \in Iters : Prepare(i)
    BY <1>4
  <2>0. M_node[i] \in Places /\ M_prev[M_node[i]] \in Places
    BY <2>p DEF TypeOK, IterShape, Prepare
  <2>1. usageNO' \in [Places -> Int]
    BY <2>p, <2>0 DEF TypeOK, Prepare
  <2>2. phase' \in [Places -> Phases]
    BY <2>p, <2>0 DEF TypeOK, Prepare, Phases
  <2>3. pc' \in [Iters -> {"idle", "++", "--", "access", "preparing", "prepared", "stale"}]
    BY <2>p, <2>0 DEF TypeOK, Prepare
  <2>4. TypeOK'
    BY <2>p, <2>0, <2>1, <2>2, <2>3 DEF TypeOK, Prepare
  <2>5. IterShape'
    BY <2>p, <2>0 DEF TypeOK, IterShape, Prepare
  <2>q. QED BY <2>4, <2>5
<1>5. CASE \E i \in Iters : Bypass(i)
  <2>p. PICK i \in Iters : Bypass(i)
    BY <1>5
  <2>0. M_node[i] \in Places /\ M_prev[M_node[i]] \in Places /\ M_next[M_node[i]] \in Places
    BY <2>p DEF TypeOK, IterShape, Bypass
  <2>1. M_prev' \in [Places -> Places]
    BY <2>p, <2>0 DEF TypeOK, Bypass
  <2>2. usageNO' \in [Places -> Int]
    BY <2>p, <2>0 DEF TypeOK, Bypass
  <2>3. phase' \in [Places -> Phases]
    BY <2>p, <2>0 DEF TypeOK, Bypass, Phases
  <2>4. TypeOK'
    BY <2>p, <2>0, <2>1, <2>2, <2>3 DEF TypeOK, Bypass
  <2>5. IterShape'
    BY <2>p, <2>0 DEF TypeOK, IterShape, Bypass
  <2>q. QED BY <2>4, <2>5
<1>6. CASE \E i \in Iters, inline \in BOOLEAN : Unlink(i, inline)
  <2>p. PICK i \in Iters, inline \in BOOLEAN : Unlink(i, inline)
    BY <1>6
  <2>0. M_node[i] \in Places /\ M_prev[M_node[i]] \in Places /\ M_next[M_node[i]] \in Places
    BY <2>p DEF TypeOK, IterShape, Unlink
  <2>1. M_next' \in [Places -> Places]
    BY <2>p, <2>0 DEF TypeOK, Unlink
  <2>2. usageNO' \in [Places -> Int]
    BY <2>p, <2>0 DEF TypeOK, Unlink
  <2>3. phase' \in [Places -> Phases]
    BY <2>p, <2>0 DEF TypeOK, Unlink, Phases
  <2>4. pc' \in [Iters -> {"idle", "++", "--", "access", "preparing", "prepared", "stale"}]
    BY <2>p, <2>0 DEF TypeOK, Unlink
  <2>5. TypeOK'
    BY <2>p, <2>0, <2>1, <2>2, <2>3, <2>4 DEF TypeOK, Unlink
  <2>6. IterShape'
    BY <2>p, <2>0 DEF TypeOK, IterShape, Unlink
  <2>q. QED BY <2>5, <2>6
<1>7. CASE \E i \in Iters : Spawn(i)
  <2>p. PICK i \in Iters : Spawn(i)
    BY <1>7
  <2>0. M_node[i] \in Places
    BY <2>p DEF TypeOK, IterShape, Spawn
  <2>1. usageNO' \in [Places -> Int]
    BY <2>p, <2>0 DEF TypeOK, Spawn
  <2>2. phase' \in [Places -> Phases]
    BY <2>p, <2>0 DEF TypeOK, Spawn, Phases
  <2>3. pc' \in [Iters -> {"idle", "++", "--", "access", "preparing", "prepared", "stale"}]
    BY <2>p, <2>0 DEF TypeOK, Spawn
  <2>4. TypeOK'
    BY <2>p, <2>0, <2>1, <2>2, <2>3 DEF TypeOK, Spawn
  <2>5. IterShape'
    BY <2>p, <2>0 DEF TypeOK, IterShape, Spawn
  <2>q. QED BY <2>4, <2>5
<1>q. QED BY <1>1, <1>2, <1>3, <1>4, <1>5, <1>6, <1>7 DEF WriterStep

\* And the steps of an eraser thread.
LEMMA ShapeEraserStep ==
  ASSUME Shape, NEW n \in Nodes, EraserStep(n) \/ SpuriousWakeup(n)
  PROVE  Shape'
<1> USE PlacesFacts, AccessFacts, ReleaseFacts DEF Shape, On, Free, nodeVars, useVars, iterVars
<1>1. CASE EraseFini(n)
  <2>1. usageNO' \in [Places -> Int]
    BY <1>1 DEF TypeOK, EraseFini
  <2>2. phase' \in [Places -> Phases]
    BY <1>1 DEF TypeOK, EraseFini, Phases
  <2>3. TypeOK'
    BY <1>1, <2>1, <2>2 DEF TypeOK, EraseFini
  <2>4. IterShape'
    BY <1>1 DEF TypeOK, IterShape, EraseFini
  <2>q. QED BY <2>3, <2>4
<1>2. CASE WaitForUsage(n)
  <2>1. sleeping' \in SUBSET Nodes
    BY <1>2 DEF TypeOK, WaitForUsage
  <2>2. TypeOK'
    BY <1>2, <2>1 DEF TypeOK, WaitForUsage
  <2>3. IterShape'
    BY <1>2 DEF TypeOK, IterShape, WaitForUsage
  <2>q. QED BY <2>2, <2>3
<1>3. CASE Destroy(n)
  <2>1. phase' \in [Places -> Phases]
    BY <1>3 DEF TypeOK, Destroy, Phases
  <2>2. TypeOK'
    BY <1>3, <2>1 DEF TypeOK, Destroy
  <2>3. IterShape'
    BY <1>3 DEF TypeOK, IterShape, Destroy
  <2>q. QED BY <2>2, <2>3
<1>4. CASE ReleaseNext(n)
  <2>0. M_next[n] \in Places
    BY <1>4 DEF TypeOK, IterShape, ReleaseNext, ReleaseNeighbour, Signal
  <2>1. usageNO' \in [Places -> Int]
    BY <1>4, <2>0 DEF TypeOK, ReleaseNext, ReleaseNeighbour, Signal
  <2>2. sleeping' \in SUBSET Nodes
    BY <1>4, <2>0 DEF TypeOK, ReleaseNext, ReleaseNeighbour, Signal
  <2>3. phase' \in [Places -> Phases]
    BY <1>4, <2>0 DEF TypeOK, ReleaseNext, ReleaseNeighbour, Signal, Phases
  <2>4. TypeOK'
    BY <1>4, <2>0, <2>1, <2>2, <2>3 DEF TypeOK, ReleaseNext, ReleaseNeighbour, Signal
  <2>5. IterShape'
    BY <1>4, <2>0 DEF TypeOK, IterShape, ReleaseNext, ReleaseNeighbour, Signal
  <2>q. QED BY <2>4, <2>5
<1>5. CASE ReleasePrev(n)
  <2>0. M_prev[n] \in Places
    BY <1>5 DEF TypeOK, IterShape, ReleasePrev, ReleaseNeighbour, Signal
  <2>1. usageNO' \in [Places -> Int]
    BY <1>5, <2>0 DEF TypeOK, ReleasePrev, ReleaseNeighbour, Signal
  <2>2. sleeping' \in SUBSET Nodes
    BY <1>5, <2>0 DEF TypeOK, ReleasePrev, ReleaseNeighbour, Signal
  <2>3. phase' \in [Places -> Phases]
    BY <1>5, <2>0 DEF TypeOK, ReleasePrev, ReleaseNeighbour, Signal, Phases
  <2>4. TypeOK'
    BY <1>5, <2>0, <2>1, <2>2, <2>3 DEF TypeOK, ReleasePrev, ReleaseNeighbour, Signal
  <2>5. IterShape'
    BY <1>5, <2>0 DEF TypeOK, IterShape, ReleasePrev, ReleaseNeighbour, Signal
  <2>q. QED BY <2>4, <2>5
<1>6. CASE StalePos(n)
  <2>1. usageNO' \in [Places -> Int]
    BY <1>6 DEF TypeOK, StalePos, Signal
  <2>2. sleeping' \in SUBSET Nodes
    BY <1>6 DEF TypeOK, StalePos, Signal
  <2>3. phase' \in [Places -> Phases]
    BY <1>6 DEF TypeOK, StalePos, Signal, Phases
  <2>4. TypeOK'
    BY <1>6, <2>1, <2>2, <2>3 DEF TypeOK, StalePos, Signal
  <2>5. IterShape'
    BY <1>6 DEF TypeOK, IterShape, StalePos, Signal
  <2>q. QED BY <2>4, <2>5
<1>7. CASE SpuriousWakeup(n)
  <2>1. sleeping' \in SUBSET Nodes
    BY <1>7 DEF TypeOK, SpuriousWakeup
  <2>2. TypeOK'
    BY <1>7, <2>1 DEF TypeOK, SpuriousWakeup
  <2>3. IterShape'
    BY <1>7 DEF TypeOK, IterShape, SpuriousWakeup
  <2>q. QED BY <2>2, <2>3
<1>q. QED BY <1>1, <1>2, <1>3, <1>4, <1>5, <1>6, <1>7 DEF EraserStep

LEMMA ShapeStep == Shape /\ [Next]_vars => Shape'
<1> SUFFICES ASSUME Shape, [Next]_vars PROVE Shape'
  OBVIOUS
<1>1. CASE UNCHANGED vars
  BY <1>1 DEF vars, Shape, TypeOK, IterShape
<1>q. QED
  BY <1>1, ShapeIterStep, ShapeWriterStep, ShapeEraserStep DEF Next

LEMMA ShapeInvariant == Spec => []Shape
BY ShapeInit, ShapeStep, PTL DEF Spec

\* Every variable keeps its type, however many nodes and iterators there are:
\* no iterator follows the pointers of NULL (xlist.hpp 240-420).
THEOREM TypeCorrect == Spec => []TypeOK
BY ShapeInvariant, PTL DEF Shape

-----------------------------------------------------------------------------
(* Layer 2: the phases of the nodes, the iterators that erase and the       *)
(* critical section agree.                                                  *)

Trans(m) == phase[m] \in {"pushed", "chained", "flagged", "bypassed"}

\* Iterator i is inside xerase_prepare, or inside erase with its node not yet done.
Busy(i) == pc[i] = "preparing" \/ (pc[i] = "stale" /\ phase[M_node[i]] # "done")

PhaseOfIter == \A i \in Iters :
  /\ pc[i] = "preparing" => phase[M_node[i]] \in {"flagged", "bypassed"}
  /\ pc[i] = "prepared" => phase[M_node[i]] = "unlinked"
  /\ pc[i] = "stale" => phase[M_node[i]] \in {"captured", "waiting", "freed", "nextReleased",
                                              "prevReleased", "done"}

OneWriter ==
  /\ \A m \in Nodes : phase[m] \in {"pushed", "chained"} => writer = "push_back"
  /\ \A m \in Nodes : phase[m] \in {"flagged", "bypassed"} =>
                        \E i \in Iters : pc[i] = "preparing" /\ M_node[i] = m
  /\ \A m, n \in Nodes : Trans(m) /\ Trans(n) => m = n
  /\ \A i \in Iters : Busy(i) => writer = "erasing"
  /\ \A i, j \in Iters : Busy(i) /\ Busy(j) => i = j
  /\ \A i, j \in Iters : pc[i] = "prepared" /\ pc[j] = "prepared" /\ M_node[i] = M_node[j] => i = j

WriterInv == phase[End] = "linked" /\ PhaseOfIter /\ OneWriter

LEMMA PhaseInit == Init => WriterInv
BY PlacesFacts DEF Init, WriterInv, PhaseOfIter, OneWriter, Trans, Busy

LEMMA PhaseIterStep ==
  ASSUME Shape, WriterInv, NEW i \in Iters, IterStep(i) \/ StaleFini(i) \/ Reset(i)
  PROVE  WriterInv'
<1> USE PlacesFacts DEF Shape, TypeOK, IterShape, WriterInv, PhaseOfIter, OneWriter,
        Trans, Busy, On, Free, NoWriter, is_erasing, nodeVars, useVars, iterVars
<1>1. CASE Begin(i)
  BY <1>1 DEF Begin
<1>2. CASE EndIter(i)
  BY <1>2 DEF EndIter
<1>3. CASE \E j \in Iters : Copy(i, j)
  BY <1>3 DEF Copy
<1>4. CASE \E j \in Iters : Assign(i, j)
  BY <1>4 DEF Assign
<1>5. CASE \E way \in {"++", "--"} : Move(i, way)
  BY <1>5 DEF Move
<1>6. CASE \E way \in {"++", "--"}, j \in Iters : MovePost(i, j, way)
  BY <1>6 DEF MovePost
<1>7. CASE ReadPointer(i)
  BY <1>7 DEF ReadPointer
<1>8. CASE AccessUnlock(i)
  BY <1>8 DEF AccessUnlock
<1>9. CASE Fini(i)
  BY <1>9 DEF Fini
<1>10. CASE StaleFini(i)
  BY <1>10 DEF StaleFini
<1>11. CASE Reset(i)
  BY <1>11 DEF Reset
<1>q. QED
  BY <1>1, <1>2, <1>3, <1>4, <1>5, <1>6, <1>7, <1>8, <1>9, <1>10, <1>11 DEF IterStep

LEMMA PhaseWriterStep ==
  ASSUME Shape, WriterInv, WriterStep
  PROVE  WriterInv'
<1> USE PlacesFacts DEF Shape, TypeOK, IterShape, WriterInv, PhaseOfIter, OneWriter,
        Trans, Busy, On, Free, NoWriter, is_erasing, nodeVars, useVars, iterVars
<1>1. CASE \E n \in Nodes : PushCreate(n)
  BY <1>1 DEF PushCreate
<1>2. CASE \E n \in Nodes : PushChain(n)
  BY <1>2 DEF PushChain
<1>3. CASE \E n \in Nodes : PushLink(n)
  BY <1>3 DEF PushLink
<1>4. CASE \E i \in Iters : Prepare(i)
  BY <1>4 DEF Prepare
<1>5. CASE \E i \in Iters : Bypass(i)
  BY <1>5 DEF Bypass
<1>6. CASE \E i \in Iters, inline \in BOOLEAN : Unlink(i, inline)
  BY <1>6 DEF Unlink
<1>7. CASE \E i \in Iters : Spawn(i)
  BY <1>7 DEF Spawn
<1>q. QED
  BY <1>1, <1>2, <1>3, <1>4, <1>5, <1>6, <1>7 DEF WriterStep

LEMMA PhaseEraserStep ==
  ASSUME Shape, WriterInv, NEW n \in Nodes, EraserStep(n) \/ SpuriousWakeup(n)
  PROVE  WriterInv'
<1> USE PlacesFacts DEF Shape, TypeOK, IterShape, WriterInv, PhaseOfIter, OneWriter,
        Trans, Busy, On, Free, NoWriter, is_erasing, nodeVars, useVars, iterVars
<1>1. CASE EraseFini(n)
  BY <1>1 DEF EraseFini
<1>2. CASE WaitForUsage(n)
  BY <1>2 DEF WaitForUsage
<1>3. CASE Destroy(n)
  BY <1>3 DEF Destroy
<1>4. CASE ReleaseNext(n)
  BY <1>4 DEF ReleaseNext, ReleaseNeighbour
<1>5. CASE ReleasePrev(n)
  BY <1>5 DEF ReleasePrev, ReleaseNeighbour
<1>6. CASE StalePos(n)
  BY <1>6 DEF StalePos
<1>7. CASE SpuriousWakeup(n)
  BY <1>7 DEF SpuriousWakeup
<1>q. QED
  BY <1>1, <1>2, <1>3, <1>4, <1>5, <1>6, <1>7 DEF EraserStep

LEMMA PhaseStep == Shape /\ WriterInv /\ [Next]_vars => WriterInv'
<1> SUFFICES ASSUME Shape, WriterInv, [Next]_vars PROVE WriterInv'
  OBVIOUS
<1>1. CASE UNCHANGED vars
  BY <1>1 DEF vars, WriterInv, PhaseOfIter, OneWriter, Trans, Busy
<1>q. QED
  BY <1>1, PhaseIterStep, PhaseWriterStep, PhaseEraserStep DEF Next

-----------------------------------------------------------------------------
(* Layer 3: the shape of the list, with the detours push_back and           *)
(* xerase_prepare make on the way.                                          *)

BackLinked(m) == phase[m] \in {"linked", "flagged"}
InList(m)     == phase[m] \in {"chained", "linked", "flagged", "bypassed"}
Detour(m)     == phase[m] \in {"chained", "bypassed"}
Born(m)       == phase[m] # "unborn"

Chain ==
  /\ \A m \in Places : BackLinked(m) =>
       /\ InList(M_next[m])
       /\ M_prev[M_next[m]] = m
       /\ BackLinked(M_prev[m])
       /\ \/ M_next[M_prev[m]] = m
          \/ Detour(M_next[M_prev[m]]) /\ M_next[M_next[M_prev[m]]] = m
  /\ \A s \in Nodes : Detour(s) =>
       /\ BackLinked(M_prev[s]) /\ M_next[M_prev[s]] = s
       /\ BackLinked(M_next[s]) /\ M_prev[M_next[s]] = M_prev[s]
  /\ \A s \in Nodes : phase[s] = "chained" => M_next[s] = End
  /\ \A s \in Nodes : phase[s] = "pushed" => M_next[s] = End /\ M_prev[s] = M_prev[End]

\* Nodes are born in order, and the order of birth is that of the list.
Order ==
  /\ \A m, n \in Nodes : m < n /\ Born(n) => Born(m)
  /\ \A m \in Nodes : Born(m) => (M_next[m] = End \/ m < M_next[m]) /\ M_prev[m] < m

AllBorn ==
  /\ \A m \in Places : Born(m) => Born(M_next[m]) /\ Born(M_prev[m])
  /\ \A i \in Iters : /\ M_node[i] # Null => Born(M_node[i])
                      /\ lockedNode[i] # Null => Born(lockedNode[i])

ListInv == Chain /\ Order /\ AllBorn

\* The list stays chained through every step.
LEMMA ListInit == Init => ListInv
BY PlacesFacts DEF Init, ListInv, Chain, Order, AllBorn, BackLinked, InList, Detour, Born, Null

LEMMA ListIterStep ==
  ASSUME Shape, WriterInv, ListInv, NEW i \in Iters, IterStep(i) \/ StaleFini(i) \/ Reset(i)
  PROVE  ListInv'
<1> USE PlacesFacts DEF Shape, TypeOK, IterShape, WriterInv, ListInv, On, Free, NoWriter, is_erasing, Locked,
        nodeVars, useVars, iterVars
<1>1. CASE Begin(i)
  BY <1>1 DEF Begin, PhaseOfIter, Chain, Order, AllBorn, BackLinked, InList, Detour, Born
<1>2. CASE EndIter(i)
  BY <1>2 DEF EndIter, PhaseOfIter, Chain, Order, AllBorn, BackLinked, InList, Detour, Born
<1>3. CASE \E j \in Iters : Copy(i, j)
  BY <1>3 DEF Copy, PhaseOfIter, Chain, Order, AllBorn, BackLinked, InList, Detour, Born
<1>4. CASE \E j \in Iters : Assign(i, j)
  BY <1>4 DEF Assign, PhaseOfIter, Chain, Order, AllBorn, BackLinked, InList, Detour, Born
<1>5. CASE \E way \in {"++", "--"} : Move(i, way)
  BY <1>5 DEF Move, PhaseOfIter, Chain, Order, AllBorn, BackLinked, InList, Detour, Born
<1>6. CASE \E way \in {"++", "--"}, j \in Iters : MovePost(i, j, way)
  BY <1>6 DEF MovePost, PhaseOfIter, Chain, Order, AllBorn, BackLinked, InList, Detour, Born
<1>7. CASE ReadPointer(i)
  <2>1. M_node[i] \in Places /\ Born(M_next[M_node[i]]) /\ Born(M_prev[M_node[i]])
    BY <1>7 DEF ReadPointer, AllBorn
  <2>2. /\ M_node'[i] \in {M_next[M_node[i]], M_prev[M_node[i]]}
        /\ \A j \in Iters \ {i} : M_node'[j] = M_node[j]
        /\ phase' = phase /\ M_next' = M_next /\ M_prev' = M_prev /\ lockedNode' = lockedNode
    BY <1>7 DEF ReadPointer
  <2>3. Chain' /\ Order'
    BY <2>2 DEF Chain, Order, Born, BackLinked, InList, Detour
  <2>4. AllBorn'
    BY <2>1, <2>2 DEF AllBorn, Born
  <2>q. QED BY <2>3, <2>4
<1>8. CASE AccessUnlock(i)
  BY <1>8 DEF AccessUnlock, PhaseOfIter, Chain, Order, AllBorn, BackLinked, InList, Detour, Born
<1>9. CASE Fini(i)
  BY <1>9 DEF Fini, PhaseOfIter, Chain, Order, AllBorn, BackLinked, InList, Detour, Born
<1>10. CASE StaleFini(i)
  BY <1>10 DEF StaleFini, PhaseOfIter, Chain, Order, AllBorn, BackLinked, InList, Detour, Born
<1>11. CASE Reset(i)
  BY <1>11 DEF Reset, PhaseOfIter, Chain, Order, AllBorn, BackLinked, InList, Detour, Born
<1>q. QED
  BY <1>1, <1>2, <1>3, <1>4, <1>5, <1>6, <1>7, <1>8, <1>9, <1>10, <1>11 DEF IterStep

LEMMA ListWriterStep ==
  ASSUME Shape, WriterInv, ListInv, WriterStep
  PROVE  ListInv'
<1> USE PlacesFacts DEF Shape, TypeOK, IterShape, WriterInv, ListInv, On, Free, NoWriter, is_erasing, Locked,
        nodeVars, useVars, iterVars
<1>1. CASE \E n \in Nodes : PushCreate(n)
  <2>p. PICK n \in Nodes : PushCreate(n)
    BY <1>1
  <2>1. /\ ~Born(n) /\ \A m \in Nodes : m < n => Born(m)
        /\ \A m \in Places : ~Trans(m)
    BY <2>p DEF PushCreate, Born, OneWriter, Busy, Trans, Nodes, Places, End
  <2>2. M_prev[End] \in Places /\ Born(M_prev[End]) /\ M_prev[End] # n
    BY <2>1 DEF AllBorn, Born
  <2>3. M_prev[End] < n
    BY <2>1, <2>2 DEF Order, Places, Nodes, End
  <2>4. /\ \A m \in Places : M_next'[m] = IF m = n THEN End ELSE M_next[m]
        /\ \A m \in Places : M_prev'[m] = IF m = n THEN M_prev[End] ELSE M_prev[m]
        /\ \A m \in Places : phase'[m] = IF m = n THEN "pushed" ELSE phase[m]
        /\ M_node' = M_node /\ lockedNode' = lockedNode
    BY <2>p DEF PushCreate
  <2>5. Chain'
    BY <2>p DEF PushCreate, OneWriter, Trans, Busy, Chain, AllBorn, BackLinked, InList, Detour, Born
  <2>6. Order'
    <3>1. \A m \in Places : Born(m)' <=> Born(m) \/ m = n
      BY <2>4 DEF Born
    <3>2. ASSUME NEW k \in Nodes, NEW m \in Nodes, k < m, Born(m)'
          PROVE  Born(k)'
      BY <2>1, <3>1, <3>2 DEF Order
    <3>3. ASSUME NEW m \in Nodes, Born(m)'
          PROVE  (M_next'[m] = End \/ m < M_next'[m]) /\ M_prev'[m] < m
      BY <2>3, <2>4, <3>1, <3>3 DEF Order
    <3>q. QED BY <3>2, <3>3 DEF Order
  <2>7. AllBorn'
    <3>1. ASSUME NEW m \in Places, Born(m)'
          PROVE  Born(M_next[m])' /\ Born(M_prev[m])'
      <4>1. CASE m = n
        BY <4>1, <2>1, <2>2, <2>4, <2>p DEF Born
      <4>2. CASE m # n
        <5>1. Born(M_next[m]) /\ Born(M_prev[m])
          BY <3>1, <4>2, <2>4 DEF AllBorn, Born
        <5>q. QED BY <5>1, <4>2, <2>1, <2>4 DEF Born
      <4>q. QED BY <4>1, <4>2
    <3>2. \A m \in Places : Born(m) => Born(m)'
      BY <2>4 DEF Born
    <3>q. QED BY <3>1, <3>2, <2>4 DEF AllBorn
  <2>q. QED BY <2>5, <2>6, <2>7
<1>2. CASE \E n \in Nodes : PushChain(n)
  BY <1>2 DEF PushChain, OneWriter, PhaseOfIter, Trans, Chain, Order, AllBorn, BackLinked, InList, Detour, Born
<1>3. CASE \E n \in Nodes : PushLink(n)
  BY <1>3 DEF PushLink, OneWriter, PhaseOfIter, Trans, Chain, Order, AllBorn, BackLinked, InList, Detour, Born
<1>4. CASE \E i \in Iters : Prepare(i)
  BY <1>4 DEF Prepare, OneWriter, PhaseOfIter, Trans, Busy, Chain, Order, AllBorn, BackLinked, InList, Detour, Born
<1>5. CASE \E i \in Iters : Bypass(i)
  <2>p. PICK i \in Iters : Bypass(i)
    BY <1>5
  <2> DEFINE n == M_node[i]
             p == M_prev[n]
             x == M_next[n]
  <2>1. /\ n \in Nodes /\ p \in Places /\ x \in Places /\ n \in Places /\ n # End
        /\ phase[n] = "flagged" /\ M_prev[n] = p /\ M_next[n] = x
    BY <2>p DEF Bypass, PhaseOfIter
  <2>2. p # n /\ x # n /\ p < n /\ (x = End \/ n < x)
    BY <2>1 DEF Order, Born, Places
  <2>3. \A m \in Places : ~Detour(m)
    BY <2>1 DEF OneWriter, Trans, Detour, Places, Nodes, End
  <2>4. \A m \in Places : BackLinked(m) => /\ BackLinked(M_prev[m]) /\ M_next[M_prev[m]] = m
                                           /\ InList(M_next[m]) /\ M_prev[M_next[m]] = m
    BY <2>3 DEF Chain
  <2>5. BackLinked(n) /\ BackLinked(p) /\ BackLinked(x)
    <3>1. BackLinked(n) BY <2>1 DEF BackLinked
    <3>2. BackLinked(p) /\ InList(x) BY <3>1, <2>1, <2>4
    <3>q. QED BY <3>1, <3>2, <2>1, <2>3 DEF InList, BackLinked, Detour
  <2>6. /\ M_next' = M_next
        /\ \A m \in Places : M_prev'[m] = IF m = x THEN p ELSE M_prev[m]
        /\ \A m \in Places : phase'[m] = IF m = n THEN "bypassed" ELSE phase[m]
        /\ M_node' = M_node /\ lockedNode' = lockedNode
    BY <2>p, <2>1 DEF Bypass
  <2> HIDE DEF n, p, x
  <2>7. \A m \in Places : /\ BackLinked(m)' <=> BackLinked(m) /\ m # n
                          /\ InList(m)' <=> InList(m)
                          /\ Born(m)' <=> Born(m)
                          /\ Detour(m)' <=> m = n
    BY <2>1, <2>3, <2>6 DEF BackLinked, InList, Born, Detour
  <2>8. Chain'
    <3>1. ASSUME NEW m \in Places, BackLinked(m)'
          PROVE  /\ InList(M_next[m])'
                 /\ M_prev'[M_next'[m]] = m
                 /\ BackLinked(M_prev[m])'
                 /\ \/ M_next'[M_prev'[m]] = m
                    \/ Detour(M_next[M_prev[m]])' /\ M_next'[M_next'[M_prev'[m]]] = m
      <4>1. BackLinked(m) /\ m # n /\ M_next[m] \in Places /\ M_prev[m] \in Places
        BY <3>1, <2>7
      <4>2. InList(M_next[m])' /\ M_prev'[M_next'[m]] = m
        <5>1. InList(M_next[m]) /\ M_prev[M_next[m]] = m BY <4>1, <2>4
        <5>2. M_next[m] # x BY <5>1, <4>1, <2>4, <2>5, <2>1
        <5>q. QED BY <5>1, <5>2, <4>1, <2>6 DEF InList
      <4>3. CASE m = x
        BY <4>1, <4>2, <4>3, <2>1, <2>2, <2>4, <2>5, <2>6, <2>7
      <4>4. CASE m # x
        <5>1. M_prev[m] # n BY <4>1, <4>4, <2>4, <2>1
        <5>q. QED BY <5>1, <4>1, <4>2, <4>4, <2>4, <2>6, <2>7
      <4>q. QED BY <4>3, <4>4
    <3>2. ASSUME NEW s \in Nodes, Detour(s)'
          PROVE  /\ BackLinked(M_prev[s])' /\ M_next'[M_prev'[s]] = s
                 /\ BackLinked(M_next[s])' /\ M_prev'[M_next'[s]] = M_prev'[s]
      <4>1. s = n BY <3>2, <2>7
      <4>q. QED BY <4>1, <2>1, <2>2, <2>4, <2>5, <2>6, <2>7
    <3>3. \A s \in Nodes : phase'[s] \notin {"chained", "pushed"}
      BY <2>1, <2>6 DEF OneWriter, Trans
    <3>q. QED BY <3>1, <3>2, <3>3 DEF Chain
  <2>9. Order'
    <3>1. ASSUME NEW m \in Nodes, Born(m)'
          PROVE  (M_next'[m] = End \/ m < M_next'[m]) /\ M_prev'[m] < m
      BY <3>1, <2>1, <2>2, <2>6, <2>7 DEF Order
    <3>q. QED BY <3>1, <2>7 DEF Order
  <2>10. AllBorn'
    <3>1. ASSUME NEW m \in Places, Born(m)'
          PROVE  Born(M_next[m])' /\ Born(M_prev[m])'
      <4>1. Born(M_next[m]) /\ Born(M_prev[m]) /\ Born(p)
        BY <3>1, <2>1, <2>7, <2>5 DEF AllBorn, Born, BackLinked
      <4>q. QED BY <4>1, <2>1, <2>6 DEF Born
    <3>q. QED BY <3>1, <2>6, <2>7 DEF AllBorn
  <2>q. QED BY <2>8, <2>9, <2>10
<1>6. CASE \E i \in Iters, inline \in BOOLEAN : Unlink(i, inline)
  <2>p. PICK i \in Iters, inline \in BOOLEAN : Unlink(i, inline)
    BY <1>6
  <2> DEFINE n == M_node[i]
             p == M_prev[n]
             x == M_next[n]
  <2>1. /\ n \in Nodes /\ p \in Places /\ x \in Places /\ n \in Places /\ n # End
        /\ phase[n] = "bypassed" /\ M_prev[n] = p /\ M_next[n] = x
    BY <2>p DEF Unlink, PhaseOfIter
  <2>2. p # n /\ x # n /\ p < n /\ (x = End \/ n < x)
    BY <2>1 DEF Order, Born, Places
  <2>3. \A m \in Places : m # n => ~Detour(m)
    BY <2>1 DEF OneWriter, Trans, Detour, Places, Nodes, End
  <2>4. /\ BackLinked(p) /\ M_next[p] = n
        /\ BackLinked(x) /\ M_prev[x] = p
    BY <2>1 DEF Chain, Detour
  <2>5. \A m \in Places : BackLinked(m) =>
          /\ BackLinked(M_prev[m]) /\ (M_next[M_prev[m]] = m \/ (M_next[M_prev[m]] = n /\ m = x))
          /\ InList(M_next[m]) /\ M_prev[M_next[m]] = m
    BY <2>1, <2>3 DEF Chain
  <2>6. /\ M_prev' = M_prev
        /\ \A m \in Places : M_next'[m] = IF m = p THEN x ELSE M_next[m]
        /\ \A m \in Places : m # n => phase'[m] = phase[m]
        /\ phase'[n] \in {"unlinked", "captured"}
        /\ M_node' = M_node /\ lockedNode' = lockedNode
    BY <2>p, <2>1 DEF Unlink
  <2> HIDE DEF n, p, x
  <2>7. \A m \in Places : /\ BackLinked(m)' <=> BackLinked(m)
                          /\ InList(m)' <=> InList(m) /\ m # n
                          /\ Born(m)' <=> Born(m)
                          /\ ~Detour(m)'
    BY <2>1, <2>3, <2>6 DEF BackLinked, InList, Born, Detour
  <2>8. Chain'
    <3>1. ASSUME NEW m \in Places, BackLinked(m)'
          PROVE  /\ InList(M_next[m])'
                 /\ M_prev'[M_next'[m]] = m
                 /\ BackLinked(M_prev[m])'
                 /\ M_next'[M_prev'[m]] = m
      <4>1. BackLinked(m) /\ M_next[m] \in Places /\ M_prev[m] \in Places
        BY <3>1, <2>7
      <4>2. InList(M_next[m])' /\ M_prev'[M_next'[m]] = m
        <5>1. CASE m = p
          BY <5>1, <2>1, <2>2, <2>4, <2>6, <2>7 DEF InList, BackLinked
        <5>2. CASE m # p
          <6>1. M_next[m] # n BY <5>2, <4>1, <2>5, <2>1
          <6>q. QED BY <6>1, <5>2, <4>1, <2>5, <2>6, <2>7
        <5>q. QED BY <5>1, <5>2
      <4>3. BackLinked(M_prev[m])' /\ M_next'[M_prev'[m]] = m
        <5>1. CASE m = x
          BY <5>1, <4>1, <2>1, <2>4, <2>6, <2>7
        <5>2. CASE m # x
          <6>1. M_prev[m] # p \/ m = n BY <5>2, <4>1, <2>5, <2>4
          <6>2. m # n BY <4>1, <2>1 DEF BackLinked
          <6>q. QED BY <6>1, <6>2, <5>2, <4>1, <2>5, <2>6, <2>7
        <5>q. QED BY <5>1, <5>2
      <4>q. QED BY <4>2, <4>3
    <3>2. \A s \in Nodes : phase'[s] \notin {"chained", "pushed"}
      BY <2>1, <2>6 DEF OneWriter, Trans
    <3>q. QED BY <3>1, <3>2, <2>7 DEF Chain, Places, Nodes
  <2>9. Order'
    BY <2>1, <2>2, <2>6, <2>7 DEF Order, Born, Places
  <2>10. AllBorn'
    <3>1. ASSUME NEW m \in Places, Born(m)'
          PROVE  Born(M_next[m])' /\ Born(M_prev[m])'
      <4>1. Born(M_next[m]) /\ Born(M_prev[m]) /\ Born(x)
        BY <3>1, <2>1, <2>7, <2>4 DEF AllBorn, Born, BackLinked
      <4>q. QED BY <4>1, <2>1, <2>6 DEF Born
    <3>q. QED BY <3>1, <2>6, <2>7 DEF AllBorn
  <2>q. QED BY <2>8, <2>9, <2>10
<1>7. CASE \E i \in Iters : Spawn(i)
  BY <1>7 DEF Spawn, PhaseOfIter, Chain, Order, AllBorn, BackLinked, InList, Detour, Born
<1>q. QED
  BY <1>1, <1>2, <1>3, <1>4, <1>5, <1>6, <1>7 DEF WriterStep

LEMMA ListEraserStep ==
  ASSUME Shape, WriterInv, ListInv, NEW n \in Nodes, EraserStep(n) \/ SpuriousWakeup(n)
  PROVE  ListInv'
<1> USE PlacesFacts DEF Shape, TypeOK, IterShape, WriterInv, ListInv, On, Free, NoWriter, is_erasing, Locked,
        nodeVars, useVars, iterVars
<1>1. CASE EraseFini(n)
  BY <1>1 DEF EraseFini, PhaseOfIter, Chain, Order, AllBorn, BackLinked, InList, Detour, Born
<1>2. CASE WaitForUsage(n)
  BY <1>2 DEF WaitForUsage, PhaseOfIter, Chain, Order, AllBorn, BackLinked, InList, Detour, Born
<1>3. CASE Destroy(n)
  BY <1>3 DEF Destroy, PhaseOfIter, Chain, Order, AllBorn, BackLinked, InList, Detour, Born
<1>4. CASE ReleaseNext(n)
  BY <1>4 DEF ReleaseNext, ReleaseNeighbour, PhaseOfIter, Chain, Order, AllBorn, BackLinked, InList, Detour, Born
<1>5. CASE ReleasePrev(n)
  BY <1>5 DEF ReleasePrev, ReleaseNeighbour, PhaseOfIter, Chain, Order, AllBorn, BackLinked, InList, Detour, Born
<1>6. CASE StalePos(n)
  BY <1>6 DEF StalePos, PhaseOfIter, Chain, Order, AllBorn, BackLinked, InList, Detour, Born
<1>7. CASE SpuriousWakeup(n)
  BY <1>7 DEF SpuriousWakeup, PhaseOfIter, Chain, Order, AllBorn, BackLinked, InList, Detour, Born
<1>q. QED
  BY <1>1, <1>2, <1>3, <1>4, <1>5, <1>6, <1>7 DEF EraserStep

LEMMA ListStep == Shape /\ WriterInv /\ ListInv /\ [Next]_vars => ListInv'
<1> SUFFICES ASSUME Shape, WriterInv, ListInv, [Next]_vars PROVE ListInv'
  OBVIOUS
<1>1. CASE UNCHANGED vars
  BY <1>1 DEF vars, ListInv, Chain, Order, AllBorn, BackLinked, InList, Detour, Born
<1>q. QED
  BY <1>1, ListIterStep, ListWriterStep, ListEraserStep DEF Next

LEMMA ListInvariant == Spec => [](Shape /\ WriterInv /\ ListInv)
<1>1. Init => Shape /\ WriterInv /\ ListInv
  BY ShapeInit, PhaseInit, ListInit
<1>2. (Shape /\ WriterInv /\ ListInv) /\ [Next]_vars => (Shape /\ WriterInv /\ ListInv)'
  BY ShapeStep, PhaseStep, ListStep
<1>q. QED BY <1>1, <1>2, PTL DEF Spec

-----------------------------------------------------------------------------
(* What an iteration meets: elements in the order of push_back, none left   *)
(* out, also when it starts from a node that was erased meanwhile.          *)

\* The sentinel leads back to the youngest element.
LastInv == \A y \in Nodes : phase[y] = "linked" => y <= M_prev[End]

\* While push_back is under way its node is the youngest.
Youngest == \A k, m \in Nodes : phase[k] \in {"pushed", "chained"} /\ Born(m) => m <= k

OrderInv == TraversalOrder /\ LastInv /\ Youngest

\* The order depends on the pointers and the phases alone.
LEMMA OrderSame ==
  ASSUME OrderInv, M_next' = M_next, M_prev' = M_prev,
         \A m \in Places : /\ phase'[m] = "linked" => phase[m] = "linked"
                           /\ phase'[m] \in {"pushed", "chained"} => phase[m] \in {"pushed", "chained"}
                           /\ phase'[m] = "unborn" <=> phase[m] = "unborn"
  PROVE  OrderInv'
<1>1. TraversalOrder'
  BY PlacesFacts DEF OrderInv, TraversalOrder
<1>2. LastInv'
  BY PlacesFacts DEF OrderInv, LastInv
<1>3. Youngest'
  BY PlacesFacts DEF OrderInv, Youngest, Born
<1>q. QED BY <1>1, <1>2, <1>3 DEF OrderInv

LEMMA OrderInit == Init => OrderInv
BY PlacesFacts DEF Init, OrderInv, TraversalOrder, LastInv, Youngest, Born

LEMMA OrderIterStep ==
  ASSUME Shape, OrderInv, NEW i \in Iters, IterStep(i) \/ StaleFini(i) \/ Reset(i)
  PROVE  OrderInv'
<1>1. phase' = phase /\ M_next' = M_next /\ M_prev' = M_prev
  BY DEF IterStep, StaleFini, Reset, Begin, EndIter, Copy, Assign, Move, MovePost, ReadPointer,
         AccessUnlock, Fini, nodeVars
<1>q. QED BY <1>1, OrderSame

LEMMA OrderEraserStep ==
  ASSUME Shape, OrderInv, NEW k \in Nodes, EraserStep(k) \/ SpuriousWakeup(k)
  PROVE  OrderInv'
<1>1. M_next' = M_next /\ M_prev' = M_prev
  BY DEF EraserStep, SpuriousWakeup, EraseFini, WaitForUsage, Destroy, ReleaseNext, ReleasePrev,
         ReleaseNeighbour, StalePos, nodeVars
<1>2. \/ phase' = phase
      \/ /\ \A m \in Places : m # k => phase'[m] = phase[m]
         /\ phase[k] # "unborn"
         /\ phase'[k] \notin {"unborn", "pushed", "chained", "linked"}
  BY PlacesFacts DEF EraserStep, SpuriousWakeup, EraseFini, WaitForUsage, Destroy, ReleaseNext,
         ReleasePrev, ReleaseNeighbour, StalePos, nodeVars, Shape, TypeOK
<1>3. \A m \in Places : /\ phase'[m] = "linked" => phase[m] = "linked"
                        /\ phase'[m] \in {"pushed", "chained"} => phase[m] \in {"pushed", "chained"}
                        /\ phase'[m] = "unborn" <=> phase[m] = "unborn"
  BY <1>2
<1>q. QED BY <1>1, <1>3, OrderSame

LEMMA OrderPushCreate ==
  ASSUME Shape, WriterInv, ListInv, OrderInv, NEW k \in Nodes, PushCreate(k)
  PROVE  OrderInv'
<1> USE PlacesFacts
<1>1. /\ k \in Places /\ k # End /\ phase[k] = "unborn"
      /\ \A m \in Places : phase'[m] = IF m = k THEN "pushed" ELSE phase[m]
      /\ \A m \in Places : M_next'[m] = IF m = k THEN End ELSE M_next[m]
      /\ \A m \in Places : M_prev'[m] = IF m = k THEN M_prev[End] ELSE M_prev[m]
  BY DEF PushCreate, Shape, TypeOK
<1>2. M_prev[End] < k
  <2>1. Born(M_prev[End]) /\ M_prev[End] \in Places
    BY DEF ListInv, AllBorn, WriterInv, Born, Shape, TypeOK
  <2>2. M_prev[End] # k
    BY <1>1, <2>1 DEF Born
  <2>3. M_prev[End] \in Nodes => ~(k < M_prev[End])
    BY <1>1, <2>1 DEF ListInv, Order, Born
  <2>q. QED BY <2>1, <2>2, <2>3 DEF Places, Nodes, End
<1>3. TraversalOrder'
  <2> SUFFICES ASSUME NEW n \in Nodes, NEW y \in Nodes, phase'[n] # "unborn", phase'[y] = "linked"
               PROVE  /\ M_next'[n] # End => n < M_next'[n] /\ ~(n < y /\ y < M_next'[n])
                      /\ M_prev'[n] < n /\ ~(M_prev'[n] < y /\ y < n)
                      /\ phase'[n] = "linked" /\ M_next'[n] = End => y <= n
    BY DEF TraversalOrder
  <2>1. phase[y] = "linked" /\ y # k
    BY <1>1
  <2>2. CASE n = k
    BY <2>1, <2>2, <1>1, <1>2 DEF OrderInv, LastInv, Shape, TypeOK, Places, Nodes, End
  <2>3. CASE n # k
    BY <2>1, <2>3, <1>1 DEF OrderInv, TraversalOrder
  <2>q. QED BY <2>2, <2>3
<1>4. LastInv'
  BY <1>1 DEF OrderInv, LastInv
<1>5. Youngest'
  <2>1. \A m \in Nodes : phase[m] \notin {"pushed", "chained"}
    BY DEF PushCreate, NoWriter, WriterInv, OneWriter
  <2>2. \A m \in Nodes : Born(m) => m < k
    BY <1>1 DEF ListInv, Order, Born, Nodes
  <2>q. QED BY <1>1, <2>1, <2>2 DEF Youngest, Born, Nodes
<1>q. QED BY <1>3, <1>4, <1>5 DEF OrderInv

LEMMA OrderPushChain ==
  ASSUME Shape, WriterInv, ListInv, OrderInv, NEW k \in Nodes, PushChain(k)
  PROVE  OrderInv'
<1> USE PlacesFacts
<1> DEFINE p == M_prev[End]
<1>1. /\ p \in Places /\ k \in Places /\ phase[k] = "pushed" /\ p < k /\ M_prev' = M_prev
      /\ \A m \in Places : phase'[m] = IF m = k THEN "chained" ELSE phase[m]
      /\ \A m \in Places : M_next'[m] = IF m = p THEN k ELSE M_next[m]
  BY DEF PushChain, Shape, TypeOK, ListInv, Chain, Order, Born
<1>2. \A y \in Nodes : phase[y] = "linked" => y <= p
  BY DEF OrderInv, LastInv
<1> HIDE DEF p
<1>3. TraversalOrder'
  <2> SUFFICES ASSUME NEW n \in Nodes, NEW y \in Nodes, phase'[n] # "unborn", phase'[y] = "linked"
               PROVE  /\ M_next'[n] # End => n < M_next'[n] /\ ~(n < y /\ y < M_next'[n])
                      /\ M_prev'[n] < n /\ ~(M_prev'[n] < y /\ y < n)
                      /\ phase'[n] = "linked" /\ M_next'[n] = End => y <= n
    BY DEF TraversalOrder
  <2>1. phase[y] = "linked" /\ y # k /\ phase[n] # "unborn"
    BY <1>1
  <2>2. M_prev'[n] < n /\ ~(M_prev'[n] < y /\ y < n)
    BY <2>1, <1>1 DEF OrderInv, TraversalOrder
  <2>3. CASE n = p
    BY <2>1, <2>2, <2>3, <1>1, <1>2 DEF Places, Nodes, End
  <2>4. CASE n # p
    BY <2>1, <2>2, <2>4, <1>1 DEF OrderInv, TraversalOrder
  <2>q. QED BY <2>3, <2>4
<1>4. LastInv'
  BY <1>1 DEF OrderInv, LastInv
<1>5. Youngest'
  BY <1>1 DEF OrderInv, Youngest, Born
<1>q. QED BY <1>3, <1>4, <1>5 DEF OrderInv

LEMMA OrderPushLink ==
  ASSUME Shape, WriterInv, ListInv, OrderInv, NEW k \in Nodes, PushLink(k)
  PROVE  OrderInv'
<1> USE PlacesFacts
<1>1. /\ k \in Places /\ k # End /\ phase[k] = "chained" /\ M_next' = M_next
      /\ \A m \in Places : phase'[m] = IF m = k THEN "linked" ELSE phase[m]
      /\ \A m \in Places : M_prev'[m] = IF m = End THEN k ELSE M_prev[m]
      /\ M_next[k] = End
  BY DEF PushLink, Shape, TypeOK, ListInv, Chain
<1>2. M_prev[End] < k /\ M_prev[End] \in Places
  <2>1. M_prev[k] = M_prev[End] /\ M_prev[k] < k
    BY <1>1 DEF ListInv, Chain, Order, Detour, Born
  <2>q. QED BY <2>1, <1>1 DEF Shape, TypeOK
<1>3. \A m \in Nodes : Born(m) => m <= k
  BY <1>1 DEF OrderInv, Youngest
<1>4. TraversalOrder'
  <2> SUFFICES ASSUME NEW n \in Nodes, NEW y \in Nodes, phase'[n] # "unborn", phase'[y] = "linked"
               PROVE  /\ M_next'[n] # End => n < M_next'[n] /\ ~(n < y /\ y < M_next'[n])
                      /\ M_prev'[n] < n /\ ~(M_prev'[n] < y /\ y < n)
                      /\ phase'[n] = "linked" /\ M_next'[n] = End => y <= n
    BY DEF TraversalOrder
  <2>1. /\ n \in Places /\ n # End /\ Born(n) /\ n <= k
        /\ M_next'[n] = M_next[n] /\ M_prev'[n] = M_prev[n]
    BY <1>1, <1>3 DEF Born
  <2>2. M_next[n] # End => M_next[n] \in Nodes /\ n < M_next[n] /\ M_next[n] <= k
    <3>1. M_next[n] \in Places /\ Born(M_next[n]) /\ (M_next[n] = End \/ n < M_next[n])
      BY <2>1 DEF ListInv, Order, AllBorn, Shape, TypeOK
    <3>2. M_next[n] # End => M_next[n] \in Nodes
      BY <3>1 DEF Places, Nodes, End
    <3>q. QED BY <3>1, <3>2, <1>3
  <2>3. M_prev[n] < n
    BY <2>1 DEF ListInv, Order
  <2>4. CASE y = k
    <3>1. phase'[n] = "linked" /\ M_next[n] = End => n = k
      <4>1. SUFFICES ASSUME n # k, phase[n] = "linked", M_next[n] = End
                     PROVE  FALSE
        BY <1>1, <2>1
      <4>2. M_prev[End] = n
        BY <4>1, <2>1 DEF ListInv, Chain, BackLinked
      <4>3. M_next[M_prev[End]] = k
        BY <1>1 DEF ListInv, Chain, Detour
      <4>q. QED BY <4>1, <4>2, <4>3, <1>1
    <3>q. QED BY <2>1, <2>2, <2>3, <2>4, <3>1 DEF Nodes
  <2>5. CASE y # k
    <3>1. phase[y] = "linked"
      BY <2>5, <1>1
    <3>2. y <= k
      BY <3>1, <1>3 DEF Born
    <3>q. QED BY <2>1, <3>1, <3>2, <1>1 DEF OrderInv, TraversalOrder, Born
  <2>q. QED BY <2>4, <2>5
<1>5. LastInv'
  BY <1>1, <1>3 DEF LastInv, Born
<1>6. Youngest'
  BY <1>1 DEF OrderInv, Youngest, Born
<1>q. QED BY <1>4, <1>5, <1>6 DEF OrderInv

LEMMA OrderPrepare ==
  ASSUME Shape, WriterInv, ListInv, OrderInv, NEW i \in Iters, Prepare(i)
  PROVE  OrderInv'
<1>1. M_next' = M_next /\ M_prev' = M_prev
  BY DEF Prepare
<1>2. \A m \in Places : /\ phase'[m] = "linked" => phase[m] = "linked"
                        /\ phase'[m] \in {"pushed", "chained"} => phase[m] \in {"pushed", "chained"}
                        /\ phase'[m] = "unborn" <=> phase[m] = "unborn"
  <2>1. M_node[i] \in Places /\ Born(M_node[i])
    BY DEF Prepare, On, Shape, TypeOK, ListInv, AllBorn
  <2>q. QED BY <2>1 DEF Prepare, Shape, TypeOK, Born
<1>q. QED BY <1>1, <1>2, OrderSame

LEMMA OrderSpawn ==
  ASSUME Shape, WriterInv, ListInv, OrderInv, NEW i \in Iters, Spawn(i)
  PROVE  OrderInv'
<1>1. M_next' = M_next /\ M_prev' = M_prev
  BY DEF Spawn
<1>2. \A m \in Places : /\ phase'[m] = "linked" => phase[m] = "linked"
                        /\ phase'[m] \in {"pushed", "chained"} => phase[m] \in {"pushed", "chained"}
                        /\ phase'[m] = "unborn" <=> phase[m] = "unborn"
  BY PlacesFacts DEF Spawn, Shape, TypeOK, IterShape, WriterInv, PhaseOfIter
<1>q. QED BY <1>1, <1>2, OrderSame

\* What the two pointer changes of xerase_prepare have in common.
Around(i, k, p, x) ==
  /\ k = M_node[i] /\ p = M_prev[k] /\ x = M_next[k]
  /\ k \in Nodes /\ p \in Places /\ x \in Places
  /\ Born(k) /\ phase[k] # "linked" /\ p < k /\ (x = End \/ k < x)
  /\ \A m \in Places : m # k => phase'[m] = phase[m]
  /\ phase'[k] \notin {"unborn", "pushed", "chained", "linked"}

LEMMA AroundSame ==
  ASSUME Shape, OrderInv, NEW i, NEW k, NEW p, NEW x, Around(i, k, p, x)
  PROVE  /\ \A m \in Places : /\ phase'[m] = "linked" => phase[m] = "linked" /\ m # k
                              /\ phase'[m] = "unborn" <=> phase[m] = "unborn"
         /\ Youngest'
<1>1. \A m \in Places : /\ phase'[m] = "linked" => phase[m] = "linked" /\ m # k
                        /\ phase'[m] = "unborn" <=> phase[m] = "unborn"
                        /\ phase'[m] \in {"pushed", "chained"} => phase[m] \in {"pushed", "chained"}
  BY PlacesFacts DEF Around, Born
<1>2. Youngest'
  BY <1>1, PlacesFacts DEF OrderInv, Youngest, Born
<1>q. QED BY <1>1, <1>2

LEMMA OrderBypass ==
  ASSUME Shape, WriterInv, ListInv, OrderInv, NEW i \in Iters, Bypass(i),
         NEW k, NEW p, NEW x, k = M_node[i], p = M_prev[k], x = M_next[k]
  PROVE  OrderInv'
<1> USE PlacesFacts
<1>1. /\ k \in Nodes /\ k \in Places /\ p \in Places /\ x \in Places /\ phase[k] = "flagged"
      /\ M_next' = M_next
      /\ \A m \in Places : M_prev'[m] = IF m = x THEN p ELSE M_prev[m]
      /\ \A m \in Places : phase'[m] = IF m = k THEN "bypassed" ELSE phase[m]
  BY DEF Bypass, Shape, TypeOK, IterShape
<1>2. p < k /\ (x = End \/ k < x) /\ M_prev[x] = k
  BY <1>1 DEF ListInv, Order, Chain, Born, BackLinked
<1>3. Around(i, k, p, x)
  BY <1>1, <1>2 DEF Around, Born
<1>4. /\ \A m \in Places : /\ phase'[m] = "linked" => phase[m] = "linked" /\ m # k
                           /\ phase'[m] = "unborn" <=> phase[m] = "unborn"
      /\ Youngest'
  BY <1>3, AroundSame
<1>5. \A y \in Nodes : phase[y] = "linked" => ~(p < y /\ y < k)
  BY <1>1 DEF OrderInv, TraversalOrder
<1>6. TraversalOrder'
  <2> SUFFICES ASSUME NEW n \in Nodes, NEW y \in Nodes, phase'[n] # "unborn", phase'[y] = "linked"
               PROVE  /\ M_next'[n] # End => n < M_next'[n] /\ ~(n < y /\ y < M_next'[n])
                      /\ M_prev'[n] < n /\ ~(M_prev'[n] < y /\ y < n)
                      /\ phase'[n] = "linked" /\ M_next'[n] = End => y <= n
    BY DEF TraversalOrder
  <2>1. /\ phase[n] # "unborn" /\ phase[y] = "linked" /\ y # k /\ n \in Places /\ n # End
        /\ phase'[n] = "linked" => phase[n] = "linked"
    BY <1>4
  <2>2. /\ M_next[n] # End => n < M_next[n] /\ ~(n < y /\ y < M_next[n])
        /\ M_prev[n] < n /\ ~(M_prev[n] < y /\ y < n)
        /\ phase[n] = "linked" /\ M_next[n] = End => y <= n
    BY <2>1 DEF OrderInv, TraversalOrder
  <2>3. CASE n = x
    BY <2>1, <2>2, <2>3, <1>1, <1>2, <1>5 DEF Nodes, Places, End
  <2>4. CASE n # x
    BY <2>1, <2>2, <2>4, <1>1
  <2>q. QED BY <2>3, <2>4
<1>7. LastInv'
  <2> SUFFICES ASSUME NEW y \in Nodes, phase'[y] = "linked"
               PROVE  y <= M_prev'[End]
    BY DEF LastInv
  <2>1. phase[y] = "linked" /\ y # k /\ y <= M_prev[End]
    BY <1>4 DEF OrderInv, LastInv
  <2>2. CASE x = End
    BY <2>1, <2>2, <1>1, <1>2, <1>5 DEF Nodes, Places, End
  <2>3. CASE x # End
    BY <2>1, <2>3, <1>1
  <2>q. QED BY <2>2, <2>3
<1>q. QED BY <1>4, <1>6, <1>7 DEF OrderInv

LEMMA OrderUnlink ==
  ASSUME Shape, WriterInv, ListInv, OrderInv, NEW i \in Iters, NEW inline \in BOOLEAN,
         Unlink(i, inline), NEW k, NEW p, NEW x, k = M_node[i], p = M_prev[k], x = M_next[k]
  PROVE  OrderInv'
<1> USE PlacesFacts
<1>1. /\ k \in Nodes /\ k \in Places /\ p \in Places /\ x \in Places /\ phase[k] = "bypassed"
      /\ M_prev' = M_prev
      /\ \A m \in Places : M_next'[m] = IF m = p THEN x ELSE M_next[m]
      /\ \A m \in Places : m # k => phase'[m] = phase[m]
      /\ phase'[k] \in {"captured", "unlinked"}
  BY DEF Unlink, Shape, TypeOK, IterShape
<1>2. p < k /\ (x = End \/ k < x) /\ M_prev[x] = p /\ M_next[p] = k
  BY <1>1 DEF ListInv, Order, Chain, Born, Detour
<1>3. Around(i, k, p, x)
  BY <1>1, <1>2 DEF Around, Born
<1>4. /\ \A m \in Places : /\ phase'[m] = "linked" => phase[m] = "linked" /\ m # k
                           /\ phase'[m] = "unborn" <=> phase[m] = "unborn"
      /\ Youngest'
  BY <1>3, AroundSame
<1>5. x # End => \A y \in Nodes : phase[y] = "linked" => ~(k < y /\ y < x)
  BY <1>1 DEF OrderInv, TraversalOrder
<1>6. TraversalOrder'
  <2> SUFFICES ASSUME NEW n \in Nodes, NEW y \in Nodes, phase'[n] # "unborn", phase'[y] = "linked"
               PROVE  /\ M_next'[n] # End => n < M_next'[n] /\ ~(n < y /\ y < M_next'[n])
                      /\ M_prev'[n] < n /\ ~(M_prev'[n] < y /\ y < n)
                      /\ phase'[n] = "linked" /\ M_next'[n] = End => y <= n
    BY DEF TraversalOrder
  <2>1. /\ phase[n] # "unborn" /\ phase[y] = "linked" /\ y # k /\ n \in Places /\ n # End
        /\ phase'[n] = "linked" => phase[n] = "linked"
    BY <1>4
  <2>2. /\ M_next[n] # End => n < M_next[n] /\ ~(n < y /\ y < M_next[n])
        /\ M_prev[n] < n /\ ~(M_prev[n] < y /\ y < n)
        /\ phase[n] = "linked" /\ M_next[n] = End => y <= n
    BY <2>1 DEF OrderInv, TraversalOrder
  <2>3. CASE n = p
    <3>1. x = End => y <= p
      BY <2>1, <1>2 DEF OrderInv, LastInv
    <3>q. QED BY <2>1, <2>2, <2>3, <3>1, <1>1, <1>2, <1>5 DEF Nodes, Places, End
  <2>4. CASE n # p
    BY <2>1, <2>2, <2>4, <1>1
  <2>q. QED BY <2>3, <2>4
<1>7. LastInv'
  BY <1>1, <1>4 DEF OrderInv, LastInv
<1>q. QED BY <1>4, <1>6, <1>7 DEF OrderInv

LEMMA OrderStep == Shape /\ WriterInv /\ ListInv /\ OrderInv /\ [Next]_vars => OrderInv'
<1> SUFFICES ASSUME Shape, WriterInv, ListInv, OrderInv, [Next]_vars PROVE OrderInv'
  OBVIOUS
<1>1. CASE UNCHANGED vars
  BY <1>1 DEF vars, OrderInv, TraversalOrder, LastInv, Youngest, Born
<1>2. CASE WriterStep
  BY <1>2, OrderPushCreate, OrderPushChain, OrderPushLink, OrderPrepare, OrderBypass,
     OrderUnlink, OrderSpawn DEF WriterStep
<1>q. QED
  BY <1>1, <1>2, OrderIterStep, OrderEraserStep DEF Next

\* Every ++ and -- goes to an older or younger element with no element of the
\* list between, from a node in the list or erased meanwhile: readers meet the
\* elements in the order of push_back and skip none (xlist.hpp 259-420, 644-700,
\* 786-880), for every number of nodes and readers.
THEOREM IterationInOrder == Spec => []TraversalOrder
<1>1. Init => OrderInv
  BY OrderInit
<1>2. (Shape /\ WriterInv /\ ListInv) /\ OrderInv /\ [Next]_vars => OrderInv'
  BY OrderStep
<1>3. Spec => []OrderInv
  BY <1>1, <1>2, ListInvariant, PTL DEF Spec
<1>4. OrderInv => TraversalOrder
  BY DEF OrderInv
<1>q. QED BY <1>3, <1>4, PTL

-----------------------------------------------------------------------------
\* A node whose removal is complete keeps its pointers for ever: what an
\* iterator on it finds is decided at the moment of the removal (xlist.hpp
\* 786-880, "any iteration on this node can go back/forward").
THEOREM RemovedNodesFrozen == Spec => FrozenPointers
<1> DEFINE Kept == \A n \in Nodes : phase[n] \notin {"unborn", "pushed", "chained", "linked",
                                                   "flagged", "bypassed"} =>
                     M_next'[n] = M_next[n] /\ M_prev'[n] = M_prev[n]
<1>1. ASSUME Shape, WriterInv, ListInv, Next
      PROVE  Kept
  <2> USE <1>1, PlacesFacts
  <2> SUFFICES ASSUME NEW n \in Nodes, phase[n] \notin {"unborn", "pushed", "chained", "linked",
                                                        "flagged", "bypassed"}
               PROVE  M_next'[n] = M_next[n] /\ M_prev'[n] = M_prev[n]
    OBVIOUS
  <2>0. n \in Places /\ n # End /\ \A m \in Places : InList(m) \/ BackLinked(m) => m # n
    BY DEF BackLinked, InList
  <2>1. CASE \E k \in Nodes : PushCreate(k)
    BY <2>0, <2>1 DEF PushCreate, Shape, TypeOK
  <2>2. CASE \E k \in Nodes : PushChain(k)
    <3>1. BackLinked(M_prev[End])
      BY DEF ListInv, Chain, WriterInv, BackLinked
    <3>2. M_prev[End] # n
      BY <3>1, <2>0 DEF Shape, TypeOK
    <3>q. QED BY <3>2, <2>0, <2>2 DEF PushChain, Shape, TypeOK
  <2>3. CASE \E k \in Nodes : PushLink(k)
    BY <2>0, <2>3 DEF PushLink, Shape, TypeOK
  <2>4. CASE \E i \in Iters : Bypass(i)
    <3>1. PICK i \in Iters : Bypass(i)
      BY <2>4
    <3>2. M_node[i] \in Nodes /\ phase[M_node[i]] = "flagged"
      BY <3>1 DEF Bypass, Shape, IterShape
    <3>3. InList(M_next[M_node[i]]) /\ M_next[M_node[i]] \in Places
      <4>1. M_node[i] \in Places /\ BackLinked(M_node[i])
        BY <3>2 DEF BackLinked
      <4>q. QED BY <4>1 DEF ListInv, Chain, Shape, TypeOK
    <3>4. M_next[M_node[i]] # n
      BY <3>3, <2>0
    <3>q. QED BY <3>1, <3>2, <3>4, <2>0 DEF Bypass, Shape, TypeOK
  <2>5. CASE \E i \in Iters, inline \in BOOLEAN : Unlink(i, inline)
    <3>1. PICK i \in Iters, inline \in BOOLEAN : Unlink(i, inline)
      BY <2>5
    <3>2. M_node[i] \in Nodes /\ phase[M_node[i]] = "bypassed"
      BY <3>1 DEF Unlink, Shape, IterShape
    <3>3. M_prev[M_node[i]] # n
      BY <3>2, <2>0 DEF ListInv, Chain, Detour, Shape, TypeOK
    <3>q. QED BY <3>1, <3>2, <3>3, <2>0 DEF Unlink, Shape, TypeOK
  <2>6. CASE M_next' = M_next /\ M_prev' = M_prev
    BY <2>6
  <2>7. \/ \E k \in Nodes : PushCreate(k) \/ PushChain(k) \/ PushLink(k)
        \/ \E i \in Iters : Bypass(i) \/ \E inline \in BOOLEAN : Unlink(i, inline)
        \/ M_next' = M_next /\ M_prev' = M_prev
    BY DEF Next, IterStep, StaleFini, Reset, Begin, EndIter, Copy, Assign, Move, MovePost,
           ReadPointer, AccessUnlock, Fini, WriterStep, Prepare, Spawn, EraserStep, SpuriousWakeup,
           EraseFini, WaitForUsage, Destroy, ReleaseNext, ReleasePrev, ReleaseNeighbour, StalePos,
           nodeVars
  <2>q. QED BY <2>1, <2>2, <2>3, <2>4, <2>5, <2>6, <2>7
<1>2. (Shape /\ WriterInv /\ ListInv) /\ [Next]_vars => [Kept]_vars
  BY <1>1
<1>q. QED BY <1>2, ListInvariant, PTL DEF Spec, FrozenPointers
=============================================================================
