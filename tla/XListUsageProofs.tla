-------------------------- MODULE XListUsageProofs --------------------------
(***************************************************************************)
(* The last layer of the inductive invariant of XList: usageNO counts      *)
(* exactly the users of a node, and therefore nothing that is destroyed    *)
(* can still be reached.  From it follows that the list implements its     *)
(* contract, XListAbs.                                                     *)
(***************************************************************************)
EXTENDS XListProofs

\* The lock of ++, -- and begin() keeps the pointers of the locked node as
\* they are and the node alive, until the node that was read is accessed.
LockInv == \A i \in Iters :
  /\ lockedNode[i] # Null => ~Destroyed(lockedNode[i])
  /\ pc[i] = "access" => M_node[i] \in {M_next[lockedNode[i]], M_prev[lockedNode[i]]}

AliveInv == NoDestroyedReachable /\ LockInv

IInv == Shape /\ WriterInv /\ ListInv /\ UsageAccounting /\ AliveInv

-----------------------------------------------------------------------------
(* Counting.  The users of node n that a node m or an iterator i amounts    *)
(* to, and how their sum changes when only one or two of them change.       *)

One(b) == IF b THEN 1 ELSE 0

Pointers(m, n) == One(m \in NextRefs(n)) + One(m \in PrevRefs(n)) + One(m \in WriteRefs(n))

NodeSum(n) == Cardinality(NextRefs(n)) + Cardinality(PrevRefs(n)) + Cardinality(WriteRefs(n))
IterSum(n) == Cardinality(IterRefs(n))

LEMMA ChangeAtOne ==
  ASSUME NEW U, IsFiniteSet(U), NEW S \in SUBSET U, NEW T \in SUBSET U, NEW e,
         \A x \in U : x # e => (x \in S <=> x \in T)
  PROVE  /\ Cardinality(S) \in Nat /\ Cardinality(T) \in Nat
         /\ Cardinality(T) = Cardinality(S) + One(e \in T) - One(e \in S)
<1>1. IsFiniteSet(S) /\ IsFiniteSet(T)
  BY FS_Subset
<1>2. Cardinality(S) \in Nat /\ Cardinality(T) \in Nat
  BY <1>1, FS_CardinalityType
<1>3. S \ {e} = T \ {e}
  OBVIOUS
<1>4. /\ Cardinality(S \ {e}) = IF e \in S THEN Cardinality(S) - 1 ELSE Cardinality(S)
      /\ Cardinality(T \ {e}) = IF e \in T THEN Cardinality(T) - 1 ELSE Cardinality(T)
  BY <1>1, FS_RemoveElement
<1>q. QED BY <1>2, <1>3, <1>4 DEF One

LEMMA ChangeAtTwo ==
  ASSUME NEW U, IsFiniteSet(U), NEW S \in SUBSET U, NEW T \in SUBSET U, NEW e, NEW f, e # f,
         \A x \in U : x # e /\ x # f => (x \in S <=> x \in T)
  PROVE  /\ Cardinality(S) \in Nat /\ Cardinality(T) \in Nat
         /\ Cardinality(T) = Cardinality(S) + One(e \in T) + One(f \in T)
                                            - One(e \in S) - One(f \in S)
<1> DEFINE R == {x \in U : IF x = e THEN x \in T ELSE x \in S}
<1>1. R \in SUBSET U /\ (\A x \in U : x # e => (x \in S <=> x \in R))
                     /\ (\A x \in U : x # f => (x \in R <=> x \in T))
  OBVIOUS
<1>2. (e \in R <=> e \in T) /\ (f \in R <=> f \in S)
  OBVIOUS
<1> HIDE DEF R
<1>3. /\ Cardinality(S) \in Nat /\ Cardinality(R) \in Nat
      /\ Cardinality(R) = Cardinality(S) + One(e \in R) - One(e \in S)
  BY <1>1, ChangeAtOne
<1>4. /\ Cardinality(T) \in Nat
      /\ Cardinality(T) = Cardinality(R) + One(f \in T) - One(f \in R)
  BY <1>1, ChangeAtOne
<1>q. QED BY <1>2, <1>3, <1>4 DEF One

LEMMA PlacesFinite == IsFiniteSet(Places)
BY XListAssumption, FS_Interval DEF Places

\* Only iterator i moved.
LEMMA IterChange ==
  ASSUME NEW i \in Iters, NEW n,
         \A j \in Iters : j # i => M_node'[j] = M_node[j] /\ pc'[j] = pc[j]
  PROVE  /\ IterSum(n) \in Nat /\ IterSum(n)' \in Nat
         /\ IterSum(n)' = IterSum(n) + One(i \in IterRefs(n)') - One(i \in IterRefs(n))
<1>1. \A j \in Iters : j # i => (j \in IterRefs(n) <=> j \in IterRefs(n)')
  BY DEF IterRefs
<1>2. IterRefs(n) \in SUBSET Iters /\ IterRefs(n)' \in SUBSET Iters
  BY DEF IterRefs
<1>q. QED
  BY <1>1, <1>2, ChangeAtOne, XListAssumption DEF IterSum

\* Only iterators i and j moved.
LEMMA IterChangeTwo ==
  ASSUME NEW i \in Iters, NEW j \in Iters, i # j, NEW n,
         \A k \in Iters : k # i /\ k # j => M_node'[k] = M_node[k] /\ pc'[k] = pc[k]
  PROVE  /\ IterSum(n) \in Nat /\ IterSum(n)' \in Nat
         /\ IterSum(n)' = IterSum(n) + One(i \in IterRefs(n)') + One(j \in IterRefs(n)')
                                     - One(i \in IterRefs(n)) - One(j \in IterRefs(n))
<1>1. \A k \in Iters : k # i /\ k # j => (k \in IterRefs(n) <=> k \in IterRefs(n)')
  BY DEF IterRefs
<1>2. IterRefs(n) \in SUBSET Iters /\ IterRefs(n)' \in SUBSET Iters
  BY DEF IterRefs
<1>q. QED
  BY <1>1, <1>2, ChangeAtTwo, XListAssumption DEF IterSum

LEMMA IterSame ==
  ASSUME NEW n, M_node' = M_node, pc' = pc
  PROVE  IterSum(n)' = IterSum(n) /\ IterSum(n) \in Nat
<1>1. IterRefs(n)' = IterRefs(n)
  BY DEF IterRefs
<1>2. IterRefs(n) \in SUBSET Iters
  BY DEF IterRefs
<1>3. IsFiniteSet(IterRefs(n))
  BY <1>2, FS_Subset, XListAssumption
<1>q. QED BY <1>1, <1>3, FS_CardinalityType DEF IterSum

\* Only node e changed.
LEMMA NodeChange ==
  ASSUME NEW e \in Places, NEW n,
         \A m \in Places : m # e => /\ phase'[m] = phase[m]
                                    /\ M_next'[m] = M_next[m] /\ M_prev'[m] = M_prev[m]
  PROVE  /\ NodeSum(n) \in Nat /\ NodeSum(n)' \in Nat
         /\ NodeSum(n)' = NodeSum(n) + Pointers(e, n)' - Pointers(e, n)
<1>1. /\ \A m \in Places : m # e => (m \in NextRefs(n) <=> m \in NextRefs(n)')
      /\ NextRefs(n) \in SUBSET Places /\ NextRefs(n)' \in SUBSET Places
  BY DEF NextRefs
<1>2. /\ \A m \in Places : m # e => (m \in PrevRefs(n) <=> m \in PrevRefs(n)')
      /\ PrevRefs(n) \in SUBSET Places /\ PrevRefs(n)' \in SUBSET Places
  BY DEF PrevRefs
<1>3. /\ \A m \in Places : m # e => (m \in WriteRefs(n) <=> m \in WriteRefs(n)')
      /\ WriteRefs(n) \in SUBSET Places /\ WriteRefs(n)' \in SUBSET Places
  BY DEF WriteRefs
<1>4. /\ Cardinality(NextRefs(n)) \in Nat /\ Cardinality(NextRefs(n)') \in Nat
      /\ Cardinality(NextRefs(n)') = Cardinality(NextRefs(n)) + One(e \in NextRefs(n)')
                                                              - One(e \in NextRefs(n))
  BY <1>1, PlacesFinite, ChangeAtOne
<1>5. /\ Cardinality(PrevRefs(n)) \in Nat /\ Cardinality(PrevRefs(n)') \in Nat
      /\ Cardinality(PrevRefs(n)') = Cardinality(PrevRefs(n)) + One(e \in PrevRefs(n)')
                                                              - One(e \in PrevRefs(n))
  BY <1>2, PlacesFinite, ChangeAtOne
<1>6. /\ Cardinality(WriteRefs(n)) \in Nat /\ Cardinality(WriteRefs(n)') \in Nat
      /\ Cardinality(WriteRefs(n)') = Cardinality(WriteRefs(n)) + One(e \in WriteRefs(n)')
                                                                - One(e \in WriteRefs(n))
  BY <1>3, PlacesFinite, ChangeAtOne
<1>q. QED BY <1>4, <1>5, <1>6 DEF NodeSum, Pointers, One

\* Only nodes e and f changed.
OnlyNodes(e, f) == \A m \in Places : m # e /\ m # f =>
  phase'[m] = phase[m] /\ M_next'[m] = M_next[m] /\ M_prev'[m] = M_prev[m]

LEMMA NodeChangeTwo ==
  ASSUME NEW e \in Places, NEW f \in Places, e # f, NEW n, OnlyNodes(e, f)
  PROVE  /\ NodeSum(n) \in Nat /\ NodeSum(n)' \in Nat
         /\ NodeSum(n)' = NodeSum(n) + Pointers(e, n)' + Pointers(f, n)'
                                     - Pointers(e, n) - Pointers(f, n)
<1>1. /\ \A m \in Places : m # e /\ m # f => (m \in NextRefs(n) <=> m \in NextRefs(n)')
      /\ NextRefs(n) \in SUBSET Places /\ NextRefs(n)' \in SUBSET Places
  BY DEF NextRefs, OnlyNodes
<1>2. /\ \A m \in Places : m # e /\ m # f => (m \in PrevRefs(n) <=> m \in PrevRefs(n)')
      /\ PrevRefs(n) \in SUBSET Places /\ PrevRefs(n)' \in SUBSET Places
  BY DEF PrevRefs, OnlyNodes
<1>3. /\ \A m \in Places : m # e /\ m # f => (m \in WriteRefs(n) <=> m \in WriteRefs(n)')
      /\ WriteRefs(n) \in SUBSET Places /\ WriteRefs(n)' \in SUBSET Places
  BY DEF WriteRefs, OnlyNodes
<1>4. /\ Cardinality(NextRefs(n)) \in Nat /\ Cardinality(NextRefs(n)') \in Nat
      /\ Cardinality(NextRefs(n)') = Cardinality(NextRefs(n))
           + One(e \in NextRefs(n)') + One(f \in NextRefs(n)')
           - One(e \in NextRefs(n)) - One(f \in NextRefs(n))
  BY <1>1, PlacesFinite, ChangeAtTwo, SMTT(60)
<1>5. /\ Cardinality(PrevRefs(n)) \in Nat /\ Cardinality(PrevRefs(n)') \in Nat
      /\ Cardinality(PrevRefs(n)') = Cardinality(PrevRefs(n))
           + One(e \in PrevRefs(n)') + One(f \in PrevRefs(n)')
           - One(e \in PrevRefs(n)) - One(f \in PrevRefs(n))
  BY <1>2, PlacesFinite, ChangeAtTwo
<1>6. /\ Cardinality(WriteRefs(n)) \in Nat /\ Cardinality(WriteRefs(n)') \in Nat
      /\ Cardinality(WriteRefs(n)') = Cardinality(WriteRefs(n))
           + One(e \in WriteRefs(n)') + One(f \in WriteRefs(n)')
           - One(e \in WriteRefs(n)) - One(f \in WriteRefs(n))
  BY <1>3, PlacesFinite, ChangeAtTwo
<1>q. QED BY <1>4, <1>5, <1>6 DEF NodeSum, Pointers, One

LEMMA NodeSame ==
  ASSUME NEW n, phase' = phase, M_next' = M_next, M_prev' = M_prev
  PROVE  NodeSum(n)' = NodeSum(n) /\ NodeSum(n) \in Nat
<1>1. NextRefs(n)' = NextRefs(n) /\ PrevRefs(n)' = PrevRefs(n) /\ WriteRefs(n)' = WriteRefs(n)
  BY DEF NextRefs, PrevRefs, WriteRefs
<1>2. NextRefs(n) \in SUBSET Places /\ PrevRefs(n) \in SUBSET Places /\ WriteRefs(n) \in SUBSET Places
  BY DEF NextRefs, PrevRefs, WriteRefs
<1>3. IsFiniteSet(NextRefs(n)) /\ IsFiniteSet(PrevRefs(n)) /\ IsFiniteSet(WriteRefs(n))
  BY <1>2, PlacesFinite, FS_Subset
<1>q. QED BY <1>1, <1>3, FS_CardinalityType DEF NodeSum

LEMMA AccountingDef ==
  UsageAccounting <=> \A n \in Places : ~Destroyed(n) => usageNO[n] = IterSum(n) + NodeSum(n)
<1>1. \A n : /\ Cardinality(IterRefs(n)) \in Nat
             /\ Cardinality(NextRefs(n)) \in Nat
             /\ Cardinality(PrevRefs(n)) \in Nat
             /\ Cardinality(WriteRefs(n)) \in Nat
  <2>1. \A n : /\ IterRefs(n) \in SUBSET Iters /\ NextRefs(n) \in SUBSET Places
               /\ PrevRefs(n) \in SUBSET Places /\ WriteRefs(n) \in SUBSET Places
    BY DEF IterRefs, NextRefs, PrevRefs, WriteRefs
  <2>2. \A n : /\ IsFiniteSet(IterRefs(n)) /\ IsFiniteSet(NextRefs(n))
               /\ IsFiniteSet(PrevRefs(n)) /\ IsFiniteSet(WriteRefs(n))
    BY <2>1, PlacesFinite, FS_Subset, XListAssumption
  <2>q. QED BY <2>2, FS_CardinalityType
<1>q. QED BY <1>1 DEF UsageAccounting, IterSum, NodeSum

LEMMA AccountingNext ==
  UsageAccounting' <=> (\A n \in Places : ~Destroyed(n) => usageNO[n] = IterSum(n) + NodeSum(n))'
BY AccountingDef, PTL

-----------------------------------------------------------------------------
(* Who is alive.                                                            *)

\* usageNO is zero when waitForUsage returns: no iterator stands on the node
\* or is about to access it, and no pointer of a living node leads to it.
LEMMA NobodyAtDestruction ==
  ASSUME Shape, WriterInv, ListInv, UsageAccounting, AliveInv, NEW n \in Nodes, Destroy(n)
  PROVE  /\ \A m \in Places : Born(m) /\ ~Destroyed(m) => M_next[m] # n /\ M_prev[m] # n
         /\ \A i \in Iters : lockedNode[i] # n
         /\ \A i \in Iters : M_node[i] = n => pc[i] = "stale"
<1>0. n \in Places /\ n # End /\ phase[n] = "waiting" /\ usageNO[n] = 0 /\ ~Locked(n)
  BY PlacesFacts DEF Destroy
<1>1. IterRefs(n) = {} /\ NextRefs(n) = {} /\ PrevRefs(n) = {} /\ WriteRefs(n) = {}
  <2>1. /\ IterRefs(n) \in SUBSET Iters /\ NextRefs(n) \in SUBSET Places
        /\ PrevRefs(n) \in SUBSET Places /\ WriteRefs(n) \in SUBSET Places
    BY DEF IterRefs, NextRefs, PrevRefs, WriteRefs
  <2>2. /\ IsFiniteSet(IterRefs(n)) /\ IsFiniteSet(NextRefs(n))
        /\ IsFiniteSet(PrevRefs(n)) /\ IsFiniteSet(WriteRefs(n))
    BY <2>1, PlacesFinite, FS_Subset, XListAssumption
  <2>3. /\ Cardinality(IterRefs(n)) \in Nat /\ Cardinality(NextRefs(n)) \in Nat
        /\ Cardinality(PrevRefs(n)) \in Nat /\ Cardinality(WriteRefs(n)) \in Nat
    BY <2>2, FS_CardinalityType
  <2>4. 0 = Cardinality(IterRefs(n)) + Cardinality(NextRefs(n))
          + Cardinality(PrevRefs(n)) + Cardinality(WriteRefs(n))
    BY <1>0 DEF UsageAccounting, Destroyed
  <2>5. /\ Cardinality(IterRefs(n)) = 0 /\ Cardinality(NextRefs(n)) = 0
        /\ Cardinality(PrevRefs(n)) = 0 /\ Cardinality(WriteRefs(n)) = 0
    <3>1. \A a, b, c, d \in Nat : 0 = a + b + c + d => a = 0 /\ b = 0 /\ c = 0 /\ d = 0
      OBVIOUS
    <3>q. QED BY <2>3, <2>4, <3>1
  <2>q. QED BY <2>2, <2>5, FS_EmptySet
<1>2. ASSUME NEW m \in Places, Born(m), ~Destroyed(m)
      PROVE  M_next[m] # n /\ M_prev[m] # n
  <2>0. phase[m] \in Phases
    BY DEF Shape, TypeOK
  <2>1. \A k \in Places : BackLinked(k) => k # n
    BY <1>0 DEF BackLinked
  <2>2. CASE phase[m] = "pushed"
    <3>1. M_next[m] = End /\ M_prev[m] = M_prev[End]
      BY <2>2, <1>2 DEF ListInv, Chain, WriterInv, Places, Nodes, End
    <3>2. BackLinked(M_prev[End])
      BY PlacesFacts DEF ListInv, Chain, WriterInv, BackLinked
    <3>q. QED BY <3>1, <3>2, <2>1, <1>0, PlacesFacts DEF Shape, TypeOK
  <2>3. CASE phase[m] = "chained"
    <3>1. M_next[m] = End /\ BackLinked(M_prev[m])
      BY <2>3, <1>2 DEF ListInv, Chain, WriterInv, Detour, Places, Nodes, End
    <3>q. QED BY <3>1, <2>1, <1>0 DEF Shape, TypeOK
  <2>4. CASE phase[m] \in {"linked", "flagged", "bypassed", "unlinked", "captured", "waiting"}
    BY <2>4, <1>0, <1>1 DEF NextRefs, PrevRefs
  <2>q. QED BY <2>0, <2>2, <2>3, <2>4, <1>2 DEF Phases, Born, Destroyed
<1>3. \A i \in Iters : lockedNode[i] # n
  BY <1>0 DEF Locked
<1>4. ASSUME NEW i \in Iters, M_node[i] = n, pc[i] # "stale"
      PROVE  FALSE
  <2>1. CASE pc[i] \in {"idle", "preparing", "prepared"}
    BY <2>1, <1>1, <1>4 DEF IterRefs
  <2>2. CASE pc[i] \in {"++", "--"}
    BY <2>2, <1>3, <1>4 DEF Shape, IterShape
  <2>3. CASE pc[i] = "access"
    <3>1. /\ lockedNode[i] \in Places /\ Born(lockedNode[i]) /\ ~Destroyed(lockedNode[i])
          /\ M_node[i] \in {M_next[lockedNode[i]], M_prev[lockedNode[i]]}
      BY <2>3 DEF AliveInv, LockInv, Shape, TypeOK, IterShape, ListInv, AllBorn
    <3>q. QED BY <3>1, <1>2, <1>4
  <2>q. QED BY <2>1, <2>2, <2>3, <1>4 DEF Shape, TypeOK
<1>q. QED BY <1>2, <1>3, <1>4

LEMMA AliveInit == Init => AliveInv
BY PlacesFacts DEF Init, AliveInv, NoDestroyedReachable, LockInv, Destroyed

\* What a step of the writer has to show when it changes pointers.
LEMMA AliveFrame ==
  ASSUME Shape, ListInv, AliveInv, M_node' = M_node, lockedNode' = lockedNode,
         \A i \in Iters : /\ pc[i] = "stale" => pc'[i] = "stale"
                          /\ pc'[i] = "access" => pc[i] = "access",
         \A m \in Places : /\ Born(m)' <=> Born(m)
                           /\ Destroyed(m)' <=> Destroyed(m),
         \A m \in Places : Born(m) /\ ~Destroyed(m) =>
           /\ M_next'[m] \in Places /\ ~Destroyed(M_next'[m])
           /\ M_prev'[m] \in Places /\ ~Destroyed(M_prev'[m]),
         \A m \in Places : Locked(m) => M_next'[m] = M_next[m] /\ M_prev'[m] = M_prev[m]
  PROVE  AliveInv'
<1> USE DEF Shape, TypeOK
<1>1. ASSUME NEW i \in Iters, pc'[i] # "stale", M_node'[i] # Null
      PROVE  ~Destroyed(M_node[i])'
  <2>1. M_node[i] \in Places /\ ~Destroyed(M_node[i])
    BY <1>1 DEF AliveInv, NoDestroyedReachable
  <2>q. QED BY <2>1
<1>2. ASSUME NEW m \in Places, Born(m)', ~Destroyed(m)'
      PROVE  ~Destroyed(M_next[m])' /\ ~Destroyed(M_prev[m])'
  <2>1. /\ M_next'[m] \in Places /\ ~Destroyed(M_next'[m])
        /\ M_prev'[m] \in Places /\ ~Destroyed(M_prev'[m])
    BY <1>2
  <2>2. \A k \in Places : ~Destroyed(k) => phase'[k] \notin {"freed", "nextReleased", "prevReleased", "done"}
    BY DEF Destroyed
  <2>q. QED BY <2>1, <2>2 DEF Destroyed
<1>3. NoDestroyedReachable'
  BY <1>1, <1>2 DEF NoDestroyedReachable, Born
<1>4. ASSUME NEW i \in Iters
      PROVE  /\ lockedNode'[i] # Null => ~Destroyed(lockedNode[i])'
             /\ pc'[i] = "access" => M_node'[i] \in {M_next'[lockedNode'[i]], M_prev'[lockedNode'[i]]}
  <2>1. lockedNode[i] # Null => lockedNode[i] \in Places /\ ~Destroyed(lockedNode[i]) /\ Locked(lockedNode[i])
    BY DEF AliveInv, LockInv, Locked
  <2>2. pc[i] = "access" => /\ M_node[i] \in {M_next[lockedNode[i]], M_prev[lockedNode[i]]}
                            /\ lockedNode[i] # Null
    BY DEF AliveInv, LockInv, IterShape
  <2>3. lockedNode'[i] # Null => ~Destroyed(lockedNode[i])'
    BY <2>1
  <2>q. QED BY <2>1, <2>2, <2>3
<1>5. LockInv'
  BY <1>4 DEF LockInv
<1>q. QED BY <1>3, <1>5 DEF AliveInv

LEMMA AliveIterStep ==
  ASSUME Shape, WriterInv, ListInv, UsageAccounting, AliveInv, NEW i \in Iters, IterStep(i) \/ StaleFini(i) \/ Reset(i)
  PROVE  AliveInv'
<1> USE PlacesFacts DEF Shape, TypeOK, IterShape, ListInv, AllBorn, Born, AliveInv, NoDestroyedReachable,
        LockInv, Destroyed, Locked, On, Free, nodeVars, useVars, iterVars
<1>1. CASE Begin(i)
  BY <1>1 DEF Begin, WriterInv
<1>2. CASE EndIter(i)
  BY <1>2 DEF EndIter, WriterInv
<1>3. CASE \E j \in Iters : Copy(i, j)
  BY <1>3 DEF Copy
<1>4. CASE \E j \in Iters : Assign(i, j)
  BY <1>4 DEF Assign
<1>5. CASE \E way \in {"++", "--"} : Move(i, way)
  BY <1>5 DEF Move
<1>6. CASE \E way \in {"++", "--"}, j \in Iters : MovePost(i, j, way)
  BY <1>6 DEF MovePost
<1>7. CASE ReadPointer(i)
  BY <1>7 DEF ReadPointer
<1>8. CASE AccessUnlock(i)
  BY <1>8 DEF AccessUnlock
<1>9. CASE Fini(i)
  BY <1>9 DEF Fini
<1>10. CASE StaleFini(i)
  BY <1>10 DEF StaleFini
<1>11. CASE Reset(i)
  BY <1>11 DEF Reset
<1>q. QED
  BY <1>1, <1>2, <1>3, <1>4, <1>5, <1>6, <1>7, <1>8, <1>9, <1>10, <1>11 DEF IterStep

LEMMA AliveWriterStep ==
  ASSUME Shape, WriterInv, ListInv, UsageAccounting, AliveInv, WriterStep
  PROVE  AliveInv'
<1> USE PlacesFacts DEF Shape, TypeOK, IterShape, ListInv, AllBorn, Born, AliveInv, NoDestroyedReachable,
        LockInv, Destroyed, Locked, On, Free, nodeVars, useVars, iterVars
<1>1. CASE \E n \in Nodes : PushCreate(n)
  BY <1>1 DEF PushCreate, WriterInv
<1>2. CASE \E n \in Nodes : PushChain(n)
  BY <1>2 DEF PushChain, WriterInv
<1>3. CASE \E n \in Nodes : PushLink(n)
  BY <1>3 DEF PushLink, WriterInv
<1>4. CASE \E i \in Iters : Prepare(i)
  BY <1>4 DEF Prepare, WriterInv
<1>5. CASE \E i \in Iters : Bypass(i)
  <2>p. PICK i \in Iters : Bypass(i)
    BY <1>5
  <2>1. M_node[i] \in Places /\ phase[M_node[i]] = "flagged" /\ ~Locked(M_next[M_node[i]])
    BY <2>p DEF Bypass
  <2>2. ~Destroyed(M_prev[M_node[i]])
    BY <2>1
  <2>3. /\ M_next' = M_next /\ M_node' = M_node /\ lockedNode' = lockedNode /\ pc' = pc
        /\ \A m \in Places : M_prev'[m] = IF m = M_next[M_node[i]] THEN M_prev[M_node[i]]
                                                                   ELSE M_prev[m]
        /\ \A m \in Places : phase'[m] = IF m = M_node[i] THEN "bypassed" ELSE phase[m]
    BY <2>p, <2>1 DEF Bypass
  <2>4. \A m \in Places : /\ Born(m)' <=> Born(m)
                          /\ Destroyed(m)' <=> Destroyed(m)
    BY <2>1, <2>3
  <2>5. ASSUME NEW m \in Places, Born(m), ~Destroyed(m)
        PROVE  /\ M_next'[m] \in Places /\ ~Destroyed(M_next'[m])
               /\ M_prev'[m] \in Places /\ ~Destroyed(M_prev'[m])
    <3>1. /\ M_next[m] \in Places /\ ~Destroyed(M_next[m])
          /\ M_prev[m] \in Places /\ ~Destroyed(M_prev[m])
      BY <2>5
    <3>2. /\ M_next[M_node[i]] \in Places /\ M_prev[M_node[i]] \in Places
      BY <2>1
    <3> HIDE DEF Shape, ListInv, AliveInv, Born, Destroyed, Locked
    <3>q. QED BY <3>1, <3>2, <2>2, <2>3
  <2>6. \A m \in Places : Locked(m) => M_next'[m] = M_next[m] /\ M_prev'[m] = M_prev[m]
    BY <2>1, <2>3
  <2>7. \A k \in Iters : /\ pc[k] = "stale" => pc'[k] = "stale"
                         /\ pc'[k] = "access" => pc[k] = "access"
    BY <2>3
  <2> HIDE DEF Shape, ListInv, AliveInv, Born, Destroyed, Locked
  <2>q. QED BY <2>3, <2>4, <2>5, <2>6, <2>7, AliveFrame
<1>6. CASE \E i \in Iters, inline \in BOOLEAN : Unlink(i, inline)
  <2>p. PICK i \in Iters, inline \in BOOLEAN : Unlink(i, inline)
    BY <1>6
  <2>1. M_node[i] \in Places /\ phase[M_node[i]] = "bypassed" /\ ~Locked(M_prev[M_node[i]])
    BY <2>p DEF Unlink
  <2>2. ~Destroyed(M_next[M_node[i]])
    BY <2>1
  <2>3. /\ M_prev' = M_prev /\ M_node' = M_node /\ lockedNode' = lockedNode
        /\ \A j \in Iters : j # i => pc'[j] = pc[j]
        /\ pc'[i] \in {"stale", "prepared"} /\ pc[i] = "preparing"
        /\ \A m \in Places : M_next'[m] = IF m = M_prev[M_node[i]] THEN M_next[M_node[i]]
                                                                   ELSE M_next[m]
        /\ \A m \in Places : m # M_node[i] => phase'[m] = phase[m]
        /\ phase'[M_node[i]] \in {"captured", "unlinked"}
    BY <2>p, <2>1 DEF Unlink
  <2>4. \A m \in Places : /\ Born(m)' <=> Born(m)
                          /\ Destroyed(m)' <=> Destroyed(m)
    BY <2>1, <2>3
  <2>5. ASSUME NEW m \in Places, Born(m), ~Destroyed(m)
        PROVE  /\ M_next'[m] \in Places /\ ~Destroyed(M_next'[m])
               /\ M_prev'[m] \in Places /\ ~Destroyed(M_prev'[m])
    <3>1. /\ M_next[m] \in Places /\ ~Destroyed(M_next[m])
          /\ M_prev[m] \in Places /\ ~Destroyed(M_prev[m])
      BY <2>5
    <3>2. /\ M_next[M_node[i]] \in Places /\ M_prev[M_node[i]] \in Places
      BY <2>1
    <3> HIDE DEF Shape, ListInv, AliveInv, Born, Destroyed, Locked
    <3>q. QED BY <3>1, <3>2, <2>2, <2>3
  <2>6. \A m \in Places : Locked(m) => M_next'[m] = M_next[m] /\ M_prev'[m] = M_prev[m]
    BY <2>1, <2>3
  <2>7. \A k \in Iters : /\ pc[k] = "stale" => pc'[k] = "stale"
                         /\ pc'[k] = "access" => pc[k] = "access"
    BY <2>3
  <2> HIDE DEF Shape, ListInv, AliveInv, Born, Destroyed, Locked
  <2>q. QED BY <2>3, <2>4, <2>5, <2>6, <2>7, AliveFrame
<1>7. CASE \E i \in Iters : Spawn(i)
  BY <1>7 DEF Spawn, WriterInv, PhaseOfIter
<1>q. QED
  BY <1>1, <1>2, <1>3, <1>4, <1>5, <1>6, <1>7 DEF WriterStep

LEMMA AliveEraserStep ==
  ASSUME Shape, WriterInv, ListInv, UsageAccounting, AliveInv, NEW n \in Nodes, EraserStep(n) \/ SpuriousWakeup(n)
  PROVE  AliveInv'
<1> USE PlacesFacts DEF Shape, TypeOK, IterShape, ListInv, AllBorn, Born, AliveInv, NoDestroyedReachable,
        LockInv, Destroyed, Locked, On, Free, nodeVars, useVars, iterVars
<1>1. CASE EraseFini(n)
  BY <1>1 DEF EraseFini
<1>2. CASE WaitForUsage(n)
  BY <1>2 DEF WaitForUsage
<1>3. CASE Destroy(n)
  <2>1. /\ \A m \in Places : Born(m) /\ ~Destroyed(m) => M_next[m] # n /\ M_prev[m] # n
        /\ \A i \in Iters : lockedNode[i] # n
        /\ \A i \in Iters : M_node[i] = n => pc[i] = "stale"
    <3> HIDE DEF Shape, ListInv, AliveInv, Born, Destroyed
    <3>q. QED BY <1>3, NobodyAtDestruction
  <2>2. /\ M_next' = M_next /\ M_prev' = M_prev /\ M_node' = M_node /\ lockedNode' = lockedNode
        /\ pc' = pc /\ phase[n] = "waiting"
        /\ \A m \in Places : phase'[m] = IF m = n THEN "freed" ELSE phase[m]
    BY <1>3 DEF Destroy
  <2>3. \A m \in Places : /\ Born(m)' <=> Born(m)
                          /\ Destroyed(m)' <=> Destroyed(m) \/ m = n
    BY <2>2
  <2>4. NoDestroyedReachable'
    <3>1. ASSUME NEW i \in Iters, pc[i] # "stale", M_node[i] # Null
          PROVE  ~Destroyed(M_node[i])'
      <4>1. M_node[i] \in Places /\ ~Destroyed(M_node[i]) /\ M_node[i] # n
        BY <3>1, <2>1
      <4>q. QED BY <4>1, <2>2
    <3>2. ASSUME NEW m \in Places, Born(m), ~Destroyed(m)
          PROVE  ~Destroyed(M_next[m])' /\ ~Destroyed(M_prev[m])'
      <4>1. /\ M_next[m] \in Places /\ ~Destroyed(M_next[m]) /\ M_next[m] # n
            /\ M_prev[m] \in Places /\ ~Destroyed(M_prev[m]) /\ M_prev[m] # n
        BY <3>2, <2>1
      <4>q. QED BY <4>1, <2>2
    <3>q. QED BY <3>1, <3>2, <2>2, <2>3
  <2>5. LockInv'
    <3>1. ASSUME NEW i \in Iters, lockedNode[i] # Null
          PROVE  ~Destroyed(lockedNode[i])'
      <4>1. lockedNode[i] \in Places /\ ~Destroyed(lockedNode[i]) /\ lockedNode[i] # n
        BY <3>1, <2>1
      <4>q. QED BY <4>1, <2>2
    <3>q. QED BY <3>1, <2>2
  <2>q. QED BY <2>4, <2>5
<1>4. CASE ReleaseNext(n)
  BY <1>4 DEF ReleaseNext, ReleaseNeighbour
<1>5. CASE ReleasePrev(n)
  BY <1>5 DEF ReleasePrev, ReleaseNeighbour
<1>6. CASE StalePos(n)
  BY <1>6 DEF StalePos
<1>7. CASE SpuriousWakeup(n)
  BY <1>7 DEF SpuriousWakeup
<1>q. QED
  BY <1>1, <1>2, <1>3, <1>4, <1>5, <1>6, <1>7 DEF EraserStep

-----------------------------------------------------------------------------
(* Who is counted.                                                          *)

LEMMA NotErasing ==
  ASSUME NEW n, phase[n] \in Phases, phase[n] \notin {"unborn", "pushed", "chained"}, ~is_erasing(n)
  PROVE  phase[n] = "linked"
BY DEF Phases, is_erasing

LEMMA OneType == \A b : One(b) \in {0, 1}
BY DEF One

\* access and release, as a change of the counters.
LEMMA UseSame ==
  ASSUME Shape, usageNO' = usageNO
  PROVE  \A n \in Places : usageNO'[n] = usageNO[n] /\ usageNO[n] \in Int
BY DEF Shape, TypeOK

LEMMA UseAccess ==
  ASSUME Shape, NEW x \in Places, usageNO' = Access(usageNO, x)
  PROVE  \A n \in Places : usageNO'[n] = usageNO[n] + One(n = x) /\ usageNO[n] \in Int
BY AccessFacts DEF Shape, TypeOK, One

LEMMA UseRelease ==
  ASSUME Shape, NEW x \in Places, usageNO' = Release(usageNO, x)
  PROVE  \A n \in Places : usageNO'[n] = usageNO[n] - One(n = x) /\ usageNO[n] \in Int
BY ReleaseFacts DEF Shape, TypeOK, One

LEMMA UseMove ==
  ASSUME Shape, NEW x \in Places, NEW y \in Places, usageNO' = Access(Release(usageNO, x), y)
  PROVE  \A n \in Places : usageNO'[n] = usageNO[n] + One(n = y) - One(n = x) /\ usageNO[n] \in Int
<1>1. /\ Release(usageNO, x) \in [Places -> Int]
      /\ \A m \in Places : Release(usageNO, x)[m] = IF m = x THEN usageNO[m] - 1 ELSE usageNO[m]
  BY ReleaseFacts DEF Shape, TypeOK
<1>2. \A m \in Places : usageNO'[m] = IF m = y THEN Release(usageNO, x)[m] + 1
                                               ELSE Release(usageNO, x)[m]
  BY <1>1, AccessFacts
<1>q. QED BY <1>1, <1>2 DEF One, Shape, TypeOK

\* The change of a counter is the change of the sums.
LEMMA CountStep ==
  ASSUME Shape, UsageAccounting,
         \A n \in Places : ~Destroyed(n)' =>
           /\ ~Destroyed(n)
           /\ IterSum(n) \in Nat /\ NodeSum(n) \in Nat
           /\ usageNO'[n] + (IterSum(n) + NodeSum(n)) = usageNO[n] + (IterSum(n)' + NodeSum(n)')
           /\ usageNO'[n] \in Int /\ IterSum(n)' \in Nat /\ NodeSum(n)' \in Nat
  PROVE  UsageAccounting'
<1>1. ASSUME NEW n \in Places, ~Destroyed(n)'
      PROVE  usageNO'[n] = IterSum(n)' + NodeSum(n)'
  <2>1. usageNO[n] = IterSum(n) + NodeSum(n)
    BY <1>1, AccountingDef
  <2>q. QED BY <1>1, <2>1
<1>q. QED BY <1>1, AccountingNext

LEMMA CountBegin ==
  ASSUME Shape, WriterInv, ListInv, UsageAccounting, NEW i \in Iters, Begin(i)
  PROVE  UsageAccounting'
<1> USE PlacesFacts
<1>0. usageNO' = usageNO
  BY DEF Begin, useVars, vars
<1>1. /\ phase' = phase /\ M_next' = M_next /\ M_prev' = M_prev
      /\ \A j \in Iters : j # i => M_node'[j] = M_node[j] /\ pc'[j] = pc[j]
      /\ M_node[i] = Null /\ pc'[i] = "access"
  BY DEF Begin, Shape, TypeOK, IterShape, On, Free, nodeVars, useVars, iterVars
<1>2. \A n \in Places : IterSum(n)' = IterSum(n) /\ IterSum(n) \in Nat /\ IterSum(n)' \in Nat
  <2> TAKE n \in Places
  <2>1. One(i \in IterRefs(n)') - One(i \in IterRefs(n)) = 0
    BY <1>1 DEF One, IterRefs, Shape, TypeOK
  <2>2. /\ IterSum(n) \in Nat /\ IterSum(n)' \in Nat
        /\ IterSum(n)' = IterSum(n) + One(i \in IterRefs(n)') - One(i \in IterRefs(n))
    BY <1>1, IterChange
  <2>q. QED BY <2>1, <2>2 DEF One
<1>3. \A n : NodeSum(n)' = NodeSum(n) /\ NodeSum(n) \in Nat
  BY <1>1, NodeSame
<1>4. \A n \in Places : usageNO'[n] = usageNO[n] /\ usageNO[n] \in Int
  BY <1>0, <1>1, UseSame
<1>5. \A n \in Places : ~Destroyed(n)' => ~Destroyed(n)
  BY <1>1 DEF Destroyed
<1>q. QED BY <1>2, <1>3, <1>4, <1>5, OneType, CountStep

LEMMA CountEndIter ==
  ASSUME Shape, WriterInv, ListInv, UsageAccounting, NEW i \in Iters, EndIter(i)
  PROVE  UsageAccounting'
<1> USE PlacesFacts
<1>0. usageNO' = Access(usageNO, End)
  BY DEF EndIter, useVars, vars
<1>1. /\ phase' = phase /\ M_next' = M_next /\ M_prev' = M_prev
      /\ \A j \in Iters : j # i => M_node'[j] = M_node[j] /\ pc'[j] = pc[j]
      /\ M_node[i] = Null /\ M_node'[i] = End /\ pc'[i] = "idle"
  BY DEF EndIter, Shape, TypeOK, IterShape, On, Free, nodeVars, useVars, iterVars
<1>2. \A n \in Places : IterSum(n)' = IterSum(n) + One(n = End) /\ IterSum(n) \in Nat /\ IterSum(n)' \in Nat
  <2> TAKE n \in Places
  <2>1. One(i \in IterRefs(n)') - One(i \in IterRefs(n)) = One(n = End)
    BY <1>1 DEF One, IterRefs, Shape, TypeOK
  <2>2. /\ IterSum(n) \in Nat /\ IterSum(n)' \in Nat
        /\ IterSum(n)' = IterSum(n) + One(i \in IterRefs(n)') - One(i \in IterRefs(n))
    BY <1>1, IterChange
  <2>q. QED BY <2>1, <2>2 DEF One
<1>3. \A n : NodeSum(n)' = NodeSum(n) /\ NodeSum(n) \in Nat
  BY <1>1, NodeSame
<1>4. \A n \in Places : usageNO'[n] = usageNO[n] + One(n = End) /\ usageNO[n] \in Int
  BY <1>0, <1>1, UseAccess
<1>5. \A n \in Places : ~Destroyed(n)' => ~Destroyed(n)
  BY <1>1 DEF Destroyed
<1>q. QED BY <1>2, <1>3, <1>4, <1>5, OneType, CountStep

LEMMA CountCopy ==
  ASSUME Shape, WriterInv, ListInv, UsageAccounting, NEW i \in Iters, NEW j \in Iters, Copy(i, j)
  PROVE  UsageAccounting'
<1> USE PlacesFacts
<1>0. usageNO' = Access(usageNO, M_node[j])
  BY DEF Copy, useVars, vars
<1>1. /\ phase' = phase /\ M_next' = M_next /\ M_prev' = M_prev
      /\ \A k \in Iters : k # i => M_node'[k] = M_node[k] /\ pc'[k] = pc[k]
      /\ M_node[i] = Null /\ M_node'[i] = M_node[j] /\ pc'[i] = "idle"
      /\ M_node[j] \in Places
  BY DEF Copy, Shape, TypeOK, IterShape, On, Free, nodeVars, useVars, iterVars
<1>2. \A n \in Places : IterSum(n)' = IterSum(n) + One(n = M_node[j]) /\ IterSum(n) \in Nat /\ IterSum(n)' \in Nat
  <2> TAKE n \in Places
  <2>1. One(i \in IterRefs(n)') - One(i \in IterRefs(n)) = One(n = M_node[j])
    BY <1>1 DEF One, IterRefs, Shape, TypeOK
  <2>2. /\ IterSum(n) \in Nat /\ IterSum(n)' \in Nat
        /\ IterSum(n)' = IterSum(n) + One(i \in IterRefs(n)') - One(i \in IterRefs(n))
    BY <1>1, IterChange
  <2>q. QED BY <2>1, <2>2 DEF One
<1>3. \A n : NodeSum(n)' = NodeSum(n) /\ NodeSum(n) \in Nat
  BY <1>1, NodeSame
<1>4. \A n \in Places : usageNO'[n] = usageNO[n] + One(n = M_node[j]) /\ usageNO[n] \in Int
  BY <1>0, <1>1, UseAccess
<1>5. \A n \in Places : ~Destroyed(n)' => ~Destroyed(n)
  BY <1>1 DEF Destroyed
<1>q. QED BY <1>2, <1>3, <1>4, <1>5, OneType, CountStep

LEMMA CountAssign ==
  ASSUME Shape, WriterInv, ListInv, UsageAccounting, NEW i \in Iters, NEW j \in Iters, Assign(i, j)
  PROVE  UsageAccounting'
<1> USE PlacesFacts
<1>0. usageNO' = Access(Release(usageNO, M_node[i]), M_node[j])
  BY DEF Assign, useVars, vars
<1>1. /\ phase' = phase /\ M_next' = M_next /\ M_prev' = M_prev
      /\ \A k \in Iters : k # i => M_node'[k] = M_node[k] /\ pc'[k] = pc[k]
      /\ M_node'[i] = M_node[j] /\ pc[i] = "idle" /\ pc'[i] = "idle"
      /\ M_node[j] \in Places /\ M_node[i] \in Places
  BY DEF Assign, Shape, TypeOK, IterShape, On, Free, nodeVars, useVars, iterVars
<1>2. \A n \in Places : IterSum(n)' = IterSum(n) + One(n = M_node[j]) - One(n = M_node[i]) /\ IterSum(n) \in Nat /\ IterSum(n)' \in Nat
  <2> TAKE n \in Places
  <2>1. One(i \in IterRefs(n)') - One(i \in IterRefs(n)) = One(n = M_node[j]) - One(n = M_node[i])
    BY <1>1 DEF One, IterRefs, Shape, TypeOK
  <2>2. /\ IterSum(n) \in Nat /\ IterSum(n)' \in Nat
        /\ IterSum(n)' = IterSum(n) + One(i \in IterRefs(n)') - One(i \in IterRefs(n))
    BY <1>1, IterChange
  <2>q. QED BY <2>1, <2>2 DEF One
<1>3. \A n : NodeSum(n)' = NodeSum(n) /\ NodeSum(n) \in Nat
  BY <1>1, NodeSame
<1>4. \A n \in Places : usageNO'[n] = usageNO[n] + One(n = M_node[j]) - One(n = M_node[i]) /\ usageNO[n] \in Int
  BY <1>0, <1>1, UseMove
<1>5. \A n \in Places : ~Destroyed(n)' => ~Destroyed(n)
  BY <1>1 DEF Destroyed
<1>q. QED BY <1>2, <1>3, <1>4, <1>5, OneType, CountStep

LEMMA CountMove ==
  ASSUME Shape, WriterInv, ListInv, UsageAccounting, NEW i \in Iters, NEW way \in {"++", "--"}, Move(i, way)
  PROVE  UsageAccounting'
<1> USE PlacesFacts
<1>0. usageNO' = Release(usageNO, M_node[i])
  BY DEF Move, useVars, vars
<1>1. /\ phase' = phase /\ M_next' = M_next /\ M_prev' = M_prev
      /\ \A j \in Iters : j # i => M_node'[j] = M_node[j] /\ pc'[j] = pc[j]
      /\ M_node'[i] = M_node[i] /\ pc[i] = "idle" /\ pc'[i] = way
      /\ M_node[i] \in Places
  BY DEF Move, Shape, TypeOK, IterShape, On, Free, nodeVars, useVars, iterVars
<1>2. \A n \in Places : IterSum(n)' = IterSum(n) - One(n = M_node[i]) /\ IterSum(n) \in Nat /\ IterSum(n)' \in Nat
  <2> TAKE n \in Places
  <2>1. One(i \in IterRefs(n)') - One(i \in IterRefs(n)) = 0 - One(n = M_node[i])
    BY <1>1 DEF One, IterRefs, Shape, TypeOK
  <2>2. /\ IterSum(n) \in Nat /\ IterSum(n)' \in Nat
        /\ IterSum(n)' = IterSum(n) + One(i \in IterRefs(n)') - One(i \in IterRefs(n))
    BY <1>1, IterChange
  <2>q. QED BY <2>1, <2>2 DEF One
<1>3. \A n : NodeSum(n)' = NodeSum(n) /\ NodeSum(n) \in Nat
  BY <1>1, NodeSame
<1>4. \A n \in Places : usageNO'[n] = usageNO[n] - One(n = M_node[i]) /\ usageNO[n] \in Int
  BY <1>0, <1>1, UseRelease
<1>5. \A n \in Places : ~Destroyed(n)' => ~Destroyed(n)
  BY <1>1 DEF Destroyed
<1>q. QED BY <1>2, <1>3, <1>4, <1>5, OneType, CountStep

LEMMA CountMovePost ==
  ASSUME Shape, WriterInv, ListInv, UsageAccounting, NEW i \in Iters, NEW j \in Iters, NEW way \in {"++", "--"}, MovePost(i, j, way)
  PROVE  UsageAccounting'
<1> USE PlacesFacts
<1>0. usageNO' = usageNO
  BY DEF MovePost, useVars, vars
<1>1. /\ phase' = phase /\ M_next' = M_next /\ M_prev' = M_prev
      /\ \A k \in Iters : k # i /\ k # j => M_node'[k] = M_node[k] /\ pc'[k] = pc[k]
      /\ i # j /\ M_node[j] = Null /\ M_node'[j] = M_node[i] /\ pc'[j] = "idle"
      /\ pc[i] = "idle" /\ pc'[i] = way
  BY DEF MovePost, Shape, TypeOK, IterShape, On, Free, nodeVars, useVars, iterVars
<1>2. \A n \in Places : IterSum(n)' = IterSum(n) /\ IterSum(n) \in Nat /\ IterSum(n)' \in Nat
  <2> TAKE n \in Places
  <2>1. One(i \in IterRefs(n)') + One(j \in IterRefs(n)')
          - One(i \in IterRefs(n)) - One(j \in IterRefs(n)) = 0
    BY <1>1 DEF One, IterRefs, Shape, TypeOK
  <2>2. /\ IterSum(n) \in Nat /\ IterSum(n)' \in Nat
        /\ IterSum(n)' = IterSum(n) + One(i \in IterRefs(n)') + One(j \in IterRefs(n)')
                                    - One(i \in IterRefs(n)) - One(j \in IterRefs(n))
    BY <1>1, IterChangeTwo
  <2>q. QED BY <2>1, <2>2 DEF One
<1>3. \A n : NodeSum(n)' = NodeSum(n) /\ NodeSum(n) \in Nat
  BY <1>1, NodeSame
<1>4. \A n \in Places : usageNO'[n] = usageNO[n] /\ usageNO[n] \in Int
  BY <1>0, <1>1, UseSame
<1>5. \A n \in Places : ~Destroyed(n)' => ~Destroyed(n)
  BY <1>1 DEF Destroyed
<1>q. QED BY <1>2, <1>3, <1>4, <1>5, OneType, CountStep

LEMMA CountReadPointer ==
  ASSUME Shape, WriterInv, ListInv, UsageAccounting, NEW i \in Iters, ReadPointer(i)
  PROVE  UsageAccounting'
<1> USE PlacesFacts
<1>0. usageNO' = usageNO
  BY DEF ReadPointer, useVars, vars
<1>1. /\ phase' = phase /\ M_next' = M_next /\ M_prev' = M_prev
      /\ \A j \in Iters : j # i => M_node'[j] = M_node[j] /\ pc'[j] = pc[j]
      /\ pc[i] \in {"++", "--"} /\ pc'[i] = "access"
  BY DEF ReadPointer, Shape, TypeOK, IterShape, On, Free, nodeVars, useVars, iterVars
<1>2. \A n \in Places : IterSum(n)' = IterSum(n) /\ IterSum(n) \in Nat /\ IterSum(n)' \in Nat
  <2> TAKE n \in Places
  <2>1. One(i \in IterRefs(n)') - One(i \in IterRefs(n)) = 0
    BY <1>1 DEF One, IterRefs, Shape, TypeOK
  <2>2. /\ IterSum(n) \in Nat /\ IterSum(n)' \in Nat
        /\ IterSum(n)' = IterSum(n) + One(i \in IterRefs(n)') - One(i \in IterRefs(n))
    BY <1>1, IterChange
  <2>q. QED BY <2>1, <2>2 DEF One
<1>3. \A n : NodeSum(n)' = NodeSum(n) /\ NodeSum(n) \in Nat
  BY <1>1, NodeSame
<1>4. \A n \in Places : usageNO'[n] = usageNO[n] /\ usageNO[n] \in Int
  BY <1>0, <1>1, UseSame
<1>5. \A n \in Places : ~Destroyed(n)' => ~Destroyed(n)
  BY <1>1 DEF Destroyed
<1>q. QED BY <1>2, <1>3, <1>4, <1>5, OneType, CountStep

LEMMA CountAccessUnlock ==
  ASSUME Shape, WriterInv, ListInv, UsageAccounting, NEW i \in Iters, AccessUnlock(i)
  PROVE  UsageAccounting'
<1> USE PlacesFacts
<1>0. usageNO' = Access(usageNO, M_node[i])
  BY DEF AccessUnlock, useVars, vars
<1>1. /\ phase' = phase /\ M_next' = M_next /\ M_prev' = M_prev
      /\ \A j \in Iters : j # i => M_node'[j] = M_node[j] /\ pc'[j] = pc[j]
      /\ M_node'[i] = M_node[i] /\ pc[i] = "access" /\ pc'[i] = "idle"
      /\ M_node[i] \in Places
  BY DEF AccessUnlock, Shape, TypeOK, IterShape, On, Free, nodeVars, useVars, iterVars
<1>2. \A n \in Places : IterSum(n)' = IterSum(n) + One(n = M_node[i]) /\ IterSum(n) \in Nat /\ IterSum(n)' \in Nat
  <2> TAKE n \in Places
  <2>1. One(i \in IterRefs(n)') - One(i \in IterRefs(n)) = One(n = M_node[i])
    BY <1>1 DEF One, IterRefs, Shape, TypeOK
  <2>2. /\ IterSum(n) \in Nat /\ IterSum(n)' \in Nat
        /\ IterSum(n)' = IterSum(n) + One(i \in IterRefs(n)') - One(i \in IterRefs(n))
    BY <1>1, IterChange
  <2>q. QED BY <2>1, <2>2 DEF One
<1>3. \A n : NodeSum(n)' = NodeSum(n) /\ NodeSum(n) \in Nat
  BY <1>1, NodeSame
<1>4. \A n \in Places : usageNO'[n] = usageNO[n] + One(n = M_node[i]) /\ usageNO[n] \in Int
  BY <1>0, <1>1, UseAccess
<1>5. \A n \in Places : ~Destroyed(n)' => ~Destroyed(n)
  BY <1>1 DEF Destroyed
<1>q. QED BY <1>2, <1>3, <1>4, <1>5, OneType, CountStep

LEMMA CountFini ==
  ASSUME Shape, WriterInv, ListInv, UsageAccounting, NEW i \in Iters, Fini(i)
  PROVE  UsageAccounting'
<1> USE PlacesFacts
<1>0. usageNO' = Release(usageNO, M_node[i])
  BY DEF Fini, useVars, vars
<1>1. /\ phase' = phase /\ M_next' = M_next /\ M_prev' = M_prev
      /\ \A j \in Iters : j # i => M_node'[j] = M_node[j] /\ pc'[j] = pc[j]
      /\ M_node'[i] = Null /\ pc[i] = "idle" /\ pc'[i] = "idle"
      /\ M_node[i] \in Places
  BY DEF Fini, Shape, TypeOK, IterShape, On, Free, nodeVars, useVars, iterVars
<1>2. \A n \in Places : IterSum(n)' = IterSum(n) - One(n = M_node[i]) /\ IterSum(n) \in Nat /\ IterSum(n)' \in Nat
  <2> TAKE n \in Places
  <2>1. One(i \in IterRefs(n)') - One(i \in IterRefs(n)) = 0 - One(n = M_node[i])
    BY <1>1 DEF One, IterRefs, Shape, TypeOK
  <2>2. /\ IterSum(n) \in Nat /\ IterSum(n)' \in Nat
        /\ IterSum(n)' = IterSum(n) + One(i \in IterRefs(n)') - One(i \in IterRefs(n))
    BY <1>1, IterChange
  <2>q. QED BY <2>1, <2>2 DEF One
<1>3. \A n : NodeSum(n)' = NodeSum(n) /\ NodeSum(n) \in Nat
  BY <1>1, NodeSame
<1>4. \A n \in Places : usageNO'[n] = usageNO[n] - One(n = M_node[i]) /\ usageNO[n] \in Int
  BY <1>0, <1>1, UseRelease
<1>5. \A n \in Places : ~Destroyed(n)' => ~Destroyed(n)
  BY <1>1 DEF Destroyed
<1>q. QED BY <1>2, <1>3, <1>4, <1>5, OneType, CountStep

LEMMA CountStaleFini ==
  ASSUME Shape, WriterInv, ListInv, UsageAccounting, NEW i \in Iters, StaleFini(i)
  PROVE  UsageAccounting'
<1> USE PlacesFacts
<1>0. usageNO' = Release(usageNO, M_node[i])
  BY DEF StaleFini, useVars, vars
<1>1. /\ phase' = phase /\ M_next' = M_next /\ M_prev' = M_prev
      /\ \A j \in Iters : j # i => M_node'[j] = M_node[j] /\ pc'[j] = pc[j]
      /\ M_node'[i] = Null /\ pc[i] = "stale"
      /\ M_node[i] \in Places /\ phase[M_node[i]] = "done"
  BY DEF StaleFini, Shape, TypeOK, IterShape, On, Free, nodeVars, useVars, iterVars
<1>2. \A n \in Places : IterSum(n)' = IterSum(n) /\ IterSum(n) \in Nat /\ IterSum(n)' \in Nat
  <2> TAKE n \in Places
  <2>1. One(i \in IterRefs(n)') - One(i \in IterRefs(n)) = 0
    BY <1>1 DEF One, IterRefs, Shape, TypeOK
  <2>2. /\ IterSum(n) \in Nat /\ IterSum(n)' \in Nat
        /\ IterSum(n)' = IterSum(n) + One(i \in IterRefs(n)') - One(i \in IterRefs(n))
    BY <1>1, IterChange
  <2>q. QED BY <2>1, <2>2 DEF One
<1>3. \A n : NodeSum(n)' = NodeSum(n) /\ NodeSum(n) \in Nat
  BY <1>1, NodeSame
<1>4. \A n \in Places : usageNO'[n] = usageNO[n] - One(n = M_node[i]) /\ usageNO[n] \in Int
  BY <1>0, <1>1, UseRelease
<1>5. \A n \in Places : ~Destroyed(n)' => ~Destroyed(n) /\ n # M_node[i]
  BY <1>1 DEF Destroyed
<1>q. QED BY <1>2, <1>3, <1>4, <1>5, OneType, CountStep DEF One

LEMMA CountReset ==
  ASSUME Shape, WriterInv, ListInv, UsageAccounting, NEW i \in Iters, Reset(i)
  PROVE  UsageAccounting'
<1> USE PlacesFacts
<1>0. usageNO' = usageNO
  BY DEF Reset, useVars, vars
<1>1. /\ phase' = phase /\ M_next' = M_next /\ M_prev' = M_prev
      /\ \A j \in Iters : j # i => M_node'[j] = M_node[j] /\ pc'[j] = pc[j]
      /\ M_node'[i] = Null /\ pc[i] = "stale"
  BY DEF Reset, Shape, TypeOK, IterShape, On, Free, nodeVars, useVars, iterVars
<1>2. \A n \in Places : IterSum(n)' = IterSum(n) /\ IterSum(n) \in Nat /\ IterSum(n)' \in Nat
  <2> TAKE n \in Places
  <2>1. One(i \in IterRefs(n)') - One(i \in IterRefs(n)) = 0
    BY <1>1 DEF One, IterRefs, Shape, TypeOK
  <2>2. /\ IterSum(n) \in Nat /\ IterSum(n)' \in Nat
        /\ IterSum(n)' = IterSum(n) + One(i \in IterRefs(n)') - One(i \in IterRefs(n))
    BY <1>1, IterChange
  <2>q. QED BY <2>1, <2>2 DEF One
<1>3. \A n : NodeSum(n)' = NodeSum(n) /\ NodeSum(n) \in Nat
  BY <1>1, NodeSame
<1>4. \A n \in Places : usageNO'[n] = usageNO[n] /\ usageNO[n] \in Int
  BY <1>0, <1>1, UseSame
<1>5. \A n \in Places : ~Destroyed(n)' => ~Destroyed(n)
  BY <1>1 DEF Destroyed
<1>q. QED BY <1>2, <1>3, <1>4, <1>5, OneType, CountStep

LEMMA CountPushCreate ==
  ASSUME Shape, WriterInv, ListInv, UsageAccounting, NEW k \in Nodes, PushCreate(k)
  PROVE  UsageAccounting'
<1> USE PlacesFacts
<1>0. usageNO' = Access(usageNO, k)
  BY DEF PushCreate, useVars, vars
<1>1. /\ M_node' = M_node /\ pc' = pc
      /\ \A m \in Places : m # k => /\ phase'[m] = phase[m]
                                 /\ M_next'[m] = M_next[m] /\ M_prev'[m] = M_prev[m]
      /\ phase[k] = "unborn" /\ phase'[k] = "pushed"
  BY DEF PushCreate, Shape, TypeOK, IterShape, On, Free, nodeVars, useVars, iterVars
<1>2. \A n : IterSum(n)' = IterSum(n) /\ IterSum(n) \in Nat
  BY <1>1, IterSame
<1>3. \A n \in Places : ~Destroyed(n)' =>
        NodeSum(n)' = NodeSum(n) + One(n = k) /\ NodeSum(n) \in Nat /\ NodeSum(n)' \in Nat
  <2> SUFFICES ASSUME NEW n \in Places, ~Destroyed(n)'
               PROVE  NodeSum(n)' = NodeSum(n) + One(n = k) /\ NodeSum(n) \in Nat /\ NodeSum(n)' \in Nat
    OBVIOUS
  <2>1. Pointers(k, n) = 0
    BY <1>1 DEF Pointers, One, NextRefs, PrevRefs, WriteRefs
  <2>2. Pointers(k, n)' = One(n = k)
    BY <1>1 DEF Pointers, One, NextRefs, PrevRefs, WriteRefs
  <2>3. /\ NodeSum(n) \in Nat /\ NodeSum(n)' \in Nat
        /\ NodeSum(n)' = NodeSum(n) + Pointers(k, n)' - Pointers(k, n)
    BY <1>1, NodeChange
  <2>q. QED BY <2>1, <2>2, <2>3 DEF One
<1>4. \A n \in Places : usageNO'[n] = usageNO[n] + One(n = k) /\ usageNO[n] \in Int
  BY <1>0, <1>1, UseAccess
<1>5. \A n \in Places : ~Destroyed(n)' => ~Destroyed(n)
  BY <1>1 DEF Destroyed
<1>q. QED BY <1>2, <1>3, <1>4, <1>5, OneType, CountStep

LEMMA CountPushChain ==
  ASSUME Shape, WriterInv, ListInv, UsageAccounting, NEW k \in Nodes, NEW p, p = M_prev[End], PushChain(k)
  PROVE  UsageAccounting'
<1> USE PlacesFacts
<1>0. usageNO' = usageNO
  BY DEF PushChain, useVars, vars
<1>1. /\ M_node' = M_node /\ pc' = pc
      /\ p \in Places /\ p # k
      /\ \A m \in Places : m # k /\ m # p => /\ phase'[m] = phase[m]
                                 /\ M_next'[m] = M_next[m] /\ M_prev'[m] = M_prev[m]
      /\ M_prev' = M_prev
      /\ phase[k] = "pushed" /\ phase'[k] = "chained" /\ M_next[k] = End /\ M_next'[k] = End
      /\ phase[p] = "linked" /\ phase'[p] = "linked"
      /\ M_next[p] = End /\ M_next'[p] = k
  <2>1. phase[k] = "pushed" /\ p \in Places /\ phase[End] = "linked"
    BY DEF PushChain, Shape, TypeOK, WriterInv
  <2>2. \A m \in Places : m # k => ~Trans(m)
    BY <2>1 DEF WriterInv, OneWriter, Trans, Places, Nodes, End
  <2>3. phase[p] = "linked" /\ M_next[p] = End
    <3>1. BackLinked(End)
      BY <2>1 DEF BackLinked
    <3>2. BackLinked(p) /\ (M_next[p] = End \/ Detour(M_next[p]))
      BY <3>1 DEF ListInv, Chain
    <3>3. p # k
      BY <3>2, <2>1 DEF BackLinked
    <3>4. phase[p] = "linked"
      BY <3>2, <3>3, <2>1, <2>2 DEF BackLinked, Trans
    <3>5. M_next[p] \in Places
      BY <2>1 DEF Shape, TypeOK
    <3>6. M_next[p] = End
      BY <3>2, <3>5, <2>1, <2>2 DEF Detour, Trans
    <3>q. QED BY <3>4, <3>6
  <2>4. M_next[k] = End
    BY <2>1 DEF ListInv, Chain
  <2>q. QED
    BY <2>1, <2>3, <2>4 DEF PushChain, Shape, TypeOK, useVars, iterVars
<1>2. \A n : IterSum(n)' = IterSum(n) /\ IterSum(n) \in Nat
  BY <1>1, IterSame
<1>3. \A n \in Places : ~Destroyed(n)' =>
        NodeSum(n)' = NodeSum(n) /\ NodeSum(n) \in Nat /\ NodeSum(n)' \in Nat
  <2> SUFFICES ASSUME NEW n \in Places, ~Destroyed(n)'
               PROVE  NodeSum(n)' = NodeSum(n) /\ NodeSum(n) \in Nat /\ NodeSum(n)' \in Nat
    OBVIOUS
  <2>1. Pointers(k, n) = One(n = k)
    BY <1>1 DEF Pointers, One, NextRefs, PrevRefs, WriteRefs
  <2>2. Pointers(k, n)' = 0
    BY <1>1 DEF Pointers, One, NextRefs, PrevRefs, WriteRefs
  <2>3. Pointers(p, n) = One(n = M_prev[p] /\ n # End)
    BY <1>1 DEF Pointers, One, NextRefs, PrevRefs, WriteRefs
  <2>4. Pointers(p, n)' = One(n = k) + One(n = M_prev[p] /\ n # End)
    BY <1>1 DEF Pointers, One, NextRefs, PrevRefs, WriteRefs
  <2>5. /\ NodeSum(n) \in Nat /\ NodeSum(n)' \in Nat
        /\ NodeSum(n)' = NodeSum(n) + Pointers(k, n)' + Pointers(p, n)' - Pointers(k, n) - Pointers(p, n)
    <3>1. k \in Places /\ p \in Places /\ k # p
      BY <1>1
    <3>2. OnlyNodes(k, p)
      BY <1>1 DEF OnlyNodes
    <3>q. QED BY <3>1, <3>2, NodeChangeTwo
  <2>q. QED BY <2>1, <2>2, <2>3, <2>4, <2>5 DEF One
<1>4. \A n \in Places : usageNO'[n] = usageNO[n] /\ usageNO[n] \in Int
  BY <1>0, <1>1, UseSame
<1>5. \A n \in Places : ~Destroyed(n)' => ~Destroyed(n)
  BY <1>1 DEF Destroyed
<1>q. QED BY <1>2, <1>3, <1>4, <1>5, OneType, CountStep

LEMMA CountPushLink ==
  ASSUME Shape, WriterInv, ListInv, UsageAccounting, NEW k \in Nodes, PushLink(k)
  PROVE  UsageAccounting'
<1> USE PlacesFacts
<1>0. usageNO' = Access(usageNO, k)
  BY DEF PushLink, useVars, vars
<1>1. /\ M_node' = M_node /\ pc' = pc
      /\ \A m \in Places : m # k /\ m # End => /\ phase'[m] = phase[m]
                                 /\ M_next'[m] = M_next[m] /\ M_prev'[m] = M_prev[m]
      /\ M_next' = M_next
      /\ phase[k] = "chained" /\ phase'[k] = "linked" /\ M_next[k] = End
      /\ phase[End] = "linked" /\ phase'[End] = "linked"
      /\ M_prev[k] = M_prev[End] /\ M_prev'[k] = M_prev[k] /\ M_prev'[End] = k
  BY DEF PushLink, Shape, TypeOK, IterShape, On, Free, nodeVars, useVars, iterVars, WriterInv, OneWriter, Trans, ListInv, Chain, AllBorn, BackLinked, InList, Detour, Born
<1>2. \A n : IterSum(n)' = IterSum(n) /\ IterSum(n) \in Nat
  BY <1>1, IterSame
<1>3. \A n \in Places : ~Destroyed(n)' =>
        NodeSum(n)' = NodeSum(n) + One(n = k) /\ NodeSum(n) \in Nat /\ NodeSum(n)' \in Nat
  <2> SUFFICES ASSUME NEW n \in Places, ~Destroyed(n)'
               PROVE  NodeSum(n)' = NodeSum(n) + One(n = k) /\ NodeSum(n) \in Nat /\ NodeSum(n)' \in Nat
    OBVIOUS
  <2>1. Pointers(k, n) = 0
    BY <1>1 DEF Pointers, One, NextRefs, PrevRefs, WriteRefs
  <2>2. Pointers(k, n)' = One(n = M_prev[End] /\ n # End)
    BY <1>1 DEF Pointers, One, NextRefs, PrevRefs, WriteRefs
  <2>3. Pointers(End, n) = One(n = M_next[End] /\ n # End) + One(n = M_prev[End] /\ n # End)
    BY <1>1 DEF Pointers, One, NextRefs, PrevRefs, WriteRefs
  <2>4. Pointers(End, n)' = One(n = M_next[End] /\ n # End) + One(n = k)
    BY <1>1 DEF Pointers, One, NextRefs, PrevRefs, WriteRefs
  <2>5. /\ NodeSum(n) \in Nat /\ NodeSum(n)' \in Nat
        /\ NodeSum(n)' = NodeSum(n) + Pointers(k, n)' + Pointers(End, n)' - Pointers(k, n) - Pointers(End, n)
    <3>1. k \in Places /\ End \in Places /\ k # End
      BY <1>1
    <3>2. OnlyNodes(k, End)
      BY <1>1 DEF OnlyNodes
    <3>q. QED BY <3>1, <3>2, NodeChangeTwo
  <2>q. QED BY <2>1, <2>2, <2>3, <2>4, <2>5 DEF One
<1>4. \A n \in Places : usageNO'[n] = usageNO[n] + One(n = k) /\ usageNO[n] \in Int
  BY <1>0, <1>1, UseAccess
<1>5. \A n \in Places : ~Destroyed(n)' => ~Destroyed(n)
  BY <1>1 DEF Destroyed
<1>q. QED BY <1>2, <1>3, <1>4, <1>5, OneType, CountStep

LEMMA CountPrepare ==
  ASSUME Shape, WriterInv, ListInv, UsageAccounting, NEW i \in Iters, NEW k, k = M_node[i], Prepare(i)
  PROVE  UsageAccounting'
<1> USE PlacesFacts
<1>0. usageNO' = Access(usageNO, M_prev[k])
  BY DEF Prepare, useVars, vars
<1>1. /\ \A j \in Iters : j # i => M_node'[j] = M_node[j] /\ pc'[j] = pc[j]
      /\ k \in Nodes /\ M_prev[k] \in Places
      /\ \A m \in Places : m # k => /\ phase'[m] = phase[m]
                                 /\ M_next'[m] = M_next[m] /\ M_prev'[m] = M_prev[m]
      /\ M_next' = M_next /\ M_prev' = M_prev
      /\ phase[k] = "linked" /\ phase'[k] = "flagged"
      /\ M_node'[i] = M_node[i] /\ pc[i] = "idle" /\ pc'[i] = "preparing"
  <2>1. /\ k \in Nodes /\ k \in Places /\ M_prev[k] \in Places
        /\ pc[i] = "idle" /\ phase[k] \in Phases /\ ~is_erasing(k)
    BY DEF Prepare, On, Shape, TypeOK
  <2>2. phase[k] = "linked"
    <3>1. Born(k)
      BY <2>1 DEF ListInv, AllBorn
    <3>2. phase[k] \notin {"pushed", "chained"}
      BY <2>1 DEF Prepare, NoWriter, WriterInv, OneWriter
    <3>q. QED BY <2>1, <3>1, <3>2, NotErasing DEF Born
  <2>q. QED
    BY <2>1, <2>2 DEF Prepare, Shape, TypeOK
<1>2. \A n \in Places : IterSum(n)' = IterSum(n) /\ IterSum(n) \in Nat /\ IterSum(n)' \in Nat
  <2> TAKE n \in Places
  <2>1. One(i \in IterRefs(n)') - One(i \in IterRefs(n)) = 0
    BY <1>1 DEF One, IterRefs, Shape, TypeOK
  <2>2. /\ IterSum(n) \in Nat /\ IterSum(n)' \in Nat
        /\ IterSum(n)' = IterSum(n) + One(i \in IterRefs(n)') - One(i \in IterRefs(n))
    BY <1>1, IterChange
  <2>q. QED BY <2>1, <2>2 DEF One
<1>3. \A n \in Places : ~Destroyed(n)' =>
        NodeSum(n)' = NodeSum(n) + One(n = M_prev[k]) /\ NodeSum(n) \in Nat /\ NodeSum(n)' \in Nat
  <2> SUFFICES ASSUME NEW n \in Places, ~Destroyed(n)'
               PROVE  NodeSum(n)' = NodeSum(n) + One(n = M_prev[k]) /\ NodeSum(n) \in Nat /\ NodeSum(n)' \in Nat
    OBVIOUS
  <2>1. Pointers(k, n) = One(n = M_next[k] /\ n # End) + One(n = M_prev[k] /\ n # End)
    BY <1>1 DEF Pointers, One, NextRefs, PrevRefs, WriteRefs
  <2>2. Pointers(k, n)' = One(n = M_next[k] /\ n # End) + One(n = M_prev[k] /\ n # End) + One(n = M_prev[k])
    BY <1>1 DEF Pointers, One, NextRefs, PrevRefs, WriteRefs
  <2>3. /\ NodeSum(n) \in Nat /\ NodeSum(n)' \in Nat
        /\ NodeSum(n)' = NodeSum(n) + Pointers(k, n)' - Pointers(k, n)
    BY <1>1, NodeChange
  <2>q. QED BY <2>1, <2>2, <2>3 DEF One
<1>4. \A n \in Places : usageNO'[n] = usageNO[n] + One(n = M_prev[k]) /\ usageNO[n] \in Int
  BY <1>0, <1>1, UseAccess
<1>5. \A n \in Places : ~Destroyed(n)' => ~Destroyed(n)
  BY <1>1 DEF Destroyed
<1>q. QED BY <1>2, <1>3, <1>4, <1>5, OneType, CountStep

LEMMA CountBypass ==
  ASSUME Shape, WriterInv, ListInv, UsageAccounting, NEW i \in Iters, NEW k, NEW p, NEW x, k = M_node[i], p = M_prev[k], x = M_next[k], Bypass(i)
  PROVE  UsageAccounting'
<1> USE PlacesFacts
<1>0. usageNO' = Access(Release(usageNO, k), x)
  BY DEF Bypass, useVars, vars
<1>1. /\ M_node' = M_node /\ pc' = pc
      /\ k \in Nodes /\ k \in Places /\ p \in Places /\ x \in Places /\ x # k
      /\ \A m \in Places : m # k /\ m # x => /\ phase'[m] = phase[m]
                                 /\ M_next'[m] = M_next[m] /\ M_prev'[m] = M_prev[m]
      /\ M_next' = M_next /\ M_prev'[k] = p /\ M_prev'[x] = p
      /\ phase[k] = "flagged" /\ phase'[k] = "bypassed"
      /\ phase[x] = "linked" /\ phase'[x] = "linked" /\ M_prev[x] = k
  <2>1. /\ k \in Nodes /\ k \in Places /\ p \in Places /\ x \in Places
        /\ phase[k] = "flagged" /\ pc[i] = "preparing"
    BY DEF Bypass, Shape, TypeOK, IterShape
  <2>2. \A m \in Places : m # k => ~Trans(m)
    BY <2>1 DEF WriterInv, OneWriter, Trans, Places, Nodes, End
  <2>3. p < k /\ (x = End \/ k < x) /\ p # k /\ x # k
    BY <2>1 DEF ListInv, Order, Born, Places, Nodes, End
  <2>4. phase[x] = "linked" /\ M_prev[x] = k
    <3>1. InList(x) /\ M_prev[x] = k
      BY <2>1 DEF ListInv, Chain, BackLinked
    <3>q. QED BY <3>1, <2>1, <2>2, <2>3 DEF InList, Trans
  <2>q. QED
    BY <2>1, <2>3, <2>4 DEF Bypass, Shape, TypeOK, iterVars
<1>2. \A n : IterSum(n)' = IterSum(n) /\ IterSum(n) \in Nat
  BY <1>1, IterSame
<1>3. \A n \in Places : ~Destroyed(n)' =>
        NodeSum(n)' = NodeSum(n) + One(n = x) - One(n = k) /\ NodeSum(n) \in Nat /\ NodeSum(n)' \in Nat
  <2> SUFFICES ASSUME NEW n \in Places, ~Destroyed(n)'
               PROVE  NodeSum(n)' = NodeSum(n) + One(n = x) - One(n = k) /\ NodeSum(n) \in Nat /\ NodeSum(n)' \in Nat
    OBVIOUS
  <2>1. Pointers(k, n) = One(n = x /\ n # End) + One(n = p /\ n # End) + One(n = p)
    BY <1>1 DEF Pointers, One, NextRefs, PrevRefs, WriteRefs
  <2>2. Pointers(k, n)' = One(n = x /\ n # End) + One(n = p) + One(n = x)
    BY <1>1 DEF Pointers, One, NextRefs, PrevRefs, WriteRefs
  <2>3. Pointers(x, n) = One(n = M_next[x] /\ n # End) + One(n = k)
    BY <1>1 DEF Pointers, One, NextRefs, PrevRefs, WriteRefs
  <2>4. Pointers(x, n)' = One(n = M_next[x] /\ n # End) + One(n = p /\ n # End)
    BY <1>1 DEF Pointers, One, NextRefs, PrevRefs, WriteRefs
  <2>5. /\ NodeSum(n) \in Nat /\ NodeSum(n)' \in Nat
        /\ NodeSum(n)' = NodeSum(n) + Pointers(k, n)' + Pointers(x, n)' - Pointers(k, n) - Pointers(x, n)
    <3>1. k \in Places /\ x \in Places /\ k # x
      BY <1>1
    <3>2. OnlyNodes(k, x)
      BY <1>1 DEF OnlyNodes
    <3>q. QED BY <3>1, <3>2, NodeChangeTwo
  <2>q. QED BY <2>1, <2>2, <2>3, <2>4, <2>5 DEF One
<1>4. \A n \in Places : usageNO'[n] = usageNO[n] + One(n = x) - One(n = k) /\ usageNO[n] \in Int
  BY <1>0, <1>1, UseMove
<1>5. \A n \in Places : ~Destroyed(n)' => ~Destroyed(n)
  BY <1>1 DEF Destroyed
<1>q. QED BY <1>2, <1>3, <1>4, <1>5, OneType, CountStep

LEMMA CountUnlink ==
  ASSUME Shape, WriterInv, ListInv, UsageAccounting, NEW i \in Iters, NEW k, NEW p, NEW x, k = M_node[i], p = M_prev[k], x = M_next[k], NEW inline \in BOOLEAN, Unlink(i, inline)
  PROVE  UsageAccounting'
<1> USE PlacesFacts
<1>0. usageNO' = Release(usageNO, k)
  BY DEF Unlink, useVars, vars
<1>1. /\ \A j \in Iters : j # i => M_node'[j] = M_node[j] /\ pc'[j] = pc[j]
      /\ M_node'[i] = M_node[i] /\ pc[i] = "preparing"
      /\ pc'[i] = IF inline THEN "stale" ELSE "prepared"
      /\ k \in Nodes /\ k \in Places /\ p \in Places /\ x \in Places /\ p # k
      /\ \A m \in Places : m # k /\ m # p => /\ phase'[m] = phase[m]
                                 /\ M_next'[m] = M_next[m] /\ M_prev'[m] = M_prev[m]
      /\ M_prev' = M_prev /\ M_next'[k] = x /\ M_next'[p] = x
      /\ phase[k] = "bypassed" /\ phase'[k] = IF inline THEN "captured" ELSE "unlinked"
      /\ phase[p] = "linked" /\ phase'[p] = "linked" /\ M_next[p] = k
  <2>1. /\ k \in Nodes /\ k \in Places /\ p \in Places /\ x \in Places
        /\ phase[k] = "bypassed" /\ pc[i] = "preparing"
    BY DEF Unlink, Shape, TypeOK, IterShape
  <2>2. \A m \in Places : m # k => ~Trans(m)
    BY <2>1 DEF WriterInv, OneWriter, Trans, Places, Nodes, End
  <2>3. p < k /\ (x = End \/ k < x) /\ p # k /\ x # k
    BY <2>1 DEF ListInv, Order, Born, Places, Nodes, End
  <2>4. phase[p] = "linked" /\ M_next[p] = k
    <3>1. BackLinked(p) /\ M_next[p] = k
      BY <2>1 DEF ListInv, Chain, Detour
    <3>q. QED BY <3>1, <2>1, <2>2, <2>3 DEF BackLinked, Trans
  <2>q. QED
    BY <2>1, <2>3, <2>4 DEF Unlink, Shape, TypeOK
<1>2. \A n \in Places : IterSum(n)' = IterSum(n) - One(inline /\ n = k) /\ IterSum(n) \in Nat /\ IterSum(n)' \in Nat
  <2> TAKE n \in Places
  <2>1. One(i \in IterRefs(n)') - One(i \in IterRefs(n)) = 0 - One(inline /\ n = k)
    BY <1>1 DEF One, IterRefs, Shape, TypeOK
  <2>2. /\ IterSum(n) \in Nat /\ IterSum(n)' \in Nat
        /\ IterSum(n)' = IterSum(n) + One(i \in IterRefs(n)') - One(i \in IterRefs(n))
    BY <1>1, IterChange
  <2>q. QED BY <2>1, <2>2 DEF One
<1>3. \A n \in Places : ~Destroyed(n)' =>
        NodeSum(n)' = NodeSum(n) + One(inline /\ n = k) - One(n = k) /\ NodeSum(n) \in Nat /\ NodeSum(n)' \in Nat
  <2> SUFFICES ASSUME NEW n \in Places, ~Destroyed(n)'
               PROVE  NodeSum(n)' = NodeSum(n) + One(inline /\ n = k) - One(n = k) /\ NodeSum(n) \in Nat /\ NodeSum(n)' \in Nat
    OBVIOUS
  <2>1. Pointers(k, n) = One(n = x /\ n # End) + One(n = p) + One(n = x)
    BY <1>1 DEF Pointers, One, NextRefs, PrevRefs, WriteRefs
  <2>2. Pointers(k, n)' = One(n = x) + One(n = p) + One(inline /\ n = k)
    BY <1>1 DEF Pointers, One, NextRefs, PrevRefs, WriteRefs
  <2>3. Pointers(p, n) = One(n = k) + One(n = M_prev[p] /\ n # End)
    BY <1>1 DEF Pointers, One, NextRefs, PrevRefs, WriteRefs
  <2>4. Pointers(p, n)' = One(n = x /\ n # End) + One(n = M_prev[p] /\ n # End)
    BY <1>1 DEF Pointers, One, NextRefs, PrevRefs, WriteRefs
  <2>5. /\ NodeSum(n) \in Nat /\ NodeSum(n)' \in Nat
        /\ NodeSum(n)' = NodeSum(n) + Pointers(k, n)' + Pointers(p, n)' - Pointers(k, n) - Pointers(p, n)
    <3>1. k \in Places /\ p \in Places /\ k # p
      BY <1>1
    <3>2. OnlyNodes(k, p)
      BY <1>1 DEF OnlyNodes
    <3>q. QED BY <3>1, <3>2, NodeChangeTwo
  <2>q. QED BY <2>1, <2>2, <2>3, <2>4, <2>5 DEF One
<1>4. \A n \in Places : usageNO'[n] = usageNO[n] - One(n = k) /\ usageNO[n] \in Int
  BY <1>0, <1>1, UseRelease
<1>5. \A n \in Places : ~Destroyed(n)' => ~Destroyed(n)
  BY <1>1 DEF Destroyed
<1>q. QED BY <1>2, <1>3, <1>4, <1>5, OneType, CountStep

LEMMA CountSpawn ==
  ASSUME Shape, WriterInv, ListInv, UsageAccounting, NEW i \in Iters, NEW k, k = M_node[i], Spawn(i)
  PROVE  UsageAccounting'
<1> USE PlacesFacts
<1>0. usageNO' = Access(usageNO, k)
  BY DEF Spawn, useVars, vars
<1>1. /\ \A j \in Iters : j # i => M_node'[j] = M_node[j] /\ pc'[j] = pc[j]
      /\ M_node'[i] = M_node[i] /\ pc[i] = "prepared" /\ pc'[i] = "idle"
      /\ k \in Nodes
      /\ \A m \in Places : m # k => /\ phase'[m] = phase[m]
                                 /\ M_next'[m] = M_next[m] /\ M_prev'[m] = M_prev[m]
      /\ M_next' = M_next /\ M_prev' = M_prev
      /\ phase[k] = "unlinked" /\ phase'[k] = "captured"
  BY DEF Spawn, Shape, TypeOK, IterShape, On, Free, nodeVars, useVars, iterVars, WriterInv, PhaseOfIter
<1>2. \A n \in Places : IterSum(n)' = IterSum(n) /\ IterSum(n) \in Nat /\ IterSum(n)' \in Nat
  <2> TAKE n \in Places
  <2>1. One(i \in IterRefs(n)') - One(i \in IterRefs(n)) = 0
    BY <1>1 DEF One, IterRefs, Shape, TypeOK
  <2>2. /\ IterSum(n) \in Nat /\ IterSum(n)' \in Nat
        /\ IterSum(n)' = IterSum(n) + One(i \in IterRefs(n)') - One(i \in IterRefs(n))
    BY <1>1, IterChange
  <2>q. QED BY <2>1, <2>2 DEF One
<1>3. \A n \in Places : ~Destroyed(n)' =>
        NodeSum(n)' = NodeSum(n) + One(n = k) /\ NodeSum(n) \in Nat /\ NodeSum(n)' \in Nat
  <2> SUFFICES ASSUME NEW n \in Places, ~Destroyed(n)'
               PROVE  NodeSum(n)' = NodeSum(n) + One(n = k) /\ NodeSum(n) \in Nat /\ NodeSum(n)' \in Nat
    OBVIOUS
  <2>1. Pointers(k, n) = One(n = M_next[k]) + One(n = M_prev[k])
    BY <1>1 DEF Pointers, One, NextRefs, PrevRefs, WriteRefs
  <2>2. Pointers(k, n)' = One(n = M_next[k]) + One(n = M_prev[k]) + One(n = k)
    BY <1>1 DEF Pointers, One, NextRefs, PrevRefs, WriteRefs
  <2>3. /\ NodeSum(n) \in Nat /\ NodeSum(n)' \in Nat
        /\ NodeSum(n)' = NodeSum(n) + Pointers(k, n)' - Pointers(k, n)
    BY <1>1, NodeChange
  <2>q. QED BY <2>1, <2>2, <2>3 DEF One
<1>4. \A n \in Places : usageNO'[n] = usageNO[n] + One(n = k) /\ usageNO[n] \in Int
  BY <1>0, <1>1, UseAccess
<1>5. \A n \in Places : ~Destroyed(n)' => ~Destroyed(n)
  BY <1>1 DEF Destroyed
<1>q. QED BY <1>2, <1>3, <1>4, <1>5, OneType, CountStep

LEMMA CountEraseFini ==
  ASSUME Shape, WriterInv, ListInv, UsageAccounting, NEW k \in Nodes, EraseFini(k)
  PROVE  UsageAccounting'
<1> USE PlacesFacts
<1>0. usageNO' = Release(usageNO, k)
  BY DEF EraseFini, useVars, vars
<1>1. /\ M_node' = M_node /\ pc' = pc
      /\ \A m \in Places : m # k => /\ phase'[m] = phase[m]
                                 /\ M_next'[m] = M_next[m] /\ M_prev'[m] = M_prev[m]
      /\ M_next' = M_next /\ M_prev' = M_prev
      /\ phase[k] = "captured" /\ phase'[k] = "waiting"
  BY DEF EraseFini, Shape, TypeOK, IterShape, On, Free, nodeVars, useVars, iterVars
<1>2. \A n : IterSum(n)' = IterSum(n) /\ IterSum(n) \in Nat
  BY <1>1, IterSame
<1>3. \A n \in Places : ~Destroyed(n)' =>
        NodeSum(n)' = NodeSum(n) - One(n = k) /\ NodeSum(n) \in Nat /\ NodeSum(n)' \in Nat
  <2> SUFFICES ASSUME NEW n \in Places, ~Destroyed(n)'
               PROVE  NodeSum(n)' = NodeSum(n) - One(n = k) /\ NodeSum(n) \in Nat /\ NodeSum(n)' \in Nat
    OBVIOUS
  <2>1. Pointers(k, n) = One(n = M_next[k]) + One(n = M_prev[k]) + One(n = k)
    BY <1>1 DEF Pointers, One, NextRefs, PrevRefs, WriteRefs
  <2>2. Pointers(k, n)' = One(n = M_next[k]) + One(n = M_prev[k])
    BY <1>1 DEF Pointers, One, NextRefs, PrevRefs, WriteRefs
  <2>3. /\ NodeSum(n) \in Nat /\ NodeSum(n)' \in Nat
        /\ NodeSum(n)' = NodeSum(n) + Pointers(k, n)' - Pointers(k, n)
    BY <1>1, NodeChange
  <2>q. QED BY <2>1, <2>2, <2>3 DEF One
<1>4. \A n \in Places : usageNO'[n] = usageNO[n] - One(n = k) /\ usageNO[n] \in Int
  BY <1>0, <1>1, UseRelease
<1>5. \A n \in Places : ~Destroyed(n)' => ~Destroyed(n)
  BY <1>1 DEF Destroyed
<1>q. QED BY <1>2, <1>3, <1>4, <1>5, OneType, CountStep

LEMMA CountWaitForUsage ==
  ASSUME Shape, WriterInv, ListInv, UsageAccounting, NEW k \in Nodes, WaitForUsage(k) \/ SpuriousWakeup(k)
  PROVE  UsageAccounting'
<1> USE PlacesFacts
<1>0. usageNO' = usageNO
  BY DEF WaitForUsage, SpuriousWakeup, useVars, vars
<1>1. /\ M_node' = M_node /\ pc' = pc
      /\ phase' = phase /\ M_next' = M_next /\ M_prev' = M_prev
  BY DEF WaitForUsage, SpuriousWakeup, Shape, TypeOK, IterShape, On, Free, nodeVars, useVars, iterVars
<1>2. \A n : IterSum(n)' = IterSum(n) /\ IterSum(n) \in Nat
  BY <1>1, IterSame
<1>3. \A n : NodeSum(n)' = NodeSum(n) /\ NodeSum(n) \in Nat
  BY <1>1, NodeSame
<1>4. \A n \in Places : usageNO'[n] = usageNO[n] /\ usageNO[n] \in Int
  BY <1>0, <1>1, UseSame
<1>5. \A n \in Places : ~Destroyed(n)' => ~Destroyed(n)
  BY <1>1 DEF Destroyed
<1>q. QED BY <1>2, <1>3, <1>4, <1>5, OneType, CountStep

LEMMA CountDestroy ==
  ASSUME Shape, WriterInv, ListInv, UsageAccounting, NEW k \in Nodes, Destroy(k)
  PROVE  UsageAccounting'
<1> USE PlacesFacts
<1>0. usageNO' = usageNO
  BY DEF Destroy, useVars, vars
<1>1. /\ M_node' = M_node /\ pc' = pc
      /\ \A m \in Places : m # k => /\ phase'[m] = phase[m]
                                 /\ M_next'[m] = M_next[m] /\ M_prev'[m] = M_prev[m]
      /\ M_next' = M_next /\ M_prev' = M_prev
      /\ phase[k] = "waiting" /\ phase'[k] = "freed"
  BY DEF Destroy, Shape, TypeOK, IterShape, On, Free, nodeVars, useVars, iterVars
<1>2. \A n : IterSum(n)' = IterSum(n) /\ IterSum(n) \in Nat
  BY <1>1, IterSame
<1>3. \A n \in Places : ~Destroyed(n)' =>
        NodeSum(n)' = NodeSum(n) /\ NodeSum(n) \in Nat /\ NodeSum(n)' \in Nat
  <2> SUFFICES ASSUME NEW n \in Places, ~Destroyed(n)'
               PROVE  NodeSum(n)' = NodeSum(n) /\ NodeSum(n) \in Nat /\ NodeSum(n)' \in Nat
    OBVIOUS
  <2>1. Pointers(k, n) = One(n = M_next[k]) + One(n = M_prev[k])
    BY <1>1 DEF Pointers, One, NextRefs, PrevRefs, WriteRefs
  <2>2. Pointers(k, n)' = One(n = M_next[k]) + One(n = M_prev[k])
    BY <1>1 DEF Pointers, One, NextRefs, PrevRefs, WriteRefs
  <2>3. /\ NodeSum(n) \in Nat /\ NodeSum(n)' \in Nat
        /\ NodeSum(n)' = NodeSum(n) + Pointers(k, n)' - Pointers(k, n)
    BY <1>1, NodeChange
  <2>q. QED BY <2>1, <2>2, <2>3 DEF One
<1>4. \A n \in Places : usageNO'[n] = usageNO[n] /\ usageNO[n] \in Int
  BY <1>0, <1>1, UseSame
<1>5. \A n \in Places : ~Destroyed(n)' => ~Destroyed(n)
  BY <1>1 DEF Destroyed
<1>q. QED BY <1>2, <1>3, <1>4, <1>5, OneType, CountStep

LEMMA CountReleaseNext ==
  ASSUME Shape, WriterInv, ListInv, UsageAccounting, NEW k \in Nodes, ReleaseNext(k)
  PROVE  UsageAccounting'
<1> USE PlacesFacts
<1>0. usageNO' = Release(usageNO, M_next[k])
  BY DEF ReleaseNext, ReleaseNeighbour, useVars, vars
<1>1. /\ M_node' = M_node /\ pc' = pc
      /\ \A m \in Places : m # k => /\ phase'[m] = phase[m]
                                 /\ M_next'[m] = M_next[m] /\ M_prev'[m] = M_prev[m]
      /\ M_next' = M_next /\ M_prev' = M_prev
      /\ phase[k] = "freed" /\ phase'[k] = "nextReleased"
      /\ M_next[k] \in Places
  BY DEF ReleaseNext, ReleaseNeighbour, Shape, TypeOK, IterShape, On, Free, nodeVars, useVars, iterVars
<1>2. \A n : IterSum(n)' = IterSum(n) /\ IterSum(n) \in Nat
  BY <1>1, IterSame
<1>3. \A n \in Places : ~Destroyed(n)' =>
        NodeSum(n)' = NodeSum(n) - One(n = M_next[k]) /\ NodeSum(n) \in Nat /\ NodeSum(n)' \in Nat
  <2> SUFFICES ASSUME NEW n \in Places, ~Destroyed(n)'
               PROVE  NodeSum(n)' = NodeSum(n) - One(n = M_next[k]) /\ NodeSum(n) \in Nat /\ NodeSum(n)' \in Nat
    OBVIOUS
  <2>1. Pointers(k, n) = One(n = M_next[k]) + One(n = M_prev[k])
    BY <1>1 DEF Pointers, One, NextRefs, PrevRefs, WriteRefs
  <2>2. Pointers(k, n)' = One(n = M_prev[k])
    BY <1>1 DEF Pointers, One, NextRefs, PrevRefs, WriteRefs
  <2>3. /\ NodeSum(n) \in Nat /\ NodeSum(n)' \in Nat
        /\ NodeSum(n)' = NodeSum(n) + Pointers(k, n)' - Pointers(k, n)
    BY <1>1, NodeChange
  <2>q. QED BY <2>1, <2>2, <2>3 DEF One
<1>4. \A n \in Places : usageNO'[n] = usageNO[n] - One(n = M_next[k]) /\ usageNO[n] \in Int
  BY <1>0, <1>1, UseRelease
<1>5. \A n \in Places : ~Destroyed(n)' => ~Destroyed(n)
  BY <1>1 DEF Destroyed
<1>q. QED BY <1>2, <1>3, <1>4, <1>5, OneType, CountStep

LEMMA CountReleasePrev ==
  ASSUME Shape, WriterInv, ListInv, UsageAccounting, NEW k \in Nodes, ReleasePrev(k)
  PROVE  UsageAccounting'
<1> USE PlacesFacts
<1>0. usageNO' = Release(usageNO, M_prev[k])
  BY DEF ReleasePrev, ReleaseNeighbour, useVars, vars
<1>1. /\ M_node' = M_node /\ pc' = pc
      /\ \A m \in Places : m # k => /\ phase'[m] = phase[m]
                                 /\ M_next'[m] = M_next[m] /\ M_prev'[m] = M_prev[m]
      /\ M_next' = M_next /\ M_prev' = M_prev
      /\ phase[k] = "nextReleased" /\ phase'[k] = "prevReleased"
      /\ M_prev[k] \in Places
  BY DEF ReleasePrev, ReleaseNeighbour, Shape, TypeOK, IterShape, On, Free, nodeVars, useVars, iterVars
<1>2. \A n : IterSum(n)' = IterSum(n) /\ IterSum(n) \in Nat
  BY <1>1, IterSame
<1>3. \A n \in Places : ~Destroyed(n)' =>
        NodeSum(n)' = NodeSum(n) - One(n = M_prev[k]) /\ NodeSum(n) \in Nat /\ NodeSum(n)' \in Nat
  <2> SUFFICES ASSUME NEW n \in Places, ~Destroyed(n)'
               PROVE  NodeSum(n)' = NodeSum(n) - One(n = M_prev[k]) /\ NodeSum(n) \in Nat /\ NodeSum(n)' \in Nat
    OBVIOUS
  <2>1. Pointers(k, n) = One(n = M_prev[k])
    BY <1>1 DEF Pointers, One, NextRefs, PrevRefs, WriteRefs
  <2>2. Pointers(k, n)' = 0
    BY <1>1 DEF Pointers, One, NextRefs, PrevRefs, WriteRefs
  <2>3. /\ NodeSum(n) \in Nat /\ NodeSum(n)' \in Nat
        /\ NodeSum(n)' = NodeSum(n) + Pointers(k, n)' - Pointers(k, n)
    BY <1>1, NodeChange
  <2>q. QED BY <2>1, <2>2, <2>3 DEF One
<1>4. \A n \in Places : usageNO'[n] = usageNO[n] - One(n = M_prev[k]) /\ usageNO[n] \in Int
  BY <1>0, <1>1, UseRelease
<1>5. \A n \in Places : ~Destroyed(n)' => ~Destroyed(n)
  BY <1>1 DEF Destroyed
<1>q. QED BY <1>2, <1>3, <1>4, <1>5, OneType, CountStep

LEMMA CountStalePos ==
  ASSUME Shape, WriterInv, ListInv, UsageAccounting, NEW k \in Nodes, StalePos(k)
  PROVE  UsageAccounting'
<1> USE PlacesFacts
<1>0. usageNO' = Release(usageNO, k)
  BY DEF StalePos, useVars, vars
<1>1. /\ M_node' = M_node /\ pc' = pc
      /\ \A m \in Places : m # k => /\ phase'[m] = phase[m]
                                 /\ M_next'[m] = M_next[m] /\ M_prev'[m] = M_prev[m]
      /\ M_next' = M_next /\ M_prev' = M_prev
      /\ phase[k] = "prevReleased" /\ phase'[k] = "done"
  BY DEF StalePos, Shape, TypeOK, IterShape, On, Free, nodeVars, useVars, iterVars
<1>2. \A n : IterSum(n)' = IterSum(n) /\ IterSum(n) \in Nat
  BY <1>1, IterSame
<1>3. \A n \in Places : ~Destroyed(n)' =>
        NodeSum(n)' = NodeSum(n) /\ NodeSum(n) \in Nat /\ NodeSum(n)' \in Nat
  <2> SUFFICES ASSUME NEW n \in Places, ~Destroyed(n)'
               PROVE  NodeSum(n)' = NodeSum(n) /\ NodeSum(n) \in Nat /\ NodeSum(n)' \in Nat
    OBVIOUS
  <2>1. Pointers(k, n) = 0
    BY <1>1 DEF Pointers, One, NextRefs, PrevRefs, WriteRefs
  <2>2. Pointers(k, n)' = 0
    BY <1>1 DEF Pointers, One, NextRefs, PrevRefs, WriteRefs
  <2>3. /\ NodeSum(n) \in Nat /\ NodeSum(n)' \in Nat
        /\ NodeSum(n)' = NodeSum(n) + Pointers(k, n)' - Pointers(k, n)
    BY <1>1, NodeChange
  <2>q. QED BY <2>1, <2>2, <2>3 DEF One
<1>4. \A n \in Places : usageNO'[n] = usageNO[n] - One(n = k) /\ usageNO[n] \in Int
  BY <1>0, <1>1, UseRelease
<1>5. \A n \in Places : ~Destroyed(n)' => ~Destroyed(n) /\ n # k
  BY <1>1 DEF Destroyed
<1>q. QED BY <1>2, <1>3, <1>4, <1>5, OneType, CountStep DEF One

LEMMA CountNext ==
  ASSUME Shape, WriterInv, ListInv, UsageAccounting, [Next]_vars
  PROVE  UsageAccounting'
<1>1. CASE UNCHANGED vars
  <2>1. \A n : IterSum(n)' = IterSum(n) /\ NodeSum(n)' = NodeSum(n)
    BY <1>1, IterSame, NodeSame DEF vars
  <2>2. usageNO' = usageNO /\ \A n : Destroyed(n)' <=> Destroyed(n)
    BY <1>1 DEF vars, Destroyed
  <2>q. QED BY <2>1, <2>2, AccountingDef, AccountingNext
<1>2. ASSUME NEW i \in Iters, IterStep(i) \/ StaleFini(i) \/ Reset(i)
      PROVE  UsageAccounting'
  BY <1>2, CountBegin, CountEndIter, CountCopy, CountAssign, CountMove, CountMovePost,
     CountReadPointer, CountAccessUnlock, CountFini, CountStaleFini, CountReset DEF IterStep
<1>3. ASSUME WriterStep
      PROVE  UsageAccounting'
  BY <1>3, CountPushCreate, CountPushChain, CountPushLink, CountPrepare, CountBypass,
     CountUnlink, CountSpawn DEF WriterStep
<1>4. ASSUME NEW n \in Nodes, EraserStep(n) \/ SpuriousWakeup(n)
      PROVE  UsageAccounting'
  BY <1>4, CountEraseFini, CountWaitForUsage, CountDestroy, CountReleaseNext, CountReleasePrev,
     CountStalePos DEF EraserStep
<1>q. QED BY <1>1, <1>2, <1>3, <1>4 DEF Next

LEMMA CountInit == Init => UsageAccounting
<1> SUFFICES ASSUME Init, NEW n \in Places
             PROVE  usageNO[n] = IterSum(n) + NodeSum(n)
  BY AccountingDef
<1>1. IterRefs(n) = {} /\ NextRefs(n) = {} /\ PrevRefs(n) = {} /\ WriteRefs(n) = {}
  BY PlacesFacts DEF Init, IterRefs, NextRefs, PrevRefs, WriteRefs
<1>q. QED BY <1>1, FS_EmptySet DEF Init, IterSum, NodeSum

-----------------------------------------------------------------------------
LEMMA AliveStep ==
  ASSUME Shape, WriterInv, ListInv, UsageAccounting, AliveInv, [Next]_vars
  PROVE  AliveInv'
<1>1. CASE UNCHANGED vars
  BY <1>1 DEF vars, AliveInv, NoDestroyedReachable, LockInv, Destroyed
<1>q. QED
  BY <1>1, AliveIterStep, AliveWriterStep, AliveEraserStep DEF Next

LEMMA Invariance == Spec => []IInv
<1>1. Init => IInv
  BY ShapeInit, PhaseInit, ListInit, CountInit, AliveInit DEF IInv
<1>2. IInv /\ [Next]_vars => IInv'
  BY ShapeStep, PhaseStep, ListStep, CountNext, AliveStep DEF IInv
<1>q. QED BY <1>1, <1>2, PTL DEF Spec

\* usageNO counts exactly the iterators on a live node and the pointers that
\* lead to it, for every number of nodes, readers and erasers: access, release
\* and the two phases of erase (xlist.hpp 138-156, 797-899) never miscount.
THEOREM UsageIsExact == Spec => []UsageAccounting
BY Invariance, PTL DEF IInv

\* The data of a node is destroyed only when no iterator stands on it and no
\* pointer that could still be followed leads to it (waitForUsage and
\* ~XListNode, xlist.hpp 122-131, 202-208).
THEOREM ReachableIsAlive == Spec => []NoDestroyedReachable
BY Invariance, PTL DEF IInv, AliveInv

-----------------------------------------------------------------------------
(* XList implements XListAbs: every step of the list is a step of its       *)
(* contract or leaves what the contract speaks of as it was.                *)

\* Until push_back chains it, a new node is known to nobody.
Unseen == \A n \in Nodes : phase[n] = "pushed" =>
  /\ \A i \in Iters : M_node[i] # n
  /\ \A m \in Places : Born(m) => M_next[m] # n /\ M_prev[m] # n

LEMMA UnseenInit == Init => Unseen
BY PlacesFacts DEF Init, Unseen

LEMMA UnseenIterStep ==
  ASSUME Shape, WriterInv, ListInv, Unseen, NEW i \in Iters, IterStep(i) \/ StaleFini(i) \/ Reset(i)
  PROVE  Unseen'
<1> USE PlacesFacts
<1>1. phase' = phase /\ M_next' = M_next /\ M_prev' = M_prev
  BY DEF IterStep, StaleFini, Reset, Begin, EndIter, Copy, Assign, Move, MovePost, ReadPointer,
         AccessUnlock, Fini, nodeVars
<1>2. ASSUME NEW j \in Iters, M_node'[j] # M_node[j]
      PROVE  \/ M_node'[j] \in {Null, End}
             \/ \E k \in Iters : M_node'[j] = M_node[k]
             \/ \E m \in Places : Born(m) /\ M_node'[j] \in {M_next[m], M_prev[m]}
  <2>1. CASE Begin(i)
    BY <2>1, <1>2 DEF Begin, Shape, TypeOK, WriterInv, Born
  <2>2. CASE ReadPointer(i)
    <3>1. M_node[i] \in Places /\ Born(M_node[i])
      BY <2>2 DEF ReadPointer, Shape, TypeOK, IterShape, ListInv, AllBorn
    <3>q. QED BY <3>1, <2>2, <1>2 DEF ReadPointer, Shape, TypeOK
  <2>3. CASE EndIter(i) \/ Fini(i) \/ StaleFini(i) \/ Reset(i)
    BY <2>3, <1>2 DEF EndIter, Fini, StaleFini, Reset, Shape, TypeOK
  <2>4. CASE \E k \in Iters : Copy(i, k) \/ Assign(i, k)
    BY <2>4, <1>2 DEF Copy, Assign, Shape, TypeOK
  <2>5. CASE \E way \in {"++", "--"} : Move(i, way) \/ \E k \in Iters : MovePost(i, k, way)
    BY <2>5, <1>2 DEF Move, MovePost, Shape, TypeOK
  <2>6. CASE AccessUnlock(i)
    BY <2>6, <1>2 DEF AccessUnlock
  <2>q. QED BY <2>1, <2>2, <2>3, <2>4, <2>5, <2>6 DEF IterStep
<1>3. ASSUME NEW n \in Nodes, phase[n] = "pushed", NEW j \in Iters
      PROVE  M_node'[j] # n
  BY <1>2, <1>3 DEF Unseen
<1>q. QED BY <1>1, <1>3 DEF Unseen, Born

LEMMA UnseenWriterStep ==
  ASSUME Shape, WriterInv, ListInv, Unseen, WriterStep
  PROVE  Unseen'
<1> USE PlacesFacts
<1>1. CASE \E k \in Nodes : PushCreate(k)
  <2>p. PICK k \in Nodes : PushCreate(k)
    BY <1>1
  <2>1. /\ ~Born(k) /\ k \in Places /\ k # End
        /\ M_node' = M_node
        /\ \A m \in Places : M_next'[m] = IF m = k THEN End ELSE M_next[m]
        /\ \A m \in Places : M_prev'[m] = IF m = k THEN M_prev[End] ELSE M_prev[m]
        /\ \A m \in Places : phase'[m] = IF m = k THEN "pushed" ELSE phase[m]
    <3>1. ~Born(k) /\ k \in Places /\ k # End /\ M_node' = M_node
      BY <2>p DEF PushCreate, Born, iterVars
    <3>q. QED BY <3>1, <2>p DEF PushCreate, Shape, TypeOK
  <2>2. \A n \in Nodes : phase[n] # "pushed"
    BY <2>p DEF PushCreate, NoWriter, WriterInv, OneWriter
  <2>3. M_prev[End] # k
    BY <2>1 DEF ListInv, AllBorn, WriterInv, Born
  <2>4. \A i \in Iters : M_node[i] # k
    BY <2>1 DEF ListInv, AllBorn
  <2>5. \A m \in Places : Born(m) => M_next[m] # k /\ M_prev[m] # k
    BY <2>1 DEF ListInv, AllBorn
  <2>q. QED BY <2>1, <2>2, <2>3, <2>4, <2>5 DEF Unseen, Born
<1>2. CASE \E k \in Nodes : PushChain(k)
  <2>p. PICK k \in Nodes : PushChain(k)
    BY <1>2
  <2>1. \A n \in Nodes : phase'[n] # "pushed"
    BY <2>p DEF PushChain, WriterInv, OneWriter, Trans, Shape, TypeOK
  <2>q. QED BY <2>1 DEF Unseen
<1>3. CASE \E k \in Nodes : PushLink(k)
  <2>p. PICK k \in Nodes : PushLink(k)
    BY <1>3
  <2>1. \A n \in Nodes : phase'[n] # "pushed"
    BY <2>p DEF PushLink, WriterInv, OneWriter, Trans, Shape, TypeOK
  <2>q. QED BY <2>1 DEF Unseen
<1>4. CASE \E i \in Iters : Prepare(i)
  <2>1. \A n \in Nodes : phase'[n] # "pushed"
    BY <1>4 DEF Prepare, NoWriter, WriterInv, OneWriter, Shape, TypeOK
  <2>q. QED BY <2>1 DEF Unseen
<1>5. CASE \E i \in Iters : Bypass(i)
  <2>1. \A n \in Nodes : phase'[n] # "pushed"
    BY <1>5 DEF Bypass, WriterInv, OneWriter, Trans, Shape, TypeOK, IterShape
  <2>q. QED BY <2>1 DEF Unseen
<1>6. CASE \E i \in Iters, inline \in BOOLEAN : Unlink(i, inline)
  <2>p. PICK i \in Iters, inline \in BOOLEAN : Unlink(i, inline)
    BY <1>6
  <2>0. M_node[i] \in Nodes /\ phase[M_node[i]] = "bypassed"
    BY <2>p DEF Unlink, Shape, IterShape
  <2>1. \A n \in Nodes : phase'[n] # "pushed"
    BY <2>p, <2>0 DEF Unlink, WriterInv, OneWriter, Trans, Shape, TypeOK
  <2>q. QED BY <2>1 DEF Unseen
<1>7. CASE \E i \in Iters : Spawn(i)
  <2>p. PICK i \in Iters : Spawn(i)
    BY <1>7
  <2>0. M_node[i] \in Nodes /\ phase[M_node[i]] = "unlinked"
    BY <2>p DEF Spawn, Shape, IterShape, WriterInv, PhaseOfIter
  <2>1. /\ M_next' = M_next /\ M_prev' = M_prev /\ M_node' = M_node
        /\ \A m \in Places : phase'[m] = IF m = M_node[i] THEN "captured" ELSE phase[m]
    BY <2>p DEF Spawn, Shape, TypeOK
  <2>q. QED BY <2>0, <2>1 DEF Unseen, Born
<1>q. QED
  BY <1>1, <1>2, <1>3, <1>4, <1>5, <1>6, <1>7 DEF WriterStep

LEMMA UnseenEraserStep ==
  ASSUME Shape, Unseen, NEW k \in Nodes, EraserStep(k) \/ SpuriousWakeup(k)
  PROVE  Unseen'
<1>1. M_next' = M_next /\ M_prev' = M_prev /\ M_node' = M_node
  BY DEF EraserStep, SpuriousWakeup, EraseFini, WaitForUsage, Destroy, ReleaseNext, ReleasePrev,
         ReleaseNeighbour, StalePos, nodeVars, iterVars
<1>2. \/ phase' = phase
      \/ /\ \A m \in Places : m # k => phase'[m] = phase[m]
         /\ phase[k] # "unborn" /\ phase'[k] \notin {"unborn", "pushed"}
  BY PlacesFacts DEF EraserStep, SpuriousWakeup, EraseFini, WaitForUsage, Destroy, ReleaseNext,
         ReleasePrev, ReleaseNeighbour, StalePos, nodeVars, Shape, TypeOK
<1>3. \A m \in Places : /\ Born(m)' <=> Born(m)
                        /\ phase'[m] = "pushed" => phase[m] = "pushed"
  BY <1>2 DEF Born
<1>q. QED BY <1>1, <1>3, PlacesFacts DEF Unseen

LEMMA UnseenStep ==
  ASSUME Shape, WriterInv, ListInv, Unseen, [Next]_vars
  PROVE  Unseen'
<1>1. CASE UNCHANGED vars
  BY <1>1 DEF vars, Unseen, Born
<1>q. QED
  BY <1>1, UnseenIterStep, UnseenWriterStep, UnseenEraserStep DEF Next

-----------------------------------------------------------------------------
(* The refinement mapping of Contract, and the contract's actions in terms  *)
(* of it.                                                                   *)

Members   == {n \in Nodes : InList(n)}
Removed   == {n \in Nodes : phase[n] \in {"unlinked", "captured", "waiting"}}
Gone      == {n \in Nodes : Destroyed(n)}
At        == [i \in Iters |-> IF pc[i] \in {"idle", "preparing", "prepared"} THEN M_node[i] ELSE Null]

MapSame == Members' = Members /\ Removed' = Removed /\ Gone' = Gone

LEMMA MapStutter ==
  ASSUME MapSame, At' = At
  PROVE  UNCHANGED Contract!vars
BY DEF MapSame, Members, Removed, Gone, At, InList, Contract!vars

LEMMA MapStand ==
  ASSUME MapSame, NEW i \in Iters, NEW n \in Members \cup Removed \cup {End},
         At' = [At EXCEPT ![i] = n]
  PROVE  Contract!Next
BY DEF MapSame, Members, Removed, Gone, At, InList, Contract!Next, Contract!Stand

LEMMA MapLeave ==
  ASSUME MapSame, NEW i \in Iters, At' = [At EXCEPT ![i] = Null]
  PROVE  Contract!Next
BY DEF MapSame, Members, Removed, Gone, At, InList, Contract!Next, Contract!Leave

LEMMA MapHandOver ==
  ASSUME MapSame, NEW i \in Iters, NEW j \in Iters, i # j, At[i] # Null,
         At' = [At EXCEPT ![i] = Null, ![j] = At[i]]
  PROVE  Contract!Next
BY DEF MapSame, Members, Removed, Gone, At, InList, Contract!Next, Contract!HandOver

LEMMA MapAppend ==
  ASSUME NEW n \in Nodes \ (Members \cup Removed \cup Gone),
         Members' = Members \cup {n}, Removed' = Removed, Gone' = Gone, At' = At
  PROVE  Contract!Next
BY DEF Members, Removed, Gone, At, InList, Contract!Next, Contract!Append

LEMMA MapRemove ==
  ASSUME NEW i \in Iters, At[i] \in Members,
         Members' = Members \ {At[i]}, Removed' = Removed \cup {At[i]}, Gone' = Gone,
         At' = At \/ At' = [At EXCEPT ![i] = Null]
  PROVE  Contract!Next
<1>1. CASE At' = At
  BY <1>1 DEF Members, Removed, Gone, At, InList, Contract!Next, Contract!Remove
<1>2. CASE At' = [At EXCEPT ![i] = Null]
  BY <1>2 DEF Members, Removed, Gone, At, InList, Contract!Next, Contract!RemoveAndLeave
<1>q. QED BY <1>1, <1>2

LEMMA MapDestroy ==
  ASSUME NEW n \in Removed, \A i \in Iters : At[i] # n,
         Removed' = Removed \ {n}, Gone' = Gone \cup {n}, Members' = Members, At' = At
  PROVE  Contract!Next
BY DEF Members, Removed, Gone, At, InList, Contract!Next, Contract!Destroy

-----------------------------------------------------------------------------
(* Every step of the list is one of these.                                  *)

Aux == IInv /\ Unseen

\* What an iterator counts as standing on is alive and known.
LEMMA StandsOn ==
  ASSUME Aux, NEW i \in Iters, M_node[i] # Null, pc[i] # "stale"
  PROVE  M_node[i] \in Members \cup Removed \cup {End}
<1>1. M_node[i] \in Places /\ Born(M_node[i]) /\ ~Destroyed(M_node[i])
  BY DEF Aux, IInv, AliveInv, NoDestroyedReachable, ListInv, AllBorn, Shape, TypeOK
<1>2. M_node[i] \in Nodes => phase[M_node[i]] \in Phases /\ phase[M_node[i]] # "pushed"
  BY <1>1 DEF Aux, Unseen, IInv, Shape, TypeOK
<1>3. M_node[i] = End \/ M_node[i] \in Nodes
  BY <1>1 DEF Places, Nodes, End
<1>q. QED
  BY <1>1, <1>2, <1>3 DEF Members, Removed, InList, Born, Destroyed, Phases

LEMMA RefineIterStep ==
  ASSUME Aux, NEW i \in Iters, IterStep(i) \/ StaleFini(i) \/ Reset(i)
  PROVE  [Contract!Next]_(Contract!vars)
<1> USE PlacesFacts DEF Aux, IInv
<1>0. phase' = phase
  BY DEF IterStep, StaleFini, Reset, Begin, EndIter, Copy, Assign, Move, MovePost, ReadPointer,
         AccessUnlock, Fini, nodeVars
<1>s. MapSame
  BY <1>0 DEF MapSame, Members, Removed, Gone, InList, Destroyed
<1> HIDE DEF Aux, IInv
<1>f. M_node \in [Iters -> Places \cup {Null}] /\ DOMAIN pc = Iters
  BY DEF Aux, IInv, Shape, TypeOK
<1>1. CASE Begin(i) \/ ReadPointer(i) \/ StaleFini(i) \/ Reset(i)
  <2>1. /\ \A j \in Iters : j # i => M_node'[j] = M_node[j] /\ pc'[j] = pc[j]
        /\ \/ M_node[i] = Null \/ pc[i] \in {"++", "--", "stale"}
        /\ \/ M_node'[i] = Null \/ pc'[i] = "access"
    BY <1>1, <1>f DEF Begin, ReadPointer, StaleFini, Reset, Free
  <2>2. At' = At
    BY <2>1 DEF At
  <2>q. QED BY <2>2, <1>s, MapStutter
<1>2. CASE EndIter(i)
  <2>1. At' = [At EXCEPT ![i] = End]
    BY <1>2, <1>f DEF At, EndIter, Free
  <2>q. QED BY <2>1, <1>s, MapStand
<1>3. CASE \E j \in Iters : Copy(i, j) \/ Assign(i, j)
  <2>p. PICK j \in Iters : Copy(i, j) \/ Assign(i, j)
    BY <1>3
  <2>1. M_node[j] \in Members \cup Removed \cup {End}
    BY <2>p, StandsOn DEF Copy, Assign, On
  <2>2. At' = [At EXCEPT ![i] = M_node[j]]
    BY <2>p, <1>f DEF At, Copy, Assign, Free, On
  <2>q. QED BY <2>1, <2>2, <1>s, MapStand
<1>4. CASE \E way \in {"++", "--"} : Move(i, way)
  <2>1. At' = [At EXCEPT ![i] = Null]
    BY <1>4, <1>f DEF At, Move, On
  <2>q. QED BY <2>1, <1>s, MapLeave
<1>5. CASE \E way \in {"++", "--"}, j \in Iters : MovePost(i, j, way)
  <2>p. PICK way \in {"++", "--"}, j \in Iters : MovePost(i, j, way)
    BY <1>5
  <2>1. i # j /\ At[i] = M_node[i] /\ M_node[i] # Null /\ pc[j] = "idle"
    BY <2>p DEF At, MovePost, On, Free
  <2>2. /\ M_node' = [M_node EXCEPT ![j] = M_node[i]]
        /\ pc' = [pc EXCEPT ![i] = way]
        /\ way \notin {"idle", "prepared", "preparing"}
    BY <2>p DEF MovePost
  <2>3. At' = [At EXCEPT ![i] = Null, ![j] = At[i]]
    <3>1. \A k \in Iters : At'[k] = [At EXCEPT ![i] = Null, ![j] = At[i]][k]
      <4> SUFFICES ASSUME NEW k \in Iters
                   PROVE  At'[k] = [At EXCEPT ![i] = Null, ![j] = At[i]][k]
        OBVIOUS
      <4>1. CASE k = i
        BY <4>1, <2>1, <2>2, <1>f DEF At
      <4>2. CASE k = j
        BY <4>2, <2>1, <2>2, <1>f DEF At
      <4>3. CASE k # i /\ k # j
        BY <4>3, <2>1, <2>2, <1>f DEF At
      <4>q. QED BY <4>1, <4>2, <4>3
    <3>q. QED BY <3>1 DEF At
  <2>q. QED BY <2>1, <2>3, <1>s, MapHandOver
<1>6. CASE AccessUnlock(i)
  <2>1. M_node[i] \in Members \cup Removed \cup {End}
    BY <1>6, StandsOn DEF AccessUnlock, Aux, IInv, Shape, IterShape
  <2>2. At' = [At EXCEPT ![i] = M_node[i]]
    BY <1>6, <1>f DEF At, AccessUnlock
  <2>q. QED BY <2>1, <2>2, <1>s, MapStand
<1>7. CASE Fini(i)
  <2>1. At' = [At EXCEPT ![i] = Null]
    BY <1>7, <1>f DEF At, Fini
  <2>q. QED BY <2>1, <1>s, MapLeave
<1>q. QED BY <1>1, <1>2, <1>3, <1>4, <1>5, <1>6, <1>7 DEF IterStep

LEMMA RefineWriterStep ==
  ASSUME Aux, WriterStep
  PROVE  [Contract!Next]_(Contract!vars)
<1> USE PlacesFacts
<1>f. /\ phase \in [Places -> Phases] /\ M_node \in [Iters -> Places \cup {Null}]
      /\ DOMAIN pc = Iters
  BY DEF Aux, IInv, Shape, TypeOK
<1>1. CASE \E k \in Nodes : PushCreate(k) \/ PushLink(k)
  <2>1. MapSame /\ At' = At
    BY <1>1, <1>f DEF PushCreate, PushLink, MapSame, Members, Removed, Gone, At, InList, Destroyed,
                      iterVars
  <2>q. QED BY <2>1, MapStutter
<1>2. CASE \E k \in Nodes : PushChain(k)
  <2>p. PICK k \in Nodes : PushChain(k)
    BY <1>2
  <2>1. phase[k] = "pushed" /\ \A m \in Places : phase'[m] = IF m = k THEN "chained" ELSE phase[m]
    BY <2>p, <1>f DEF PushChain
  <2>2. k \in Nodes \ (Members \cup Removed \cup Gone)
    BY <2>1 DEF Members, Removed, Gone, InList, Destroyed
  <2>3. Members' = Members \cup {k} /\ Removed' = Removed /\ Gone' = Gone
    BY <2>1 DEF Members, Removed, Gone, InList, Destroyed
  <2>4. At' = At
    BY <2>p DEF PushChain, At, iterVars
  <2>q. QED BY <2>2, <2>3, <2>4, MapAppend
<1>3. CASE \E i \in Iters : Prepare(i)
  <2>p. PICK i \in Iters : Prepare(i)
    BY <1>3
  <2>1. M_node[i] \in Nodes /\ phase[M_node[i]] = "linked"
    <3>1. /\ M_node[i] \in Nodes /\ M_node[i] \in Places /\ pc[i] = "idle"
          /\ ~is_erasing(M_node[i]) /\ writer = "none"
      BY <2>p DEF Prepare, On, NoWriter
    <3>2. Born(M_node[i]) /\ phase[M_node[i]] \notin {"pushed", "chained"}
      BY <3>1 DEF Aux, IInv, ListInv, AllBorn, WriterInv, OneWriter
    <3>q. QED BY <3>1, <3>2, <1>f, NotErasing DEF Born
  <2>2. \A m \in Places : phase'[m] = IF m = M_node[i] THEN "flagged" ELSE phase[m]
    BY <2>p, <2>1, <1>f DEF Prepare
  <2>3. MapSame
    BY <2>1, <2>2 DEF MapSame, Members, Removed, Gone, InList, Destroyed
  <2>4. At' = At
    BY <2>p, <1>f DEF Prepare, At, On
  <2>q. QED BY <2>3, <2>4, MapStutter
<1>4. CASE \E i \in Iters : Bypass(i)
  <2>p. PICK i \in Iters : Bypass(i)
    BY <1>4
  <2>1. \A m \in Places : phase'[m] = IF m = M_node[i] THEN "bypassed" ELSE phase[m]
    BY <2>p, <1>f DEF Bypass
  <2>2. phase[M_node[i]] = "flagged"
    BY <2>p DEF Bypass
  <2>3. MapSame /\ At' = At
    BY <2>p, <2>1, <2>2 DEF Bypass, MapSame, Members, Removed, Gone, At, InList, Destroyed, iterVars
  <2>q. QED BY <2>3, MapStutter
<1>5. CASE \E i \in Iters, inline \in BOOLEAN : Unlink(i, inline)
  <2>p. PICK i \in Iters, inline \in BOOLEAN : Unlink(i, inline)
    BY <1>5
  <2>1. /\ M_node[i] \in Nodes /\ pc[i] = "preparing" /\ phase[M_node[i]] = "bypassed"
        /\ \A m \in Places : m # M_node[i] => phase'[m] = phase[m]
        /\ phase'[M_node[i]] \in {"unlinked", "captured"}
        /\ M_node' = M_node /\ DOMAIN pc' = Iters
        /\ \A j \in Iters : j # i => pc'[j] = pc[j]
        /\ pc'[i] \in {"prepared", "stale"}
    BY <2>p, <1>f DEF Unlink, Aux, IInv, Shape, IterShape
  <2>2. At[i] = M_node[i]
    BY <2>1 DEF At
  <2>3. /\ At[i] \in Members /\ Members' = Members \ {At[i]}
        /\ Removed' = Removed \cup {At[i]} /\ Gone' = Gone
    BY <2>1, <2>2 DEF Members, Removed, Gone, InList, Destroyed
  <2>4. At' = At \/ At' = [At EXCEPT ![i] = Null]
    <3>1. CASE pc'[i] = "prepared"
      BY <3>1, <2>1 DEF At
    <3>2. CASE pc'[i] = "stale"
      BY <3>2, <2>1 DEF At
    <3>q. QED BY <3>1, <3>2, <2>1
  <2>q. QED BY <2>3, <2>4, MapRemove
<1>6. CASE \E i \in Iters : Spawn(i)
  <2>p. PICK i \in Iters : Spawn(i)
    BY <1>6
  <2>1. M_node[i] \in Nodes /\ phase[M_node[i]] = "unlinked"
    BY <2>p DEF Spawn, Aux, IInv, Shape, IterShape, WriterInv, PhaseOfIter
  <2>2. \A m \in Places : phase'[m] = IF m = M_node[i] THEN "captured" ELSE phase[m]
    BY <2>p, <1>f DEF Spawn
  <2>3. MapSame
    BY <2>1, <2>2 DEF MapSame, Members, Removed, Gone, InList, Destroyed
  <2>4. At' = At
    BY <2>p, <1>f DEF Spawn, At
  <2>q. QED BY <2>3, <2>4, MapStutter
<1>q. QED BY <1>1, <1>2, <1>3, <1>4, <1>5, <1>6 DEF WriterStep

LEMMA RefineEraserStep ==
  ASSUME Aux, NEW k \in Nodes, EraserStep(k) \/ SpuriousWakeup(k)
  PROVE  [Contract!Next]_(Contract!vars)
<1> USE PlacesFacts
<1>f. phase \in [Places -> Phases]
  BY DEF Aux, IInv, Shape, TypeOK
<1>1. At' = At
  BY DEF EraserStep, SpuriousWakeup, EraseFini, WaitForUsage, Destroy, ReleaseNext, ReleasePrev,
         ReleaseNeighbour, StalePos, iterVars, At
<1>2. CASE Destroy(k)
  <2>1. phase[k] = "waiting" /\ \A m \in Places : phase'[m] = IF m = k THEN "freed" ELSE phase[m]
    BY <1>2, <1>f DEF Destroy
  <2>2. /\ k \in Removed /\ Removed' = Removed \ {k} /\ Gone' = Gone \cup {k}
        /\ Members' = Members
    BY <2>1 DEF Members, Removed, Gone, InList, Destroyed
  <2>3. \A i \in Iters : M_node[i] = k => pc[i] = "stale"
    BY <1>2, NobodyAtDestruction DEF Aux, IInv
  <2>4. \A i \in Iters : At[i] # k
    BY <2>3 DEF At
  <2>q. QED BY <1>1, <2>2, <2>4, MapDestroy
<1>3. CASE (EraserStep(k) /\ ~Destroy(k)) \/ SpuriousWakeup(k)
  <2>1. \/ phase' = phase
        \/ /\ \A m \in Places : m # k => phase'[m] = phase[m]
           /\ \/ phase[k] = "captured" /\ phase'[k] = "waiting"
              \/ Destroyed(k) /\ phase'[k] \in {"nextReleased", "prevReleased", "done"}
    BY <1>3, <1>f DEF EraserStep, SpuriousWakeup, EraseFini, WaitForUsage, ReleaseNext,
                      ReleasePrev, ReleaseNeighbour, StalePos, nodeVars, Destroyed
  <2>2. MapSame
    BY <2>1 DEF MapSame, Members, Removed, Gone, InList, Destroyed
  <2>q. QED BY <1>1, <2>2, MapStutter
<1>q. QED BY <1>2, <1>3

LEMMA RefineInit == Init => Contract!Init
BY PlacesFacts DEF Init, Contract!Init, Destroyed

\* The list keeps its contract: for every number of nodes, readers and erasers,
\* elements enter and leave once, a removed one lives as long as an iterator
\* stands on it, and no iterator moves onto destroyed data (xlist.hpp 253-342,
\* 764-899, against its class comment, 677-700).
THEOREM ListImplementsContract == Spec => ImplementsContract
<1>1. Aux /\ [Next]_vars => [Contract!Next]_(Contract!vars)
  <2> SUFFICES ASSUME Aux, [Next]_vars
               PROVE  [Contract!Next]_(Contract!vars)
    OBVIOUS
  <2>1. CASE UNCHANGED vars
    <3>1. MapSame /\ At' = At
      BY <2>1 DEF vars, MapSame, Members, Removed, Gone, At, InList, Destroyed
    <3>q. QED BY <3>1, MapStutter
  <2>q. QED BY <2>1, RefineIterStep, RefineWriterStep, RefineEraserStep DEF Next
<1>2. Spec => []Aux
  <2>1. IInv /\ Unseen /\ [Next]_vars => Unseen'
    BY UnseenStep DEF IInv
  <2>q. QED BY <2>1, UnseenInit, Invariance, PTL DEF Spec, Aux
<1>q. QED BY <1>1, <1>2, RefineInit, PTL DEF Spec, ImplementsContract, Contract!Spec
=============================================================================
