-------------------------- MODULE XObjectListProofs --------------------------
(***************************************************************************)
(* What holds of XObjectList for every number of threads, objects, keys    *)
(* and calls.  The inductive invariant says where a thread may be (Places, *)
(* Apart) and who owns the status of an object (Owned); while nobody calls *)
(* add(), also who may remove an object (Removal).                         *)
(***************************************************************************)
EXTENDS XObjectList, FiniteSetTheorems, WellFoundedInduction, TLAPS

Verifying == {"dup", "verify", "compare"}

\* The operations that come to a place.
OpsAt == [idle    |-> OnNew \union OnKey \union OnAll,
          dup     |-> OnNew \union {"mod", "reload"},
          verify  |-> OnNew \union {"mod", "reload"},
          compare |-> OnNew \union {"mod", "reload"},
          append  |-> OnNew,
          iter    |-> {"add", "addLoaded", "addAll"},
          enter   |-> {"add", "addLoaded", "addAll", "del", "delAll"},
          prepare |-> {"mod", "reload"},
          operate |-> (OnNew \union OnKey \union OnAll) \ {"load"},
          cleanup |-> {"add"},
          remove  |-> {"add", "del", "delAll"}]

Busy == {"dup", "verify", "compare", "append", "iter", "enter", "prepare", "operate", "cleanup", "remove"}

\* A call whose new object is not in the list yet.
Entering(r) == r.pc \in Verifying \union {"append"} /\ r.op \in OnNew

\* What the place of a thread says of its object, with L in the list.
Place(r, L) ==
  /\ r.op \in OpsAt[r.pc]
  /\ r.pc = "idle" <=> r.obj = None
  /\ r.pc = "compare" => r.cur # None
  /\ r.pc # "idle" /\ ~Entering(r) => r.obj \in L
  /\ Entering(r) => r.obj \notin L

Places == \A t \in Threads : Place(th[t], ToSet(loaded))

\* Nobody else has the object of a call that is about to enter it.
Apart == \A t, u \in Threads : t # u /\ Entering(th[t]) => th[u].obj # th[t].obj

\* The thread an operation on o belongs to.
Doing(t, o) == \/ At(t, "operate") /\ th[t].obj = o
               \/ At(t, "compare") /\ th[t].cur = o

\* A status is what its owner set it to, and the one before stands for no
\* operation.
Owned ==
  /\ \A t \in Threads : At(t, "operate") => xoStatus[th[t].obj] = Asks[th[t].op]
  /\ \A t \in Threads : At(t, "compare") => xoStatus[th[t].cur] = "QUERYING"
  /\ \A o \in Objects : \A t, u \in Threads : Doing(t, o) /\ Doing(u, o) => t = u
  /\ \A o \in Objects : xoStatus[o] \in Operation =>
       xoStatus_prev[o] \in Base /\ \E t \in Threads : Doing(t, o)

IInv == TypeOK /\ Places /\ Apart /\ FoundIsListed /\ OneEraser /\ Owned

\* The thread that removes an object of the list, when objects are removed
\* by those who deleted them only.
Removal ==
  /\ \A t \in Threads : th[t].op # "add"
  /\ \A t \in Threads : At(t, "remove") => th[t].obj \notin erased /\ xoStatus[th[t].obj] = "DELETED"
  /\ \A t, u \in Threads : At(t, "remove") /\ At(u, "remove") /\ th[t].obj = th[u].obj => t = u
  /\ \A o \in erased : xoStatus[o] = "DELETED"

LInv == IInv /\ Removal /\ ListedIsFound

-----------------------------------------------------------------------------
(* The list and its order.                                                  *)

LEMMA CallSets ==
  /\ OnNew = {"load", "add"} /\ OnKey = {"addLoaded", "del", "mod", "reload"} /\ OnAll = {"addAll", "delAll"}
  /\ Calls \subseteq OnNew \union OnKey \union OnAll
BY ListAssumption DEF OnNew, OnKey, OnAll

LEMMA LeastIndex ==
  ASSUME NEW S \in SUBSET Nat, S # {}
  PROVE  Min(S) \in S
<1>1. PICK i \in S : \A j \in S : ~(<<j, i>> \in OpToRel(<, Nat))
  BY NatLessThanWellFounded, WFMin
<1>2. \A j \in S : i <= j
  <2> SUFFICES ASSUME NEW j \in S, j < i PROVE FALSE
    OBVIOUS
  <2>1. <<j, i>> \in OpToRel(<, Nat)
    BY DEF OpToRel
  <2> QED BY <1>1, <2>1
<1> QED BY <1>2 DEF Min

\* The walk comes to objects of the list only.
LEMMA NextInList ==
  ASSUME loaded \in Seq(Objects), NEW o
  PROVE  After(o) \in ToSet(loaded) \union {None}
<1> DEFINE here == {i \in DOMAIN loaded : loaded[i] = o}
           rest == {i \in DOMAIN loaded : loaded[i] \notin erased /\ \A j \in here : j < i}
<1>1. DOMAIN loaded \subseteq Nat
  OBVIOUS
<1>2. CASE rest = {}
  BY <1>2 DEF After
<1>3. CASE rest # {}
  <2>1. rest \in SUBSET Nat
    BY <1>1
  <2>2. Min(rest) \in rest
    BY <1>3, <2>1, LeastIndex
  <2>3. After(o) = loaded[Min(rest)]
    BY <1>3 DEF After
  <2> QED BY <2>2, <2>3 DEF ToSet
<1> QED BY <1>2, <1>3

LEMMA ListTypes ==
  ASSUME TypeOK
  PROVE  /\ ToSet(loaded) \subseteq Objects /\ None \notin Objects /\ None \notin Threads
         /\ \A o : After(o) \in ToSet(loaded) \union {None}
BY NextInList, ListAssumption DEF TypeOK, ToSet

LEMMA Appended ==
  ASSUME loaded \in Seq(Objects), NEW o \in Objects, loaded' = Append(loaded, o)
  PROVE  loaded' \in Seq(Objects) /\ ToSet(loaded') = ToSet(loaded) \union {o}
<1>1. /\ loaded' \in Seq(Objects) /\ DOMAIN loaded' = DOMAIN loaded \union {Len(loaded) + 1}
      /\ \A i \in DOMAIN loaded : loaded'[i] = loaded[i]
      /\ loaded'[Len(loaded) + 1] = o
  OBVIOUS
<1> QED BY <1>1 DEF ToSet

-----------------------------------------------------------------------------
(* Where the threads are.  One lemma for every step of a thread: r is what  *)
(* it does next, and it may have put its object into the list.              *)

LEMMA ThreadType ==
  ASSUME TypeOK, NEW t \in Threads
  PROVE  th[t] \in Thread /\ th \in [Threads -> Thread]
BY DEF TypeOK

\* The other threads stay where they are.
Elsewhere(t) == \A u \in Threads : u # t => th'[u] = th[u]

LEMMA Moves ==
  ASSUME TypeOK, Places, Apart, NEW t \in Threads, NEW r \in Thread,
         th' = [th EXCEPT ![t] = r],
         ToSet(loaded) \subseteq ToSet(loaded'),
         ToSet(loaded') \subseteq ToSet(loaded) \union {th[t].obj},
         loaded' # loaded => Entering(th[t]),
         Place(r, ToSet(loaded')),
         r.obj \in ToSet(loaded) \union {None} \/ (\A u \in Threads \ {t} : th[u].obj # r.obj),
         Entering(r) => \A u \in Threads \ {t} : th[u].obj # r.obj
  PROVE  th' \in [Threads -> Thread] /\ Places' /\ Apart' /\ Elsewhere(t)
<1>1. th' \in [Threads -> Thread] /\ th'[t] = r /\ \A u \in Threads : u # t => th'[u] = th[u]
  BY ThreadType
<1>2. ASSUME NEW u \in Threads PROVE Place(th'[u], ToSet(loaded'))
  <2>1. CASE u = t
    BY <1>1, <2>1
  <2>2. CASE u # t
    <3>1. th'[u] = th[u] /\ Place(th[u], ToSet(loaded))
      BY <1>1, <2>2 DEF Places
    <3>2. CASE loaded' = loaded
      BY <3>1, <3>2
    <3>3. CASE loaded' # loaded
      <4>1. th[u].obj # th[t].obj
        BY <2>2, <3>3 DEF Apart
      <4> QED BY <3>1, <4>1 DEF Place
    <3> QED BY <3>2, <3>3
  <2> QED BY <2>1, <2>2
<1>3. ASSUME NEW u \in Threads, NEW v \in Threads, u # v, Entering(th'[u]) PROVE th'[v].obj # th'[u].obj
  <2>1. CASE u = t
    BY <1>1, <1>3, <2>1
  <2>2. CASE v = t
    <3>1. th'[u] = th[u] /\ th'[v] = r /\ th[u] \in Thread
      BY <1>1, <1>3, <2>2, ThreadType
    <3>2. th[u].obj \notin ToSet(loaded) /\ th[u].obj # None
      <4>1. Place(th[u], ToSet(loaded)) /\ Entering(th[u])
        BY <1>3, <3>1 DEF Places
      <4> QED BY <4>1 DEF Place, Entering, Verifying
    <3> QED BY <1>3, <2>2, <3>1, <3>2
  <2>3. CASE u # t /\ v # t
    BY <1>1, <1>3, <2>3 DEF Apart
  <2> QED BY <2>1, <2>2, <2>3
<1> QED BY <1>1, <1>2, <1>3 DEF Places, Apart, Elsewhere

\* A step that stays with its object and its list.
LEMMA GoesOn ==
  ASSUME TypeOK, Places, Apart, NEW t \in Threads, NEW pc, NEW cur \in Objects \union {None},
         th' = [th EXCEPT ![t] = [th[t] EXCEPT !.pc = pc, !.cur = cur]], loaded' = loaded,
         pc \in Busy, th[t].pc # "idle", th[t].op \in OpsAt[pc],
         pc = "compare" => cur # None,
         th[t].op \in OnNew => (pc \in Verifying \union {"append"} <=> th[t].pc \in Verifying \union {"append"})
  PROVE  /\ th' \in [Threads -> Thread] /\ Places' /\ Apart' /\ Elsewhere(t)
         /\ th'[t].pc = pc /\ th'[t].op = th[t].op /\ th'[t].obj = th[t].obj /\ th'[t].cur = cur
<1> DEFINE r == [th[t] EXCEPT !.pc = pc, !.cur = cur]
<1>1. th[t] \in Thread /\ pc \in {"idle", "dup", "verify", "compare", "append", "iter", "enter", "prepare",
                                  "operate", "cleanup", "remove"}
  BY ThreadType DEF Busy
<1>2. r \in Thread /\ r.pc = pc /\ r.cur = cur /\ r.op = th[t].op /\ r.obj = th[t].obj
  BY <1>1 DEF Thread
<1>3. Entering(r) <=> Entering(th[t])
  BY <1>2 DEF Entering
<1>4. Place(th[t], ToSet(loaded))
  BY DEF Places
<1>5. Place(r, ToSet(loaded'))
  BY <1>2, <1>3, <1>4 DEF Place, Busy
<1>6. th[t].obj \in ToSet(loaded) \/ Entering(th[t])
  BY <1>4 DEF Place
<1>7. th'[t] = r
  BY <1>1, ThreadType
<1> HIDE DEF r
<1>8. th' = [th EXCEPT ![t] = r]
  BY DEF r
<1>9. Entering(th[t]) => \A u \in Threads \ {t} : th[u].obj # r.obj
  BY <1>2 DEF Apart
<1>10. th' \in [Threads -> Thread] /\ Places' /\ Apart' /\ Elsewhere(t)
  BY <1>2, <1>3, <1>5, <1>6, <1>8, <1>9, Moves
<1> QED BY <1>2, <1>7, <1>10

\* What Return leads to.
LEMMA Returned ==
  ASSUME TypeOK, Places, Apart, NEW t \in Threads, Return(t), loaded' = loaded, th[t].pc # "idle"
  PROVE  /\ th' \in [Threads -> Thread] /\ Places' /\ Apart' /\ Elsewhere(t)
         /\ th'[t].pc \in {"idle", "iter", "enter"} /\ th'[t].op = th[t].op
<1> DEFINE next == After(th[t].obj)
           more == th[t].op \in OnAll /\ next # None
           pc == IF ~more THEN "idle" ELSE IF th[t].op = "addAll" THEN "iter" ELSE "enter"
           obj == IF more THEN next ELSE None
           r == [th[t] EXCEPT !.pc = pc, !.obj = obj, !.cur = None]
<1>1. th[t] \in Thread /\ next \in ToSet(loaded) \union {None} /\ ToSet(loaded) \subseteq Objects /\ None \notin Objects
  BY ThreadType, ListTypes
<1>2. r \in Thread /\ r.pc = pc /\ r.cur = None /\ r.op = th[t].op /\ r.obj = obj
  BY <1>1 DEF Thread
<1>3. th' = [th EXCEPT ![t] = r]
  BY <1>1, ThreadType DEF Return
<1>4. Place(r, ToSet(loaded')) /\ ~Entering(r)
  BY <1>1, <1>2, CallSets DEF Place, Entering, OpsAt, Verifying, Thread
<1>5. r.obj \in ToSet(loaded) \union {None}
  BY <1>1, <1>2
<1>6. th'[t] = r
  BY <1>3, ThreadType
<1>7. pc \in {"idle", "iter", "enter"}
  OBVIOUS
<1> HIDE DEF r, pc
<1>8. th' \in [Threads -> Thread] /\ Places' /\ Apart' /\ Elsewhere(t)
  BY <1>2, <1>3, <1>4, <1>5, Moves
<1> QED BY <1>2, <1>6, <1>7, <1>8

-----------------------------------------------------------------------------
(* Who owns the statuses.                                                   *)

LEMMA StatusSets ==
  /\ Status = Base \union Operation /\ Base \cap Operation = {}
  /\ Base = {"LOADED", "NORMAL", "DELETED"} /\ "QUERYING" \in Operation
  /\ \A op \in (OnNew \union OnKey \union OnAll) \ {"load"} : Asks[op] \in Operation \ {"QUERYING", "PRINTING"}
BY CallSets DEF Status, Base, Operation, Asks

\* Only an object that is at rest grants an operation.
LEMMA GrantedAtRest ==
  ASSUME NEW from \in Status, NEW to \in Operation, canTransit(from, to) = "DIRECT"
  PROVE  from \in {"LOADED", "NORMAL", "DELETED"} /\ (from = "DELETED" => to = "PRINTING")
<1>1. to \in Direct[from]
  BY DEF canTransit
<1> QED BY <1>1 DEF Direct, Status, Base, Operation

\* A deleted object stays deleted.
Lasting == \A o \in Objects : xoStatus[o] = "DELETED" => xoStatus'[o] = "DELETED"

AtRest(r) == r.pc \notin {"operate", "compare"}

LEMMA Quiet ==
  ASSUME Owned, UNCHANGED Statuses, NEW t \in Threads, Elsewhere(t), AtRest(th[t]), AtRest(th'[t])
  PROVE  Owned'
<1>1. \A u \in Threads : u = t \/ th'[u] = th[u]
  BY DEF Elsewhere
<1>2. \A u \in Threads, o \in Objects : Doing(u, o)' <=> Doing(u, o)
  BY <1>1 DEF Doing, At, AtRest
<1>3. \A u \in Threads : At(u, "operate") \/ At(u, "operate")' => u # t
  BY DEF At, AtRest
<1>4. \A u \in Threads : At(u, "compare") \/ At(u, "compare")' => u # t
  BY DEF At, AtRest
<1>5. xoStatus' = xoStatus /\ xoStatus_prev' = xoStatus_prev
  BY DEF Statuses
<1>6. \A u \in Threads : At(u, "operate")' => xoStatus'[th'[u].obj] = Asks[th'[u].op]
  BY <1>1, <1>3, <1>5 DEF Owned, At
<1>7. \A u \in Threads : At(u, "compare")' => xoStatus'[th'[u].cur] = "QUERYING"
  BY <1>1, <1>4, <1>5 DEF Owned, At
<1> QED BY <1>2, <1>5, <1>6, <1>7 DEF Owned

\* What t is to do with o, if anything, and under which status.
Owns(t, o, s) == \/ At(t, "operate") /\ th[t].obj = o /\ s = Asks[th[t].op]
                 \/ At(t, "compare") /\ th[t].cur = o /\ s = "QUERYING"

LEMMA DoingStatus ==
  ASSUME TypeOK, Places, Owned, NEW u \in Threads, NEW o, Doing(u, o)
  PROVE  /\ xoStatus[o] \in Operation
         /\ th[u].pc = "operate" => xoStatus[o] = Asks[th[u].op] /\ th[u].obj = o
         /\ th[u].pc = "compare" => xoStatus[o] = "QUERYING" /\ th[u].cur = o
         /\ th[u].pc \in {"operate", "compare"}
<1>1. CASE At(u, "operate") /\ th[u].obj = o
  <2>1. th[u].op \in (OnNew \union OnKey \union OnAll) \ {"load"}
    BY <1>1 DEF Places, Place, OpsAt, At
  <2>2. xoStatus[o] = Asks[th[u].op]
    BY <1>1 DEF Owned
  <2> QED BY <1>1, <2>1, <2>2, StatusSets DEF At
<1>2. CASE At(u, "compare") /\ th[u].cur = o
  <2>1. xoStatus[o] = "QUERYING"
    BY <1>2 DEF Owned
  <2> QED BY <1>2, <2>1, StatusSets DEF At
<1> QED BY <1>1, <1>2 DEF Doing

\* t begins an operation on o.
LEMMA Grants ==
  ASSUME TypeOK, Places, Owned, NEW t \in Threads, NEW o \in Objects, NEW s \in Operation \ {"PRINTING"},
         canTransit(xoStatus[o], s) = "DIRECT", setStatus(o, s),
         Elsewhere(t), AtRest(th[t]), Owns(t, o, s)'
  PROVE  /\ xoStatus' \in [Objects -> Status] /\ xoStatus_prev' \in [Objects -> Status]
         /\ Owned' /\ Lasting
<1>1. xoStatus[o] \in Status /\ xoStatus[o] \in Base \ {"DELETED"}
  BY GrantedAtRest, StatusSets DEF TypeOK
<1>2. /\ xoStatus' \in [Objects -> Status] /\ xoStatus'[o] = s
      /\ xoStatus_prev' \in [Objects -> Status] /\ xoStatus_prev'[o] = xoStatus[o]
      /\ \A p \in Objects : p # o => xoStatus'[p] = xoStatus[p] /\ xoStatus_prev'[p] = xoStatus_prev[p]
  BY <1>1, StatusSets DEF setStatus, TypeOK
<1>3. \A u \in Threads : ~Doing(u, o)
  BY <1>1, DoingStatus, StatusSets
<1>4. \A u \in Threads, p \in Objects : u # t => (Doing(u, p)' <=> Doing(u, p))
  BY DEF Elsewhere, Doing, At
<1>5. \A p \in Objects : Doing(t, p)' <=> p = o
  BY DEF Owns, Doing, At
<1>6. \A p \in Objects : ~Doing(t, p)
  BY DEF Doing, At, AtRest
<1>7. \A p \in Objects : \A u, v \in Threads : Doing(u, p)' /\ Doing(v, p)' => u = v
  <2> SUFFICES ASSUME NEW p \in Objects, NEW u \in Threads, NEW v \in Threads, Doing(u, p)', Doing(v, p)'
               PROVE u = v
    OBVIOUS
  <2>1. CASE p = o
    BY <1>3, <1>4, <2>1
  <2>2. CASE p # o
    BY <1>4, <1>5, <2>2 DEF Owned
  <2> QED BY <2>1, <2>2
<1>8. \A p \in Objects : xoStatus'[p] \in Operation =>
        xoStatus_prev'[p] \in Base /\ \E u \in Threads : Doing(u, p)'
  <2> SUFFICES ASSUME NEW p \in Objects, xoStatus'[p] \in Operation
               PROVE xoStatus_prev'[p] \in Base /\ \E u \in Threads : Doing(u, p)'
    OBVIOUS
  <2>1. CASE p = o
    BY <1>1, <1>2, <1>5, <2>1
  <2>2. CASE p # o
    <3>1. xoStatus_prev[p] \in Base /\ \E u \in Threads : Doing(u, p)
      BY <1>2, <2>2 DEF Owned
    <3> QED BY <1>2, <1>4, <1>6, <2>2, <3>1
  <2> QED BY <2>1, <2>2
<1>9. \A u \in Threads : At(u, "operate")' => xoStatus'[th'[u].obj] = Asks[th'[u].op]
  <2> SUFFICES ASSUME NEW u \in Threads, At(u, "operate")' PROVE xoStatus'[th'[u].obj] = Asks[th'[u].op]
    OBVIOUS
  <2>1. CASE u = t
    BY <1>2, <2>1 DEF Owns, At
  <2>2. CASE u # t
    <3>1. th'[u] = th[u] /\ At(u, "operate") /\ th[u] \in Thread
      BY <2>2, ThreadType DEF Elsewhere, At
    <3>2. th[u].obj \in Objects
      BY <3>1, ListTypes DEF Places, Place, At, Thread
    <3>3. th[u].obj # o
      BY <1>3, <3>1 DEF Doing
    <3> QED BY <1>2, <3>1, <3>2, <3>3 DEF Owned
  <2> QED BY <2>1, <2>2
<1>10. \A u \in Threads : At(u, "compare")' => xoStatus'[th'[u].cur] = "QUERYING"
  <2> SUFFICES ASSUME NEW u \in Threads, At(u, "compare")' PROVE xoStatus'[th'[u].cur] = "QUERYING"
    OBVIOUS
  <2>1. CASE u = t
    BY <1>2, <2>1 DEF Owns, At
  <2>2. CASE u # t
    <3>1. th'[u] = th[u] /\ At(u, "compare") /\ th[u] \in Thread
      BY <2>2, ThreadType DEF Elsewhere, At
    <3>2. th[u].cur \in Objects
      BY <3>1 DEF Places, Place, At, Thread
    <3>3. th[u].cur # o
      BY <1>3, <3>1 DEF Doing
    <3> QED BY <1>2, <3>1, <3>2, <3>3 DEF Owned
  <2> QED BY <2>1, <2>2
<1>11. Lasting
  BY <1>1, <1>2 DEF Lasting
<1> QED BY <1>2, <1>7, <1>8, <1>9, <1>10, <1>11 DEF Owned

\* t ends its operation on o.
LEMMA Ends ==
  ASSUME TypeOK, Places, Owned, NEW t \in Threads, NEW o \in Objects, NEW s \in Base,
         Doing(t, o), setStatus(o, s), Elsewhere(t), AtRest(th'[t])
  PROVE  /\ xoStatus' \in [Objects -> Status] /\ xoStatus_prev' \in [Objects -> Status]
         /\ Owned' /\ Lasting
<1>1. /\ xoStatus' \in [Objects -> Status] /\ xoStatus'[o] = s
      /\ xoStatus_prev' \in [Objects -> Status]
      /\ \A p \in Objects : p # o => xoStatus'[p] = xoStatus[p] /\ xoStatus_prev'[p] = xoStatus_prev[p]
  BY StatusSets DEF setStatus, TypeOK
<1>2. \A u \in Threads, p \in Objects : u # t => (Doing(u, p)' <=> Doing(u, p))
  BY DEF Elsewhere, Doing, At
<1>3. \A p \in Objects : ~Doing(t, p)'
  BY DEF Doing, At, AtRest
<1>4. \A u \in Threads : u # t => ~Doing(u, o)
  BY DEF Owned
<1>5. \A p \in Objects : p # o => ~Doing(t, p)
  BY DEF Doing, At
<1>6. \A p \in Objects : xoStatus'[p] \in Operation =>
        xoStatus_prev'[p] \in Base /\ \E u \in Threads : Doing(u, p)'
  <2> SUFFICES ASSUME NEW p \in Objects, xoStatus'[p] \in Operation
               PROVE xoStatus_prev'[p] \in Base /\ \E u \in Threads : Doing(u, p)'
    OBVIOUS
  <2>1. p # o
    BY <1>1, StatusSets
  <2>2. xoStatus_prev[p] \in Base /\ \E u \in Threads : Doing(u, p)
    BY <1>1, <2>1 DEF Owned
  <2> QED BY <1>1, <1>2, <1>5, <2>1, <2>2
<1>7. \A u \in Threads : At(u, "operate")' => xoStatus'[th'[u].obj] = Asks[th'[u].op]
  <2> SUFFICES ASSUME NEW u \in Threads, At(u, "operate")' PROVE xoStatus'[th'[u].obj] = Asks[th'[u].op]
    OBVIOUS
  <2>1. u # t /\ th'[u] = th[u] /\ At(u, "operate") /\ th[u] \in Thread
    BY ThreadType DEF Elsewhere, At, AtRest
  <2>2. th[u].obj \in Objects
    BY <2>1, ListTypes DEF Places, Place, At, Thread
  <2>3. th[u].obj # o
    BY <1>4, <2>1 DEF Doing
  <2> QED BY <1>1, <2>1, <2>2, <2>3 DEF Owned
<1>8. \A u \in Threads : At(u, "compare")' => xoStatus'[th'[u].cur] = "QUERYING"
  <2> SUFFICES ASSUME NEW u \in Threads, At(u, "compare")' PROVE xoStatus'[th'[u].cur] = "QUERYING"
    OBVIOUS
  <2>1. u # t /\ th'[u] = th[u] /\ At(u, "compare") /\ th[u] \in Thread
    BY ThreadType DEF Elsewhere, At, AtRest
  <2>2. th[u].cur \in Objects
    BY <2>1 DEF Places, Place, At, Thread
  <2>3. th[u].cur # o
    BY <1>4, <2>1 DEF Doing
  <2> QED BY <1>1, <2>1, <2>2, <2>3 DEF Owned
<1>9. \A p \in Objects : \A u, v \in Threads : Doing(u, p)' /\ Doing(v, p)' => u = v
  BY <1>2, <1>3 DEF Owned
<1>10. Lasting
  <2>1. xoStatus[o] # "DELETED"
    BY DoingStatus, StatusSets
  <2> QED BY <1>1, <2>1 DEF Lasting
<1> QED BY <1>1, <1>6, <1>7, <1>8, <1>9, <1>10 DEF Owned

-----------------------------------------------------------------------------
(* Steps that neither bring an object into the list nor remove one.         *)

Peaceful(t) ==
  /\ UNCHANGED Lists /\ Elsewhere(t) /\ Lasting
  /\ th'[t].pc # "remove" /\ th'[t].op \in {th[t].op} \union Calls

LEMMA ListKept ==
  ASSUME IInv, UNCHANGED Lists, xoStatus' \in [Objects -> Status], xoStatus_prev' \in [Objects -> Status],
         thisIter' \subseteq Objects, dup_lock' \in Threads \union {None}, th' \in [Threads -> Thread],
         Places', Apart', Owned'
  PROVE  IInv'
BY DEF IInv, TypeOK, Lists, FoundIsListed, OneEraser, Chained, ToSet

LEMMA GivenBack ==
  ASSUME TypeOK, NEW t \in Threads, Give(t)
  PROVE  dup_lock' \in Threads \union {None}
BY DEF TypeOK, Give

\* Goto, in the form of GoesOn.
LEMMA Gone ==
  ASSUME TypeOK, NEW t \in Threads, NEW pc, Goto(t, pc)
  PROVE  th' = [th EXCEPT ![t] = [th[t] EXCEPT !.pc = pc, !.cur = th[t].cur]] /\ th[t].cur \in Objects \union {None}
<1>1. th[t] \in Thread
  BY ThreadType
<1>2. [th[t] EXCEPT !.pc = pc, !.cur = th[t].cur] = [th[t] EXCEPT !.pc = pc]
  BY <1>1 DEF Thread
<1> QED BY <1>1, <1>2 DEF Goto, Thread

LEMMA GoesTo ==
  ASSUME TypeOK, Places, Apart, NEW t \in Threads, NEW pc, Goto(t, pc), UNCHANGED Lists,
         pc \in Busy \ {"compare"}, th[t].pc # "idle", th[t].op \in OpsAt[pc],
         th[t].op \in OnNew => (pc \in Verifying \union {"append"} <=> th[t].pc \in Verifying \union {"append"})
  PROVE  /\ th' \in [Threads -> Thread] /\ Places' /\ Apart' /\ Elsewhere(t)
         /\ th'[t].pc = pc /\ th'[t].op = th[t].op /\ th'[t].obj = th[t].obj
<1> DEFINE cur == th[t].cur
<1>1. th' = [th EXCEPT ![t] = [th[t] EXCEPT !.pc = pc, !.cur = cur]] /\ cur \in Objects \union {None}
      /\ pc # "compare" /\ pc \in Busy /\ loaded' = loaded
  BY Gone DEF Lists
<1> HIDE DEF cur
<1> QED BY <1>1, GoesOn

LEMMA BeginInv ==
  ASSUME IInv, NEW t \in Threads, NEW op, NEW o \in Objects, NEW pc,
         Begin(t, op, o, pc), pc \in {"dup", "iter", "enter"}, op \in OpsAt[pc],
         \/ op \in OnNew /\ pc = "dup" /\ Unused(o)
         \/ op \notin OnNew /\ o \in ToSet(loaded)
  PROVE  IInv' /\ Peaceful(t)
<1> DEFINE r == [pc |-> pc, op |-> op, obj |-> o, cur |-> None, left |-> th[t].left - 1]
<1>1. TypeOK /\ Places /\ Apart /\ Owned /\ th[t] \in Thread /\ th[t].pc = "idle" /\ op \in Calls
      /\ UNCHANGED <<Statuses, thisIter, Lists, dup_lock>> /\ th[t].left > 0
  BY ThreadType DEF IInv, Begin, At
<1>2. th' = [th EXCEPT ![t] = r]
  BY DEF Begin
<1>3. th[t].left - 1 \in 0..MaxOps
  BY <1>1, ListAssumption DEF Thread
<1>4. r \in Thread
  BY <1>1, <1>3, CallSets DEF Thread
<1>5. r.pc = pc /\ r.op = op /\ r.obj = o /\ r.cur = None
  OBVIOUS
<1>6. loaded' = loaded
  BY <1>1 DEF Lists
<1>7. Place(r, ToSet(loaded')) /\ (o \in ToSet(loaded) \/ \A u \in Threads \ {t} : th[u].obj # o)
      /\ (Entering(r) => \A u \in Threads \ {t} : th[u].obj # o)
  BY <1>1, <1>5, <1>6, ListTypes DEF Place, Entering, Verifying, Unused
<1>8. th'[t] = r
  BY <1>1, <1>2, ThreadType
<1> HIDE DEF r
<1>9. th' \in [Threads -> Thread] /\ Places' /\ Apart' /\ Elsewhere(t)
  BY <1>1, <1>2, <1>4, <1>5, <1>6, <1>7, Moves
<1>10. Owned'
  BY <1>1, <1>5, <1>8, <1>9, Quiet DEF AtRest
<1> QED BY <1>1, <1>5, <1>8, <1>9, <1>10, ListKept DEF Peaceful, Lasting, TypeOK, Statuses

LEMMA FoundInList ==
  ASSUME IInv, NEW k \in Keys, smap[k] # None
  PROVE  smap[k] \in Objects /\ smap[k] \in ToSet(loaded)
BY DEF IInv, FoundIsListed, Chained, TypeOK

LEMMA CallInv ==
  ASSUME IInv, NEW t \in Threads,
         \/ \E op \in OnNew, o \in Objects : CallNew(t, op, o)
         \/ \E op \in OnKey, k \in Keys : CallKey(t, op, k)
         \/ \E op \in OnAll : CallAll(t, op)
  PROVE  IInv' /\ Peaceful(t)
<1>1. ASSUME NEW op \in OnNew, NEW o \in Objects, CallNew(t, op, o)
      PROVE  IInv' /\ Peaceful(t)
  BY <1>1, BeginInv, CallSets DEF CallNew, OpsAt
<1>2. ASSUME NEW op \in OnKey, NEW k \in Keys, CallKey(t, op, k)
      PROVE  IInv' /\ Peaceful(t)
  <2> DEFINE pc == CASE op = "addLoaded" -> "iter" [] op = "del" -> "enter" [] OTHER -> "dup"
  <2>1. pc \in {"dup", "iter", "enter"} /\ op \in OpsAt[pc] /\ op \notin OnNew
    BY CallSets DEF OpsAt
  <2>2. Begin(t, op, smap[k], pc) /\ smap[k] # None
    BY <1>2 DEF CallKey
  <2> HIDE DEF pc
  <2> QED BY <2>1, <2>2, FoundInList, BeginInv
<1>3. ASSUME NEW op \in OnAll, CallAll(t, op)
      PROVE  IInv' /\ Peaceful(t)
  <2> DEFINE pc == IF op = "addAll" THEN "iter" ELSE "enter"
  <2>1. pc \in {"dup", "iter", "enter"} /\ op \in OpsAt[pc] /\ op \notin OnNew
    BY CallSets DEF OpsAt
  <2>2. Begin(t, op, After(None), pc) /\ After(None) # None
    BY <1>3 DEF CallAll
  <2>3. After(None) \in Objects /\ After(None) \in ToSet(loaded)
    BY <2>2, ListTypes DEF IInv
  <2> HIDE DEF pc
  <2> QED BY <2>1, <2>2, <2>3, BeginInv
<1> QED BY <1>1, <1>2, <1>3

LEMMA LockDupInv ==
  ASSUME IInv, NEW t \in Threads, LockDup(t)
  PROVE  IInv' /\ Peaceful(t)
<1>1. TypeOK /\ Places /\ Apart /\ Owned /\ th[t].pc = "dup" /\ Goto(t, "verify") /\ dup_lock' = t
      /\ UNCHANGED <<Statuses, thisIter, Lists>>
  BY DEF IInv, LockDup, At
<1>2. th[t].op \in OpsAt["verify"]
  BY <1>1 DEF Places, Place, OpsAt
<1>3. th' \in [Threads -> Thread] /\ Places' /\ Apart' /\ Elsewhere(t) /\ th'[t].pc = "verify" /\ th'[t].op = th[t].op
  BY <1>1, <1>2, GoesTo DEF Verifying, Busy, Lists
<1>4. Owned'
  BY <1>1, <1>3, Quiet DEF AtRest
<1> QED BY <1>1, <1>3, <1>4, ListKept DEF Peaceful, Lasting, TypeOK, Statuses

\* The object the check comes to is one of the list.
LEMMA CandidateType ==
  ASSUME TypeOK, NEW t \in Threads
  PROVE  Candidate(t) \in ToSet(loaded) \union {None} /\ Candidate(t) \in Objects \union {None}
BY ListTypes DEF Candidate

LEMMA VisitInv ==
  ASSUME IInv, NEW t \in Threads, Visit(t)
  PROVE  IInv' /\ Peaceful(t)
<1> PICK o : o = Candidate(t)
  OBVIOUS
<1>1. TypeOK /\ Places /\ Apart /\ Owned /\ th[t].pc = "verify" /\ th[t] \in Thread /\ o \in Objects /\ o # None
      /\ UNCHANGED <<thisIter, Lists, dup_lock>>
  BY CandidateType, ThreadType DEF IInv, Visit, At
<1>2. th[t].op \in OpsAt["verify"] /\ th[t].op \in OpsAt["compare"]
  BY <1>1 DEF Places, Place, OpsAt
<1>3. o \in Objects \union {None} /\ loaded' = loaded /\ "compare" \in Busy /\ "verify" \in Busy
      /\ "compare" \in Verifying /\ "verify" \in Verifying /\ th[t].pc # "idle"
      /\ th[t].pc \in Verifying \union {"append"}
  BY <1>1 DEF Busy, Verifying, Lists
<1>4. CASE canTransit(xoStatus[o], "QUERYING") = "DIRECT" /\ setStatus(o, "QUERYING")
           /\ th' = [th EXCEPT ![t].pc = "compare", ![t].cur = o]
  <2>1. th' = [th EXCEPT ![t] = [th[t] EXCEPT !.pc = "compare", !.cur = o]]
    BY <1>1, <1>4, ThreadType
  <2>2. th' \in [Threads -> Thread] /\ Places' /\ Apart' /\ Elsewhere(t)
        /\ th'[t].pc = "compare" /\ th'[t].op = th[t].op /\ th'[t].cur = o
    BY <1>1, <1>2, <1>3, <2>1, GoesOn
  <2>3. Owns(t, o, "QUERYING")' /\ AtRest(th[t])
    BY <1>1, <2>2 DEF Owns, At, AtRest
  <2>4. xoStatus' \in [Objects -> Status] /\ xoStatus_prev' \in [Objects -> Status] /\ Owned' /\ Lasting
    BY <1>1, <1>4, <2>2, <2>3, Grants, StatusSets
  <2> QED BY <1>1, <2>2, <2>4, ListKept DEF Peaceful, TypeOK
<1>5. CASE th' = [th EXCEPT ![t].cur = o] /\ UNCHANGED Statuses
  <2>1. th' = [th EXCEPT ![t] = [th[t] EXCEPT !.pc = "verify", !.cur = o]]
    <3>1. [th[t] EXCEPT !.cur = o] = [th[t] EXCEPT !.pc = "verify", !.cur = o]
      BY <1>1 DEF Thread
    <3> QED BY <1>5, <3>1, ThreadType
  <2>2. th' \in [Threads -> Thread] /\ Places' /\ Apart' /\ Elsewhere(t)
        /\ th'[t].pc = "verify" /\ th'[t].op = th[t].op
    BY <1>1, <1>2, <1>3, <2>1, GoesOn
  <2>3. Owned'
    BY <1>1, <1>5, <2>2, Quiet DEF AtRest
  <2> QED BY <1>1, <1>5, <2>2, <2>3, ListKept DEF Peaceful, Lasting, TypeOK, Statuses
<1> QED BY <1>4, <1>5 DEF Visit

\* The status an operation goes back to.
LEMMA PrevAtRest ==
  ASSUME TypeOK, Places, Owned, NEW t \in Threads, NEW o \in Objects, Doing(t, o)
  PROVE  xoStatus_prev[o] \in Base
BY DoingStatus DEF Owned

LEMMA CompareInv ==
  ASSUME IInv, NEW t \in Threads, Compare(t)
  PROVE  IInv' /\ Peaceful(t)
<1> DEFINE o == th[t].cur
<1>1. TypeOK /\ Places /\ Apart /\ Owned /\ th[t].pc = "compare" /\ th[t] \in Thread
      /\ UNCHANGED <<thisIter, Lists>>
  BY ThreadType DEF IInv, Compare, At
<1>2. o \in Objects /\ Doing(t, o) /\ th[t].op \in OpsAt["verify"]
  BY <1>1 DEF Places, Place, OpsAt, Thread, Doing, At
<1>3. setStatus(o, xoStatus_prev[o]) /\ xoStatus_prev[o] \in Base
  BY <1>1, <1>2, PrevAtRest DEF Compare, bkStatus
<1>4. dup_lock' \in Threads \union {None}
  BY <1>1, GivenBack DEF Compare, TypeOK
<1>5. th' \in [Threads -> Thread] /\ Places' /\ Apart' /\ Elsewhere(t)
      /\ th'[t].pc \in {"idle", "iter", "enter", "verify"} /\ th'[t].op = th[t].op
  <2>1. CASE Return(t)
    BY <1>1, <2>1, Returned DEF Lists
  <2>2. CASE Goto(t, "verify")
    BY <1>1, <1>2, <2>2, GoesTo DEF Verifying, Busy, Lists
  <2> QED BY <2>1, <2>2 DEF Compare
<1>6. xoStatus' \in [Objects -> Status] /\ xoStatus_prev' \in [Objects -> Status] /\ Owned' /\ Lasting
  BY <1>1, <1>2, <1>3, <1>5, Ends DEF AtRest
<1> QED BY <1>1, <1>4, <1>5, <1>6, ListKept DEF Peaceful, TypeOK

LEMMA VerifiedInv ==
  ASSUME IInv, NEW t \in Threads, Verified(t)
  PROVE  IInv' /\ Peaceful(t)
<1> DEFINE pc == IF th[t].op \in OnNew THEN "append" ELSE "prepare"
<1>1. TypeOK /\ Places /\ Apart /\ Owned /\ th[t].pc = "verify" /\ th[t] \in Thread
      /\ UNCHANGED <<Statuses, thisIter, Lists, dup_lock>>
      /\ th' = [th EXCEPT ![t].pc = pc, ![t].cur = None]
  BY ThreadType DEF IInv, Verified, At
<1>2. th' = [th EXCEPT ![t] = [th[t] EXCEPT !.pc = pc, !.cur = None]]
  BY <1>1, ThreadType
<1>3. th[t].op \in OpsAt[pc] /\ pc \in {"append", "prepare"} /\ (th[t].op \in OnNew <=> pc = "append")
  BY <1>1 DEF Places, Place, OpsAt
<1> HIDE DEF pc
<1>4. th' \in [Threads -> Thread] /\ Places' /\ Apart' /\ Elsewhere(t) /\ th'[t].pc = pc /\ th'[t].op = th[t].op
  BY <1>1, <1>2, <1>3, GoesOn DEF Verifying, Busy, Lists
<1>5. Owned'
  BY <1>1, <1>3, <1>4, Quiet DEF AtRest
<1> QED BY <1>1, <1>3, <1>4, <1>5, ListKept DEF Peaceful, Lasting, TypeOK, Statuses

LEMMA SetThisIterInv ==
  ASSUME IInv, NEW t \in Threads, SetThisIter(t)
  PROVE  IInv' /\ Peaceful(t)
<1>1. TypeOK /\ Places /\ Apart /\ Owned /\ th[t].pc = "iter" /\ th[t] \in Thread /\ Goto(t, "enter")
      /\ UNCHANGED <<Statuses, Lists, dup_lock>> /\ thisIter' = thisIter \union {th[t].obj}
  BY ThreadType DEF IInv, SetThisIter, At
<1>2. th[t].op \in OpsAt["enter"] /\ th[t].obj \in Objects /\ ~Entering(th[t])
  BY <1>1 DEF Places, Place, OpsAt, Thread, Entering, Verifying
<1>3. th' \in [Threads -> Thread] /\ Places' /\ Apart' /\ Elsewhere(t) /\ th'[t].pc = "enter" /\ th'[t].op = th[t].op
  BY <1>1, <1>2, GoesTo DEF Verifying, Busy, Lists
<1>4. Owned'
  BY <1>1, <1>3, Quiet DEF AtRest
<1> QED BY <1>1, <1>2, <1>3, <1>4, ListKept DEF Peaceful, Lasting, TypeOK, Statuses

LEMMA EnterInv ==
  ASSUME IInv, NEW t \in Threads, Enter(t)
  PROVE  IInv' /\ Peaceful(t)
<1> PICK o, s : o = th[t].obj /\ s = Asks[th[t].op]
  OBVIOUS
<1>1. TypeOK /\ Places /\ Apart /\ Owned /\ th[t].pc \in {"enter", "prepare"} /\ th[t] \in Thread
      /\ UNCHANGED <<thisIter, Lists>> /\ Give(t)
  BY ThreadType DEF IInv, Enter, At
<1>2. th[t].op \in OpsAt["operate"] /\ o \in Objects /\ s \in Operation \ {"PRINTING"}
  <2>1. th[t].op \in (OnNew \union OnKey \union OnAll) \ {"load"} /\ o # None
    BY <1>1, CallSets DEF Places, Place, OpsAt
  <2> QED BY <1>1, <2>1, StatusSets DEF OpsAt, Thread
<1>3. dup_lock' \in Threads \union {None}
  BY <1>1, GivenBack
<1>4. CASE canTransit(xoStatus[o], s) = "DIRECT" /\ setStatus(o, s) /\ Goto(t, "operate")
  <2>1. th' \in [Threads -> Thread] /\ Places' /\ Apart' /\ Elsewhere(t)
        /\ th'[t].pc = "operate" /\ th'[t].op = th[t].op /\ th'[t].obj = o
    BY <1>1, <1>2, <1>4, GoesTo DEF Verifying, Busy, Lists
  <2>2. Owns(t, o, s)' /\ AtRest(th[t])
    BY <1>1, <2>1 DEF Owns, At, AtRest
  <2>3. xoStatus' \in [Objects -> Status] /\ xoStatus_prev' \in [Objects -> Status] /\ Owned' /\ Lasting
    BY <1>1, <1>2, <1>4, <2>1, <2>2, Grants
  <2> QED BY <1>1, <1>3, <2>1, <2>3, ListKept DEF Peaceful, TypeOK
<1>5. CASE UNCHANGED Statuses /\ (Return(t) \/ (th[t].op = "add" /\ Goto(t, "cleanup")))
  <2>1. th' \in [Threads -> Thread] /\ Places' /\ Apart' /\ Elsewhere(t)
        /\ th'[t].pc \in {"idle", "iter", "enter", "cleanup"} /\ th'[t].op = th[t].op
    <3>1. CASE Return(t)
      BY <1>1, <3>1, Returned DEF Lists
    <3>2. CASE th[t].op = "add" /\ Goto(t, "cleanup")
      BY <1>1, <1>2, <3>2, GoesTo, CallSets DEF Verifying, Busy, OpsAt, Lists
    <3> QED BY <1>5, <3>1, <3>2
  <2>2. Owned'
    BY <1>1, <1>5, <2>1, Quiet DEF AtRest
  <2> QED BY <1>1, <1>3, <1>5, <2>1, <2>2, ListKept DEF Peaceful, Lasting, TypeOK, Statuses
<1> QED BY <1>4, <1>5 DEF Enter

\* What a thread that works on its object knows.
LEMMA AtOperate ==
  ASSUME IInv, NEW t \in Threads, th[t].pc = "operate"
  PROVE  /\ th[t].obj \in Objects /\ Doing(t, th[t].obj) /\ xoStatus_prev[th[t].obj] \in Base
         /\ th[t].op # "load" /\ xoStatus[th[t].obj] = Asks[th[t].op] /\ xoStatus[th[t].obj] \in Operation
<1>1. TypeOK /\ Places /\ Owned /\ th[t] \in Thread
  BY ThreadType DEF IInv
<1>2. th[t].obj \in Objects /\ Doing(t, th[t].obj) /\ th[t].op # "load"
  BY <1>1 DEF Places, Place, OpsAt, Thread, Doing, At
<1> QED BY <1>1, <1>2, PrevAtRest, DoingStatus

\* An operation ends, and its call with it.
LEMMA DoneInv ==
  ASSUME IInv, NEW t \in Threads, th[t].pc = "operate", NEW s \in Base, Done(t, s),
         \/ Return(t)
         \/ th[t].op = "add" /\ Goto(t, "cleanup"),
         thisIter' \subseteq Objects
  PROVE  IInv' /\ Peaceful(t)
<1>1. TypeOK /\ Places /\ Apart /\ Owned /\ UNCHANGED <<Lists, dup_lock>> /\ setStatus(th[t].obj, s)
  BY DEF IInv, Done
<1>2. th' \in [Threads -> Thread] /\ Places' /\ Apart' /\ Elsewhere(t)
      /\ th'[t].pc \in {"idle", "iter", "enter", "cleanup"} /\ th'[t].op = th[t].op
  <2>1. CASE Return(t)
    BY <1>1, <2>1, Returned DEF Lists
  <2>2. CASE th[t].op = "add" /\ Goto(t, "cleanup")
    BY <1>1, <2>2, GoesTo, CallSets DEF Verifying, Busy, OpsAt, Lists
  <2> QED BY <2>1, <2>2
<1>3. xoStatus' \in [Objects -> Status] /\ xoStatus_prev' \in [Objects -> Status] /\ Owned' /\ Lasting
  BY <1>1, <1>2, AtOperate, Ends DEF AtRest
<1> QED BY <1>1, <1>2, <1>3, ListKept DEF Peaceful, TypeOK

LEMMA OperationEndsInv ==
  ASSUME IInv, NEW t \in Threads, Added(t) \/ AddFailed(t) \/ Back(t)
  PROVE  IInv' /\ Peaceful(t)
<1>1. th[t].pc = "operate" /\ thisIter \subseteq Objects
  BY DEF Added, AddFailed, Back, Working, At, IInv, TypeOK
<1>2. th[t].obj \in Objects /\ xoStatus_prev[th[t].obj] \in Base
  BY <1>1, AtOperate
<1>3. CASE Added(t)
  BY <1>1, <1>2, <1>3, DoneInv, StatusSets DEF Added
<1>4. CASE AddFailed(t)
  BY <1>1, <1>2, <1>4, DoneInv DEF AddFailed
<1>5. CASE Back(t)
  BY <1>1, <1>2, <1>5, DoneInv DEF Back
<1> QED BY <1>3, <1>4, <1>5

-----------------------------------------------------------------------------
(* Steps that change the list.                                              *)

\* An object that enters the list: its key was free.
Enters(t) ==
  /\ th[t].pc = "append" /\ th[t].op \in OnNew /\ Entering(th[t])
  /\ th[t].obj \in Objects \ ToSet(loaded) /\ smap[KeyOf[th[t].obj]] = None
  /\ loaded' = Append(loaded, th[t].obj) /\ ToSet(loaded') = ToSet(loaded) \union {th[t].obj}
  /\ smap' = [smap EXCEPT ![KeyOf[th[t].obj]] = th[t].obj]
  /\ UNCHANGED <<Statuses, thisIter, erased, erasers, freed>>
  /\ Elsewhere(t) /\ th'[t].pc \in {"idle", "iter"} /\ th'[t].op = th[t].op

LEMMA AppendNewInv ==
  ASSUME IInv, NEW t \in Threads, AppendNew(t)
  PROVE  IInv' /\ (Peaceful(t) \/ Enters(t))
<1> PICK o : o = th[t].obj
  OBVIOUS
<1>1. TypeOK /\ Places /\ Apart /\ Owned /\ th[t].pc = "append" /\ th[t] \in Thread
      /\ UNCHANGED <<Statuses, thisIter, erased, erasers, freed>> /\ Give(t)
  BY ThreadType DEF IInv, AppendNew, At
<1>2. th[t].op \in OnNew /\ Entering(th[t]) /\ o \in Objects /\ o \notin ToSet(loaded) /\ KeyOf[o] \in Keys
  <2>1. Place(th[t], ToSet(loaded)) /\ th[t].op \in OpsAt["append"]
    BY <1>1 DEF Places, Place
  <2>2. th[t].op \in OnNew
    BY <2>1 DEF OpsAt
  <2> QED BY <1>1, <2>1, <2>2, ListAssumption DEF Place, Entering, Thread
<1>3. dup_lock' \in Threads \union {None}
  BY <1>1, GivenBack
<1>4. CASE smap[KeyOf[o]] # None
  <2>1. UNCHANGED Lists /\ Return(t)
    BY <1>1, <1>4 DEF AppendNew, Lists
  <2>2. th' \in [Threads -> Thread] /\ Places' /\ Apart' /\ Elsewhere(t)
        /\ th'[t].pc \in {"idle", "iter", "enter"} /\ th'[t].op = th[t].op
    BY <1>1, <2>1, Returned DEF Lists
  <2>3. Owned'
    BY <1>1, <2>2, Quiet DEF AtRest
  <2> QED BY <1>1, <1>3, <2>1, <2>2, <2>3, ListKept DEF Peaceful, Lasting, TypeOK, Statuses
<1>5. CASE smap[KeyOf[o]] = None
  <2>1. loaded' = Append(loaded, o) /\ smap' = [smap EXCEPT ![KeyOf[o]] = o]
        /\ IF th[t].op = "add" THEN Goto(t, "iter") ELSE Return(t)
    BY <1>5 DEF AppendNew
  <2>2. loaded' \in Seq(Objects) /\ ToSet(loaded') = ToSet(loaded) \union {o}
    BY <1>1, <1>2, <2>1, Appended DEF TypeOK
  <2>3. PICK r \in Thread : /\ th' = [th EXCEPT ![t] = r] /\ r.op = th[t].op
                            /\ \/ r.pc = "iter" /\ r.obj = o /\ r.op = "add"
                               \/ r.pc = "idle" /\ r.obj = None
    <3>1. CASE th[t].op = "add"
      <4>1. th' = [th EXCEPT ![t] = [th[t] EXCEPT !.pc = "iter"]]
        BY <1>1, <2>1, <3>1, ThreadType DEF Goto
      <4>2. [th[t] EXCEPT !.pc = "iter"] \in Thread
        BY <1>1 DEF Thread
      <4>3. [th[t] EXCEPT !.pc = "iter"].pc = "iter" /\ [th[t] EXCEPT !.pc = "iter"].op = th[t].op
            /\ [th[t] EXCEPT !.pc = "iter"].obj = o
        BY <1>1 DEF Thread
      <4> QED BY <3>1, <4>1, <4>2, <4>3
    <3>2. CASE th[t].op # "add"
      <4>1. th' = [th EXCEPT ![t] = [th[t] EXCEPT !.pc = "idle", !.obj = None, !.cur = None]]
        BY <1>1, <1>2, <2>1, <3>2, ThreadType, CallSets DEF Return
      <4>2. [th[t] EXCEPT !.pc = "idle", !.obj = None, !.cur = None] \in Thread
        BY <1>1 DEF Thread
      <4> QED BY <1>1, <4>1, <4>2 DEF Thread
    <3> QED BY <3>1, <3>2
  <2>4. th'[t] = r
    BY <2>3, ThreadType, <1>1
  <2>5. Place(r, ToSet(loaded')) /\ ~Entering(r)
    BY <1>2, <2>2, <2>3, ListTypes, <1>1, CallSets DEF Place, Entering, Verifying, OpsAt
  <2>6. r.obj \in {None, o} /\ \A u \in Threads \ {t} : th[u].obj # o
    BY <1>1, <1>2, <2>3 DEF Apart
  <2>7. th' \in [Threads -> Thread] /\ Places' /\ Apart' /\ Elsewhere(t)
    <3>1. r.obj \in ToSet(loaded) \union {None} \/ (\A u \in Threads \ {t} : th[u].obj # r.obj)
      BY <2>6
    <3>2. ToSet(loaded) \subseteq ToSet(loaded') /\ ToSet(loaded') \subseteq ToSet(loaded) \union {th[t].obj}
      BY <2>2
    <3> QED BY <1>1, <1>2, <2>3, <2>5, <3>1, <3>2, Moves
  <2>8. Owned'
    BY <1>1, <2>3, <2>4, <2>7, Quiet DEF AtRest
  <2>9. TypeOK' /\ OneEraser'
    BY <1>1, <1>2, <1>3, <2>1, <2>2, <2>7 DEF IInv, TypeOK, Statuses, OneEraser
  <2>10. FoundIsListed'
    <3> SUFFICES ASSUME NEW k \in Keys, smap'[k] # None PROVE smap'[k] \in Chained' /\ KeyOf[smap'[k]] = k
      BY DEF FoundIsListed
    <3>1. CASE k = KeyOf[o]
      BY <1>1, <1>2, <2>1, <2>2, <3>1 DEF TypeOK, Chained
    <3>2. CASE k # KeyOf[o]
      BY <1>1, <2>1, <2>2, <3>2 DEF IInv, FoundIsListed, Chained, TypeOK
    <3> QED BY <3>1, <3>2
  <2>11. Enters(t)
    BY <1>1, <1>2, <1>5, <2>1, <2>2, <2>3, <2>4, <2>7 DEF Enters
  <2> QED BY <2>7, <2>8, <2>9, <2>10, <2>11 DEF IInv
<1> QED BY <1>4, <1>5

\* A deletion that succeeds; the object is removed next, or left where it is.
Leaves(t) ==
  /\ th[t].pc = "operate" /\ th[t].op \in {"del", "delAll"} /\ xoStatus[th[t].obj] = "DELETING"
  /\ xoStatus'[th[t].obj] = "DELETED" /\ th[t].obj \in Objects
  /\ UNCHANGED Lists /\ Elsewhere(t) /\ Lasting
  /\ th'[t].op = th[t].op /\ (th'[t].pc # "remove" \/ th'[t].obj = th[t].obj)

LEMMA DeletedInv ==
  ASSUME IInv, NEW t \in Threads, Deleted(t)
  PROVE  IInv' /\ Leaves(t)
<1> PICK o : o = th[t].obj
  OBVIOUS
<1>1. TypeOK /\ Places /\ Apart /\ Owned /\ th[t].pc = "operate" /\ Asks[th[t].op] = "DELETING"
      /\ UNCHANGED <<Lists, dup_lock>> /\ setStatus(o, "DELETED") /\ thisIter' = thisIter \ {o}
  BY DEF IInv, Deleted, Working, Done, At
<1>2. o \in Objects /\ Doing(t, o) /\ th[t].op \in {"del", "delAll"} /\ xoStatus[o] = "DELETING"
  <2>1. th[t].op \in (OnNew \union OnKey \union OnAll) \ {"load"}
    BY <1>1 DEF Places, Place, OpsAt
  <2> QED BY <1>1, <2>1, AtOperate, CallSets DEF Asks
<1>3. th' \in [Threads -> Thread] /\ Places' /\ Apart' /\ Elsewhere(t)
      /\ th'[t].pc \in {"idle", "iter", "enter", "remove"} /\ th'[t].op = th[t].op
      /\ (th'[t].pc # "remove" \/ th'[t].obj = th[t].obj)
  <2>1. CASE Return(t)
    BY <1>1, <2>1, Returned DEF Lists
  <2>2. CASE Goto(t, "remove")
    BY <1>1, <1>2, <2>2, GoesTo, CallSets DEF Verifying, Busy, OpsAt, Lists
  <2> QED BY <2>1, <2>2 DEF Deleted
<1>4. xoStatus' \in [Objects -> Status] /\ xoStatus_prev' \in [Objects -> Status] /\ Owned' /\ Lasting
  BY <1>1, <1>2, <1>3, Ends, StatusSets DEF AtRest
<1>5. xoStatus'[o] = "DELETED"
  BY <1>1, <1>2 DEF setStatus, TypeOK
<1> QED BY <1>1, <1>2, <1>3, <1>4, <1>5, ListKept DEF Leaves, TypeOK

LEMMA CleanupInv ==
  ASSUME IInv, NEW t \in Threads, Cleanup(t)
  PROVE  IInv'
<1>1. TypeOK /\ Places /\ Apart /\ Owned /\ th[t].pc = "cleanup" /\ Goto(t, "remove")
      /\ UNCHANGED <<Statuses, Lists, dup_lock>> /\ thisIter' = thisIter \ {th[t].obj}
  BY DEF IInv, Cleanup, At
<1>2. th[t].op \in OpsAt["remove"]
  BY <1>1 DEF Places, Place, OpsAt
<1>3. th' \in [Threads -> Thread] /\ Places' /\ Apart' /\ Elsewhere(t) /\ th'[t].pc = "remove"
  BY <1>1, <1>2, GoesTo DEF Verifying, Busy, Lists
<1>4. Owned'
  BY <1>1, <1>3, Quiet DEF AtRest
<1> QED BY <1>1, <1>3, <1>4, ListKept DEF TypeOK, Statuses

LEMMA UnlistInv ==
  ASSUME IInv, NEW t \in Threads, Unlist(t)
  PROVE  IInv' /\ Elsewhere(t) /\ th'[t].pc # "remove" /\ th'[t].op = th[t].op
<1> PICK o : o = th[t].obj
  OBVIOUS
<1>1. TypeOK /\ Places /\ Apart /\ Owned /\ th[t].pc = "remove" /\ th[t] \in Thread /\ Return(t)
      /\ UNCHANGED <<Statuses, thisIter, loaded, freed, dup_lock>>
      /\ smap' = [smap EXCEPT ![KeyOf[o]] = None] /\ erased' = erased \union {o}
      /\ erasers' = IF o \in erased THEN erasers ELSE [erasers EXCEPT ![o] = @ + 1]
  BY ThreadType DEF IInv, Unlist, At
<1>2. o \in ToSet(loaded) /\ o \in Objects /\ KeyOf[o] \in Keys
  BY <1>1, ListTypes, ListAssumption DEF Places, Place, Entering, Verifying
<1>3. th' \in [Threads -> Thread] /\ Places' /\ Apart' /\ Elsewhere(t)
      /\ th'[t].pc \in {"idle", "iter", "enter"} /\ th'[t].op = th[t].op
  BY <1>1, Returned
<1>4. Owned'
  BY <1>1, <1>3, Quiet DEF AtRest
<1>5. OneEraser' /\ erasers' \in [Objects -> Nat]
  BY <1>1, <1>2 DEF IInv, OneEraser, TypeOK
<1>6. TypeOK'
  BY <1>1, <1>2, <1>3, <1>5 DEF TypeOK, Statuses
<1>7. FoundIsListed'
  <2> SUFFICES ASSUME NEW k \in Keys, smap'[k] # None PROVE smap'[k] \in Chained' /\ KeyOf[smap'[k]] = k
    BY DEF FoundIsListed
  <2>1. k # KeyOf[o] /\ smap'[k] = smap[k]
    BY <1>1, <1>2 DEF TypeOK
  <2>2. smap[k] \in Chained /\ KeyOf[smap[k]] = k
    BY <2>1 DEF IInv, FoundIsListed
  <2> QED BY <1>1, <2>1, <2>2 DEF Chained
<1> QED BY <1>3, <1>4, <1>5, <1>6, <1>7 DEF IInv

LEMMA FreeInv ==
  ASSUME IInv, NEW o \in Objects, Free(o)
  PROVE  IInv'
<1>1. o \in erased /\ freed' = freed \union {o}
      /\ UNCHANGED <<xoStatus, xoStatus_prev, thisIter, loaded, smap, erased, erasers, dup_lock, th>>
  BY DEF Free, Statuses
<1>2. TypeOK'
  BY <1>1 DEF IInv, TypeOK
<1> QED BY <1>1, <1>2 DEF IInv, Places, Apart, FoundIsListed, Chained, OneEraser, Owned, Doing, At

-----------------------------------------------------------------------------
(* Every step, and what the invariant says.                                 *)

LEMMA FirstIndex ==
  ASSUME NEW o \in ToSet(Preloaded)
  PROVE  o \in Objects /\ \A p \in ToSet(Preloaded) : KeyOf[p] = KeyOf[o] => p = o
BY ListAssumption DEF ToSet

LEMMA FirstMap ==
  ASSUME Init, NEW k \in Keys
  PROVE  /\ smap[k] \in Objects \union {None}
         /\ smap[k] # None => smap[k] \in ToSet(Preloaded) /\ KeyOf[smap[k]] = k
         /\ \A o \in ToSet(Preloaded) : KeyOf[o] = k => smap[k] = o
<1>1. smap[k] = IF \E o \in ToSet(Preloaded) : KeyOf[o] = k
                THEN CHOOSE o \in ToSet(Preloaded) : KeyOf[o] = k ELSE None
  BY DEF Init
<1>2. CASE \E o \in ToSet(Preloaded) : KeyOf[o] = k
  <2>1. smap[k] \in ToSet(Preloaded) /\ KeyOf[smap[k]] = k
    BY <1>1, <1>2
  <2> QED BY <2>1, FirstIndex
<1>3. CASE ~\E o \in ToSet(Preloaded) : KeyOf[o] = k
  BY <1>1, <1>3
<1> QED BY <1>2, <1>3

LEMMA InvariantInit == Init => IInv /\ ListedIsFound
<1> SUFFICES ASSUME Init PROVE IInv /\ ListedIsFound
  OBVIOUS
<1>1. /\ loaded = Preloaded /\ Preloaded \in Seq(Objects) /\ erased = {} /\ freed = {} /\ thisIter = {}
      /\ dup_lock = None /\ erasers = [o \in Objects |-> 0] /\ xoStatus = [o \in Objects |-> "LOADED"]
      /\ xoStatus_prev = xoStatus /\ MaxOps \in Nat
  BY ListAssumption DEF Init
<1>2. \A t \in Threads : th[t].pc = "idle" /\ th[t].op = "load" /\ th[t].obj = None
  BY DEF Init
<1>3. smap \in [Keys -> Objects \union {None}]
  <2>1. smap = [k \in Keys |-> smap[k]]
    BY DEF Init
  <2> QED BY <2>1, FirstMap
<1>4. th \in [Threads -> Thread]
  BY <1>1, CallSets DEF Init, Thread
<1>5. TypeOK
  BY <1>1, <1>3, <1>4, StatusSets DEF TypeOK
<1>6. Places /\ Apart
  BY <1>2, CallSets DEF Places, Place, Apart, Entering, Verifying, OpsAt
<1>7. FoundIsListed /\ ListedIsFound
  <2>1. Chained = ToSet(Preloaded) /\ \A o \in Objects : KeyOf[o] \in Keys
    BY <1>1, ListAssumption DEF Chained
  <2> QED BY <2>1, FirstMap, FirstIndex DEF FoundIsListed, ListedIsFound
<1>8. OneEraser
  BY <1>1 DEF OneEraser
<1>9. Owned
  <2>1. \A o \in Objects : xoStatus[o] \notin Operation
    BY <1>1, StatusSets
  <2> QED BY <1>2, <2>1 DEF Owned, Doing, At
<1> QED BY <1>5, <1>6, <1>7, <1>8, <1>9 DEF IInv

LEMMA InvariantStep == IInv /\ [Next]_vars => IInv'
<1> SUFFICES ASSUME IInv, [Next]_vars PROVE IInv'
  OBVIOUS
<1>1. CASE UNCHANGED vars
  BY <1>1 DEF vars, IInv, TypeOK, Places, Apart, FoundIsListed, Chained, OneEraser, Owned, Doing, At
<1>2. ASSUME NEW t \in Threads, Step(t) PROVE IInv'
  BY <1>2, LockDupInv, VisitInv, CompareInv, VerifiedInv, AppendNewInv, SetThisIterInv, EnterInv,
     OperationEndsInv, DeletedInv, CleanupInv, UnlistInv DEF Step
<1>3. ASSUME NEW t \in Threads,
             \/ \E op \in OnNew, o \in Objects : CallNew(t, op, o)
             \/ \E op \in OnKey, k \in Keys : CallKey(t, op, k)
             \/ \E op \in OnAll : CallAll(t, op)
      PROVE  IInv'
  BY <1>3, CallInv
<1>4. ASSUME NEW o \in Objects, Free(o) PROVE IInv'
  BY <1>4, FreeInv
<1> QED BY <1>1, <1>2, <1>3, <1>4 DEF Next

LEMMA Invariant == Spec => []IInv
BY InvariantInit, InvariantStep, PTL DEF Spec

\* The states are of their types: what is freed was erased, what was erased
\* was listed, and no call loses its object.
THEOREM TypeCorrect == Spec => []TypeOK
<1>1. IInv => TypeOK
  BY DEF IInv
<1> QED BY <1>1, Invariant, PTL

\* find() returns no object whose node is out of the chain, whoever is
\* deleting or taking back objects.
THEOREM FoundObjectsAreListed == Spec => []FoundIsListed
<1>1. IInv => FoundIsListed
  BY DEF IInv
<1> QED BY <1>1, Invariant, PTL

\* However many threads delete an object or take it back, one eraser thread
\* frees it.
THEOREM ErasedOnce == Spec => []OneEraser
<1>1. IInv => OneEraser
  BY DEF IInv
<1> QED BY <1>1, Invariant, PTL

\* Every status that stands for an operation, QUERYING of the duplicate check
\* included, has one owner, who gives it back.
THEOREM StatusesAreOwned == Spec => []StatusOwned
<1>1. IInv => StatusOwned
  <2> SUFFICES ASSUME IInv, NEW o \in Objects, xoStatus[o] \in Operation
               PROVE Cardinality({t \in Threads : AtWork(t, o)}) = 1
    BY DEF StatusOwned
  <2>1. TypeOK /\ Places /\ Owned
    BY DEF IInv
  <2>2. PICK t \in Threads : Doing(t, o)
    BY <2>1 DEF Owned
  <2>3. \A u \in Threads : AtWork(u, o) <=> Doing(u, o)
    BY <2>1, DoingStatus DEF AtWork, Doing, At
  <2>4. {u \in Threads : AtWork(u, o)} = {t}
    BY <2>1, <2>2, <2>3 DEF Owned
  <2> QED BY <2>4, FS_Singleton
<1> QED BY <1>1, Invariant, PTL

-----------------------------------------------------------------------------
(* Keys, as long as add() with a new object is not called.                  *)

LEMMA ObjectKeys ==
  ASSUME TypeOK
  PROVE  /\ erased \subseteq Objects /\ Chained \subseteq Objects
         /\ \A o \in Objects : KeyOf[o] \in Keys /\ o # None
BY ListTypes, ListAssumption DEF TypeOK, Chained

LEMMA RemoverObject ==
  ASSUME IInv, NEW t \in Threads, th[t].pc = "remove"
  PROVE  th[t].obj \in Objects /\ th[t].obj \in ToSet(loaded)
BY ListTypes DEF IInv, Places, Place, Entering, Verifying

LEMMA PeacefulRemoval ==
  ASSUME LInv, "add" \notin Calls, NEW t \in Threads, Peaceful(t)
  PROVE  Removal' /\ ListedIsFound'
<1>1. TypeOK /\ Removal /\ UNCHANGED Lists /\ Elsewhere(t) /\ Lasting
      /\ th'[t].pc # "remove" /\ th'[t].op \in {th[t].op} \union Calls
  BY DEF LInv, IInv, Peaceful
<1>2. \A u \in Threads : At(u, "remove")' => u # t /\ At(u, "remove") /\ th'[u].obj = th[u].obj /\ th[u].obj \in Objects
  BY <1>1, RemoverObject DEF At, Elsewhere, LInv
<1>3. erased' = erased /\ Chained' = Chained /\ smap' = smap
  BY <1>1 DEF Lists, Chained
<1>4. \A u \in Threads : th'[u].op # "add"
  BY <1>1 DEF Removal, Elsewhere
<1>5. \A u \in Threads : At(u, "remove")' => th'[u].obj \notin erased' /\ xoStatus'[th'[u].obj] = "DELETED"
  BY <1>1, <1>2, <1>3 DEF Removal, Lasting
<1>6. \A u, v \in Threads : At(u, "remove")' /\ At(v, "remove")' /\ th'[u].obj = th'[v].obj => u = v
  BY <1>1, <1>2 DEF Removal
<1>7. \A o \in erased' : xoStatus'[o] = "DELETED"
  BY <1>1, <1>3, ObjectKeys DEF Removal, Lasting
<1> QED BY <1>3, <1>4, <1>5, <1>6, <1>7 DEF Removal, LInv, ListedIsFound

LEMMA EntersRemoval ==
  ASSUME LInv, NEW t \in Threads, Enters(t)
  PROVE  Removal' /\ ListedIsFound'
<1> PICK o : o = th[t].obj
  OBVIOUS
<1>1. TypeOK /\ Removal /\ ListedIsFound /\ Elsewhere(t) /\ th'[t].pc # "remove" /\ th'[t].op = th[t].op
      /\ o \in Objects \ ToSet(loaded) /\ smap[KeyOf[o]] = None
      /\ ToSet(loaded') = ToSet(loaded) \union {o}
      /\ smap' = [smap EXCEPT ![KeyOf[o]] = o] /\ xoStatus' = xoStatus /\ erased' = erased
  BY DEF LInv, IInv, Enters, Statuses
<1>2. \A u \in Threads : At(u, "remove")' => u # t /\ At(u, "remove") /\ th'[u] = th[u]
  BY <1>1 DEF At, Elsewhere
<1>3. Removal'
  BY <1>1, <1>2 DEF Removal, Elsewhere
<1>4. ASSUME NEW p \in Chained' PROVE smap'[KeyOf[p]] = p
  <2>1. CASE p = o
    BY <1>1, <2>1, ObjectKeys DEF TypeOK
  <2>2. CASE p # o
    <3>1. p \in Chained /\ p \in Objects /\ smap[KeyOf[p]] = p /\ p # None /\ KeyOf[p] \in Keys
      BY <1>1, <1>4, <2>2, ObjectKeys DEF Chained, ListedIsFound
    <3> QED BY <1>1, <3>1 DEF TypeOK
  <2> QED BY <2>1, <2>2
<1> QED BY <1>3, <1>4 DEF ListedIsFound

LEMMA LeavesRemoval ==
  ASSUME LInv, NEW t \in Threads, Leaves(t)
  PROVE  Removal' /\ ListedIsFound'
<1> PICK o : o = th[t].obj
  OBVIOUS
<1>1. TypeOK /\ Removal /\ UNCHANGED Lists /\ Elsewhere(t) /\ Lasting /\ th'[t].op = th[t].op
      /\ (th'[t].pc # "remove" \/ th'[t].obj = o)
      /\ o \in Objects /\ xoStatus[o] = "DELETING" /\ xoStatus'[o] = "DELETED"
  BY DEF LInv, IInv, Leaves
<1>2. \A u \in Threads : At(u, "remove")' /\ u # t =>
        At(u, "remove") /\ th'[u] = th[u] /\ th[u].obj \in Objects /\ th[u].obj # o
  BY <1>1, RemoverObject DEF At, Elsewhere, LInv, Removal
<1>3. erased' = erased /\ Chained' = Chained /\ smap' = smap /\ o \notin erased
  BY <1>1 DEF Lists, Chained, Removal
<1>4. \A u \in Threads : At(u, "remove")' => th'[u].obj \notin erased' /\ xoStatus'[th'[u].obj] = "DELETED"
  BY <1>1, <1>2, <1>3 DEF Removal, Lasting, At
<1>5. \A u, v \in Threads : At(u, "remove")' /\ At(v, "remove")' /\ th'[u].obj = th'[v].obj => u = v
  BY <1>1, <1>2 DEF Removal, At
<1>6. \A p \in erased' : xoStatus'[p] = "DELETED"
  BY <1>1, <1>3, ObjectKeys DEF Removal, Lasting
<1>7. \A u \in Threads : th'[u].op # "add"
  BY <1>1 DEF Removal, Elsewhere
<1> QED BY <1>3, <1>4, <1>5, <1>6, <1>7 DEF Removal, LInv, ListedIsFound

LEMMA UnlistRemoval ==
  ASSUME LInv, NEW t \in Threads, Unlist(t)
  PROVE  Removal' /\ ListedIsFound'
<1> PICK o : o = th[t].obj
  OBVIOUS
<1>1. TypeOK /\ Removal /\ ListedIsFound /\ th[t].pc = "remove" /\ At(t, "remove") /\ loaded' = loaded
      /\ smap' = [smap EXCEPT ![KeyOf[o]] = None] /\ erased' = erased \union {o} /\ xoStatus' = xoStatus
  BY DEF LInv, IInv, Unlist, At, Statuses
<1>2. Elsewhere(t) /\ th'[t].pc # "remove" /\ th'[t].op = th[t].op
  BY UnlistInv DEF LInv
<1>3. o \in Objects /\ o \in Chained /\ xoStatus[o] = "DELETED" /\ smap[KeyOf[o]] = o
  BY <1>1, RemoverObject DEF Removal, Chained, LInv, ListedIsFound
<1>4. \A u \in Threads : At(u, "remove")' => u # t /\ At(u, "remove") /\ th'[u] = th[u] /\ th[u].obj # o
  BY <1>1, <1>2 DEF At, Elsewhere, Removal
<1>5. Removal'
  BY <1>1, <1>2, <1>3, <1>4 DEF Removal, Elsewhere
<1>6. ASSUME NEW p \in Chained' PROVE smap'[KeyOf[p]] = p
  <2>1. p \in Chained /\ p # o /\ smap[KeyOf[p]] = p /\ KeyOf[p] \in Keys
    BY <1>1, <1>6, ObjectKeys DEF Chained, ListedIsFound
  <2>2. KeyOf[p] # KeyOf[o]
    BY <1>3, <2>1
  <2> QED BY <1>1, <2>1, <2>2 DEF TypeOK
<1> QED BY <1>5, <1>6 DEF ListedIsFound

LEMMA RemovalStep ==
  ASSUME LInv, "add" \notin Calls, [Next]_vars
  PROVE  Removal' /\ ListedIsFound'
<1>1. CASE UNCHANGED vars
  BY <1>1 DEF vars, LInv, Removal, ListedIsFound, Chained, At
<1>2. ASSUME NEW t \in Threads, Step(t) PROVE Removal' /\ ListedIsFound'
  <2>1. CASE Cleanup(t)
    <3>1. th[t].op = "add"
      BY <2>1 DEF Cleanup, At, LInv, IInv, Places, Place, OpsAt
    <3> QED BY <3>1 DEF LInv, Removal
  <2>2. CASE Peaceful(t) \/ Enters(t) \/ Leaves(t)
    BY <2>2, PeacefulRemoval, EntersRemoval, LeavesRemoval
  <2>3. Peaceful(t) \/ Enters(t) \/ Leaves(t) \/ Cleanup(t) \/ Unlist(t)
    BY <1>2, LockDupInv, VisitInv, CompareInv, VerifiedInv, AppendNewInv, SetThisIterInv, EnterInv,
       OperationEndsInv, DeletedInv DEF Step, LInv
  <2> QED BY <2>1, <2>2, <2>3, UnlistRemoval
<1>3. ASSUME NEW t \in Threads,
             \/ \E op \in OnNew, o \in Objects : CallNew(t, op, o)
             \/ \E op \in OnKey, k \in Keys : CallKey(t, op, k)
             \/ \E op \in OnAll : CallAll(t, op)
      PROVE  Removal' /\ ListedIsFound'
  BY <1>3, CallInv, PeacefulRemoval DEF LInv
<1>4. ASSUME NEW o \in Objects, Free(o) PROVE Removal' /\ ListedIsFound'
  BY <1>4 DEF Free, LInv, Removal, ListedIsFound, Chained, At, Statuses
<1> QED BY <1>1, <1>2, <1>3, <1>4 DEF Next

LEMMA RemovalInit == Init => Removal
BY DEF Init, Removal, At

LEMMA LoadedInvariant == ASSUME "add" \notin Calls PROVE Spec => []LInv
<1>1. Init => LInv
  BY InvariantInit, RemovalInit DEF LInv
<1>2. LInv /\ [Next]_vars => LInv'
  BY InvariantStep, RemovalStep DEF LInv
<1> QED BY <1>1, <1>2, PTL DEF Spec

\* Every listed object is found by its key, as long as objects come to the
\* list by loadObj and no add() is taken back while others delete.
THEOREM ListedObjectsAreFound ==
  ASSUME "add" \notin Calls
  PROVE  Spec => []ListedIsFound
<1>1. LInv => ListedIsFound
  BY DEF LInv
<1> QED BY <1>1, LoadedInvariant, PTL

\* Under the same condition the keys of the list are unique, although the
\* duplicate check passes over the objects that refuse it.
THEOREM KeysAreUnique ==
  ASSUME "add" \notin Calls
  PROVE  Spec => []KeysUnique
<1>1. LInv => KeysUnique
  BY DEF LInv, ListedIsFound, KeysUnique
<1> QED BY <1>1, LoadedInvariant, PTL
=============================================================================
