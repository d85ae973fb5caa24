------------------------- MODULE XObjectConnProofs -------------------------
(***************************************************************************)
(* What holds of the connections of XObject for every number of threads,   *)
(* objects and connections: counting, protection, symmetry, isolation.     *)
(***************************************************************************)
EXTENDS XObjectProofs, FiniteSetTheorems

\* An object whose connections del() removes is deleted.
DeletersGone == \A t \in Threads, o \in Objects :
  th[t].pc \in Deleters /\ th[t].obj = o => BaseOf(o) = "DELETED"

\* A connection in the making belongs to the thread that makes it, comes from
\* its object and has not reached the other side.
MakingAlone == \A t \in Threads, c \in Conns : th[t].pc \in Making /\ th[t].conn = c =>
  /\ th[t].obj = conn[c].from /\ c \notin cList[conn[c].to]
  /\ \A u \in Threads : u # t /\ th[u].pc \in Linking => th[u].conn # c

\* The side a thread removes a connection from does not get it back.
RemovedHere == \A t \in Threads, c \in Conns :
  th[t].pc \in Removing /\ th[t].conn = c => c \notin cList[th[t].obj]

LInv == MInv /\ DeletersGone /\ MakingAlone /\ RemovedHere

-----------------------------------------------------------------------------
(* What a step does with connections: nothing, opens one on the thread's    *)
(* side, joins it to the other side, backs out of it, cuts one on the       *)
(* thread's side, or follows it to the other side.                          *)

Adds(c, o) == \A p \in Objects :
  /\ cList'[p] = IF p = o THEN cList[p] \cup {c} ELSE cList[p]
  /\ ruse'[p] = IF p = o THEN ruse[p] + Weight(c, o) ELSE ruse[p]

Drops(c, o) == \A p \in Objects :
  /\ cList'[p] = IF p = o THEN cList[p] \ {c} ELSE cList[p]
  /\ ruse'[p] = IF p = o /\ c \in cList[p] THEN ruse[p] - Weight(c, o) ELSE ruse[p]

Still(t) ==
  /\ UNCHANGED connVars
  /\ th'[t].pc \in Making <=> th[t].pc \in Making
  /\ th'[t].pc \in Removing <=> th[t].pc \in Removing
  /\ th'[t].pc \in Linking => th'[t].conn = th[t].conn /\ th'[t].obj = th[t].obj

Opens(t, c, p, strong) ==
  /\ Connects(t, c, p, strong) /\ p \in Objects
  /\ th[t].pc \in {"body", "scanning"} /\ th[t].op \in Connecting
  /\ th'[t].pc \in Making /\ th'[t].conn = c /\ th'[t].obj = th[t].obj

Joins(t, c, p) ==
  /\ UNCHANGED conn /\ Adds(c, p) /\ p = conn[c].to
  /\ th[t].pc \in Making /\ th[t].conn = c /\ th'[t].pc \notin Linking
  /\ xoStatus[p] \notin {"DELETING", "DELETED"}

Backs(t, c) ==
  /\ UNCHANGED conn /\ Drops(c, th[t].obj)
  /\ th[t].pc \in Making /\ th[t].conn = c /\ th'[t].pc \notin Linking

Cuts(t, c) == LET o == th'[t].obj IN
  /\ UNCHANGED conn /\ Drops(c, o) /\ o \in Objects /\ c \in cList[o]
  /\ th[t].pc \notin Linking
  /\ \/ o = th[t].obj /\ th[t].pc \in Held \cup Deleters
     \/ xoStatus[o] = "LOADED"
  /\ th'[t].pc \in Removing /\ th'[t].conn = c

Follows(t, c, p) ==
  /\ UNCHANGED conn /\ Drops(c, p) /\ {th[t].obj, p} = {conn[c].from, conn[c].to}
  /\ th[t].pc \in Removing /\ th[t].conn = c /\ th'[t].pc \notin Linking

Acts(t) == Finish(t) \/ Choose(t)

LEMMA Others ==
  ASSUME Shape, NEW t \in Threads, Acts(t)
  PROVE  /\ th' \in [Threads -> Thread] /\ \A u \in Threads : u # t => th'[u] = th[u]
         /\ Shape' /\ ConnTyped /\ ConnTyped'
BY ThreadShape, ShapeStep DEF Acts, Shape, Typed, ConnTyped

LEMMA AddsOf ==
  ASSUME Shape, NEW c \in Conns, NEW o \in Objects, Attach(c, o)
  PROVE  Adds(c, o)
<1>1. ConnTyped
  BY DEF Shape, Typed, ConnTyped
<1> QED BY <1>1, AttachFacts DEF Adds

LEMMA DropsOf ==
  ASSUME Shape, NEW c \in Conns, NEW o \in Objects, Detach(c, o)
  PROVE  Drops(c, o)
<1>1. ConnTyped
  BY DEF Shape, Typed, ConnTyped
<1> QED BY <1>1, DetachFacts DEF Drops

LEMMA StillStep ==
  ASSUME Shape, NEW t \in Threads,
         \/ Sleep(t) \/ PeerMayConnect(t) \/ PeerRefuse(t)
         \/ \E new : Moves(t, new) /\ Apart(t, new)
  PROVE  Still(t)
<1>1. CASE Sleep(t)
  BY <1>1 DEF Sleep, Still
<1>2. CASE \E new : Moves(t, new) /\ Apart(t, new)
  <2>1. PICK new : Moves(t, new) /\ Apart(t, new)
    BY <1>2
  <2>2. th'[t] = new
    BY <2>1, MoveFacts DEF Shape
  <2> QED BY <2>1, <2>2 DEF Still, Apart, Linking
<1>3. CASE PeerMayConnect(t) \/ PeerRefuse(t)
  <2>1. PICK pc \in {"peerWait", "rollback"} : Goto(t, pc)
    BY <1>3 DEF PeerMayConnect, PeerRefuse
  <2>2. th[t].pc \in {"connecting", "peerWait"} /\ t \notin asleep /\ UNCHANGED statusVars /\ UNCHANGED connVars
    BY <1>3 DEF PeerMayConnect, PeerRefuse, Shape, Control
  <2>3. PICK new : Moves(t, new) /\ new.pc = pc /\ new.conn = th[t].conn /\ new.obj = th[t].obj
    BY <2>1, <2>2, ConnectingStep DEF Keep
  <2>4. th'[t] = new
    BY <2>3, MoveFacts DEF Shape
  <2> QED BY <2>2, <2>3, <2>4 DEF Still, Making, Removing, Linking
<1> QED BY <1>1, <1>2, <1>3

LEMMA OpensStep ==
  ASSUME Shape, NEW t \in Threads, NEW c \in Conns, NEW p \in Objects,
         NEW strong \in SUBSET {th[t].obj, p}, Connect(t, c, p, strong)
  PROVE  Opens(t, c, p, strong)
<1>1. PICK new : Moves(t, new) /\ new.pc = "connecting" /\ new.conn = c /\ new.obj = th[t].obj
  BY ConnectStep DEF Keep
<1>2. th'[t] = new
  BY <1>1, MoveFacts DEF Shape
<1>3. strong \subseteq {th[t].obj, p}
  OBVIOUS
<1>4. Connects(t, c, p, strong)
  BY <1>3, ConnectFacts
<1>5. th[t].pc \in {"body", "scanning"} /\ th[t].op \in Connecting
  BY ConnectStep
<1> QED BY <1>1, <1>2, <1>4, <1>5 DEF Opens, Making

LEMMA JoinsStep ==
  ASSUME Shape, MakingAlone, NEW t \in Threads, PeerAdd(t)
  PROVE  \E c \in Conns, p \in Objects : Joins(t, c, p)
<1> DEFINE c == th[t].conn
           p == Peer(c, th[t].obj)
<1>1. th[t].pc \in Making /\ th[t].pc \in Linking /\ Attach(c, p) /\ UNCHANGED conn
      /\ xoStatus[p] \notin {"DELETING", "DELETED"}
  BY DEF PeerAdd, Making, Linking
<1>2. c \in Conns /\ p \in Objects
  BY <1>1, LinkEnds
<1>3. th[t].obj = conn[c].from /\ p = conn[c].to
  BY <1>1, <1>2 DEF MakingAlone, Peer
<1>4. PICK new : Moves(t, new) /\ new.pc \in {"body", "scanning", "deleting"}
  BY PeerAddStep, BackToFacts DEF Keep
<1>5. th'[t].pc \notin Linking
  BY <1>4, MoveFacts DEF Shape, Linking, Making, Removing
<1> HIDE DEF p
<1>6. Adds(c, p)
  BY <1>1, <1>2, AddsOf
<1> QED BY <1>1, <1>2, <1>3, <1>5, <1>6 DEF Joins

LEMMA BacksStep ==
  ASSUME Shape, NEW t \in Threads, Rollback(t)
  PROVE  \E c \in Conns : Backs(t, c)
<1> DEFINE c == th[t].conn
<1>1. th[t].pc \in Making /\ th[t].pc \in Linking /\ Detach(c, th[t].obj) /\ UNCHANGED conn
  BY DEF Rollback, Making, Linking
<1>2. c \in Conns /\ th[t].obj \in Objects
  BY <1>1, LinkEnds
<1>4. PICK new : Moves(t, new) /\ new.pc \in {"body", "scanning", "deleting"}
  BY RollbackStep, BackToFacts DEF Keep
<1>5. th'[t].pc \notin Linking
  BY <1>4, MoveFacts DEF Shape, Linking, Making, Removing
<1>6. Drops(c, th[t].obj)
  BY <1>1, <1>2, DropsOf
<1> QED BY <1>1, <1>2, <1>5, <1>6 DEF Backs

LEMMA CutsStep ==
  ASSUME Shape, NEW t \in Threads, NEW c \in Conns, Disconnect(t, c)
  PROVE  Cuts(t, c)
<1>1. Detach(c, th[t].obj) /\ UNCHANGED conn /\ c \in cList[th[t].obj]
  BY DEF Disconnect
<1>2. th[t].pc \in {"body", "scanning", "deleting", "disconnectAll"} /\ th[t].obj \in Objects
  BY DisconnectStep
<1>3. PICK new : Moves(t, new) /\ new.pc \in Removing /\ new.conn = c /\ new.obj = th[t].obj
  BY DisconnectStep DEF Keep, Removing
<1>4. th'[t] = new
  BY <1>3, MoveFacts DEF Shape
<1>5. Drops(c, th[t].obj)
  BY <1>1, <1>2, DropsOf
<1> QED BY <1>1, <1>2, <1>3, <1>4, <1>5 DEF Cuts, Held, Deleters, Linking, Making, Removing

LEMMA CutsLoadedStep ==
  ASSUME Shape, NEW t \in Threads, NEW o \in Objects, NEW c \in Conns, DisconnectLoaded(t, o, c)
  PROVE  Cuts(t, c)
<1>1. Detach(c, o) /\ UNCHANGED conn /\ c \in cList[o] /\ xoStatus[o] = "LOADED"
  BY DEF DisconnectLoaded
<1>2. th[t].pc = "idle"
  BY DisconnectLoadedStep
<1>3. PICK new : Moves(t, new) /\ new.pc \in Removing /\ new.conn = c /\ new.obj = o
  BY DisconnectLoadedStep DEF Keep, Removing
<1>4. th'[t] = new
  BY <1>3, MoveFacts DEF Shape
<1>5. Drops(c, o)
  BY <1>1, DropsOf
<1> QED BY <1>1, <1>2, <1>3, <1>4, <1>5 DEF Cuts, Linking, Making, Removing

LEMMA FollowsStep ==
  ASSUME Shape, NEW t \in Threads, PeerDelete(t)
  PROVE  \E c \in Conns, p \in Objects : Follows(t, c, p)
<1> DEFINE c == th[t].conn
           p == Peer(c, th[t].obj)
<1>1. th[t].pc \in Removing /\ th[t].pc \in Linking /\ Detach(c, p) /\ UNCHANGED conn
  BY DEF PeerDelete, Removing, Linking
<1>2. c \in Conns /\ p \in Objects /\ {th[t].obj, p} = {conn[c].from, conn[c].to}
  BY <1>1, LinkEnds
<1>4. PICK new : Moves(t, new) /\ new.pc \notin Linking
  BY PeerDeleteStep DEF Keep
<1>5. th'[t].pc \notin Linking
  BY <1>4, MoveFacts DEF Shape
<1> HIDE DEF p
<1>6. Drops(c, p)
  BY <1>1, <1>2, DropsOf
<1> QED BY <1>1, <1>2, <1>5, <1>6 DEF Follows

LEMMA ConnSteps ==
  ASSUME Shape, MakingAlone, NEW t \in Threads, Acts(t)
  PROVE  \/ Still(t)
         \/ \E c \in Conns, p \in Objects : \E strong \in SUBSET {th[t].obj, p} : Opens(t, c, p, strong)
         \/ \E c \in Conns, p \in Objects : Joins(t, c, p)
         \/ \E c \in Conns : Backs(t, c)
         \/ \E c \in Conns : Cuts(t, c)
         \/ \E c \in Conns, p \in Objects : Follows(t, c, p)
<1>1. CASE \E c \in Conns, p \in Objects : \E strong \in SUBSET {th[t].obj, p} : Connect(t, c, p, strong)
  BY <1>1, OpensStep
<1>2. CASE \E c \in Conns : Disconnect(t, c)
  BY <1>2, CutsStep
<1>3. CASE \E o \in Objects, c \in Conns : DisconnectLoaded(t, o, c)
  BY <1>3, CutsLoadedStep
<1>4. CASE Sleep(t) \/ PeerMayConnect(t) \/ PeerRefuse(t) \/ \E new : Moves(t, new) /\ Apart(t, new)
  BY <1>4, StillStep
<1> QED BY <1>1, <1>2, <1>3, <1>4, LinkKinds, JoinsStep, BacksStep, FollowsStep DEF Acts

-----------------------------------------------------------------------------
(* The connections of an object that is being deleted, or worked on.        *)

\* Nobody else removes connections of an object on which one is being made.
LEMMA NoDeleterBeside ==
  ASSUME LInv, NEW t \in Threads, th[t].pc \in Making
  PROVE  /\ \A u \in Threads : u # t /\ th[u].obj = th[t].obj => th[u].pc \notin Held \cup Deleters
         /\ xoStatus[th[t].obj] # "LOADED"
<1> DEFINE o == th[t].obj
<1>1. th[t].op \in Connecting /\ th[t].pc \in Held
  BY DEF LInv, MInv, Shape, Control, Placed, Making, Held
<1>2. o \in Objects /\ xoStatus[o] = th[t].op /\ \A v \in Threads : v # t => ~Holding(v, o)
  BY <1>1, HolderFacts DEF LInv, MInv, Monitor
<1>3. BaseOf(o) # "DELETED" /\ xoStatus[o] # "LOADED"
  BY <1>1, <1>2 DEF LInv, MInv, Monitor, NotRevived, BaseOf, Operation, Base, Connecting
<1>4. ASSUME NEW u \in Threads, u # t, th[u].obj = o
      PROVE  th[u].pc \notin Held \cup Deleters
  <2>1. th[u].pc \notin Held
    BY <1>2, <1>4, HoldingFacts
  <2>2. th[u].pc \notin Deleters
    BY <1>2, <1>3, <1>4 DEF LInv, DeletersGone
  <2> QED BY <2>1, <2>2
<1> QED BY <1>3, <1>4

LEMMA BaseStays ==
  ASSUME MInv, NEW t \in Threads, Acts(t), NEW o \in Objects, BaseOf(o) = "DELETED"
  PROVE  BaseOf(o)' = "DELETED"
<1>1. <<BaseOf(o), BaseOf(o)'>> \in
        {<<b, b>> : b \in Base} \cup
        {<<"LOADED", "NORMAL">>, <<"LOADED", "DELETED">>, <<"NORMAL", "DELETED">>}
  BY BaseStep DEF Acts
<1>2. \A d : <<"DELETED", d>> \in
        {<<b, b>> : b \in Base} \cup
        {<<"LOADED", "NORMAL">>, <<"LOADED", "DELETED">>, <<"NORMAL", "DELETED">>} => d = "DELETED"
  OBVIOUS
<1> QED BY <1>1, <1>2

\* A thread begins to remove connections when it has made its object DELETED.
LEMMA BecomesDeleter ==
  ASSUME Shape, NEW t \in Threads, Acts(t), th'[t].pc \in Deleters
  PROVE  \/ th[t].pc \in Deleters /\ th'[t].obj = th[t].obj
         \/ th'[t].obj = th[t].obj /\ xoStatus'[th[t].obj] = "DELETED"
<1>1. Typed
  BY DEF Shape
<1>2. CASE Sleep(t)
  BY <1>2 DEF Sleep
<1>3. CASE \E new : Keep(t, new) \/ Take(t, new) \/ \E s : Give(t, new, s)
  <2>1. PICK new : Keep(t, new) \/ Take(t, new) \/ \E s : Give(t, new, s)
    BY <1>3
  <2>2. th'[t] = new
    BY <1>1, <2>1, MoveFacts DEF Keep, Take, Give
  <2>3. CASE Keep(t, new)
    BY <2>2, <2>3 DEF Keep
  <2>4. CASE Take(t, new)
    BY <2>2, <2>4 DEF Take, Deleters
  <2>5. ASSUME NEW s, Give(t, new, s)
        PROVE  th'[t].obj = th[t].obj /\ xoStatus'[th[t].obj] = "DELETED"
    <3>1. s = "DELETED" /\ new.obj = th[t].obj /\ setStatus(th[t].obj, s) /\ th[t].pc \in Held
      BY <2>2, <2>5 DEF Give
    <3>2. th[t].obj \in Objects
      BY <3>1 DEF Shape, Control, Placed, Held
    <3> QED BY <1>1, <2>2, <3>1, <3>2, StatusSet
  <2> QED BY <2>1, <2>3, <2>4, <2>5
<1> QED BY <1>2, <1>3, Kinds DEF Acts

LEMMA DeletersStep ==
  ASSUME LInv, NEW t \in Threads, Acts(t)
  PROVE  DeletersGone'
<1> SUFFICES ASSUME NEW u \in Threads, NEW o \in Objects, th'[u].pc \in Deleters, th'[u].obj = o
             PROVE  BaseOf(o)' = "DELETED"
  BY DEF DeletersGone
<1> USE DEF LInv, MInv
<1>1. CASE th[u].pc \in Deleters /\ th[u].obj = o
  BY <1>1, BaseStays DEF DeletersGone
<1>2. CASE u # t
  BY <1>1, <1>2, Others
<1>3. CASE u = t /\ xoStatus'[o] = "DELETED"
  BY <1>3 DEF BaseOf, Base
<1> QED BY <1>1, <1>2, <1>3, BecomesDeleter

\* What another thread does leaves a connection in the making alone.
LEMMA Untouched ==
  ASSUME LInv, NEW t \in Threads, Acts(t), NEW u \in Threads, u # t, NEW c \in Conns,
         th[u].pc \in Making, th[u].conn = c
  PROVE  /\ conn'[c] = conn[c] /\ th'[u] = th[u]
         /\ \A o \in Objects : c \in cList'[o] <=> c \in cList[o]
         /\ th'[t].pc \in Linking => th'[t].conn # c
<1>1. Shape /\ MakingAlone
  BY DEF LInv, MInv
<1>2. th'[u] = th[u]
  BY <1>1, Others
<1>3. th[u].pc \in Linking /\ Made(c) /\ th[u].obj = conn[c].from /\ c \notin cList[conn[c].to]
  BY <1>1 DEF MakingAlone, Linking, Shape, Known
<1>4. th[t].pc \in Linking => th[t].conn # c
  BY <1>1 DEF MakingAlone
<1>5. CASE Still(t)
  <2>1. Making \subseteq Linking /\ Removing \subseteq Linking /\ Linking = Making \cup Removing
    BY DEF Linking
  <2> QED BY <1>2, <1>4, <1>5, <2>1 DEF Still, connVars
<1>6. ASSUME NEW d \in Conns, NEW p \in Objects, NEW strong \in SUBSET {th[t].obj, p}, Opens(t, d, p, strong)
      PROVE  /\ conn'[c] = conn[c] /\ \A o \in Objects : c \in cList'[o] <=> c \in cList[o]
             /\ th'[t].conn # c
  <2>1. d # c
    BY <1>1, <1>3, <1>6, FreshUnknown DEF Opens, Connects
  <2> QED BY <1>6, <2>1 DEF Opens, Connects
<1>7. ASSUME NEW d \in Conns, NEW p \in Objects, Joins(t, d, p) \/ Follows(t, d, p) \/ Backs(t, d)
      PROVE  /\ conn'[c] = conn[c] /\ \A o \in Objects : c \in cList'[o] <=> c \in cList[o]
             /\ th'[t].pc \notin Linking
  <2>1. d # c /\ th'[t].pc \notin Linking /\ UNCHANGED conn
    BY <1>4, <1>7 DEF Joins, Follows, Backs, Linking
  <2>2. PICK q : Adds(d, q) \/ Drops(d, q)
    BY <1>7 DEF Joins, Follows, Backs
  <2> QED BY <2>1, <2>2 DEF Adds, Drops
<1>8. ASSUME NEW d \in Conns, Cuts(t, d)
      PROVE  /\ conn'[c] = conn[c] /\ \A o \in Objects : c \in cList'[o] <=> c \in cList[o]
             /\ th'[t].conn # c
  <2>1. d # c
    <3>1. SUFFICES ASSUME d = c PROVE FALSE
      OBVIOUS
    <3> DEFINE o == th'[t].obj
    <3>2. /\ o \in Objects /\ c \in cList[o]
          /\ (o = th[t].obj /\ th[t].pc \in Held \cup Deleters) \/ xoStatus[o] = "LOADED"
      BY <1>8, <3>1 DEF Cuts
    <3>3. o = conn[c].from
      BY <1>1, <1>3, <3>2 DEF Shape, Known
    <3> QED BY <1>3, <3>2, <3>3, NoDeleterBeside
  <2> QED BY <1>8, <2>1 DEF Cuts, Drops
<1>9. CASE (\E d \in Conns, p \in Objects : Joins(t, d, p) \/ Follows(t, d, p)) \/ \E d \in Conns : Backs(t, d)
  <2>1. th[u].obj \in Objects
    BY <1>3 DEF Made
  <2>2. PICK d \in Conns, p \in Objects : Joins(t, d, p) \/ Follows(t, d, p) \/ Backs(t, d)
    BY <1>9, <2>1
  <2> QED BY <1>2, <1>7, <2>2
<1> QED BY <1>1, <1>2, <1>5, <1>6, <1>8, <1>9, ConnSteps

LEMMA MakingAloneStep ==
  ASSUME LInv, NEW t \in Threads, Acts(t)
  PROVE  MakingAlone'
<1>1. Shape /\ MakingAlone
  BY DEF LInv, MInv
<1>2. Shape' /\ \A u \in Threads : u # t => th'[u] = th[u]
  BY <1>1, Others
<1> SUFFICES ASSUME NEW u \in Threads, NEW c \in Conns, th'[u].pc \in Making, th'[u].conn = c
             PROVE  /\ th'[u].obj = conn'[c].from /\ c \notin cList'[conn'[c].to]
                    /\ \A v \in Threads : v # u /\ th'[v].pc \in Linking => th'[v].conn # c
  BY DEF MakingAlone
<1>3. CASE u # t
  <2>1. th[u].pc \in Making /\ th[u].conn = c
    BY <1>2, <1>3
  <2>2. Made(c)
    BY <1>1, <2>1 DEF Shape, Known, Linking
  <2> QED BY <1>1, <1>2, <1>3, <2>1, <2>2, Untouched DEF MakingAlone, Made
<1>4. CASE u = t /\ Still(t)
  BY <1>1, <1>2, <1>4 DEF Still, connVars, MakingAlone, Linking
<1>5. ASSUME u = t, NEW d \in Conns, NEW p \in Objects, NEW strong \in SUBSET {th[t].obj, p}, Opens(t, d, p, strong)
      PROVE  /\ th'[u].obj = conn'[c].from /\ c \notin cList'[conn'[c].to]
             /\ \A v \in Threads : v # u /\ th'[v].pc \in Linking => th'[v].conn # c
  <2>1. d = c /\ conn[c] = NoConn /\ conn'[c].from = th[t].obj /\ conn'[c].to = p /\ th[t].obj # p
        /\ cList'[p] = cList[p] /\ th'[t].obj = th[t].obj
    BY <1>5 DEF Opens, Connects
  <2> QED BY <1>1, <1>2, <1>5, <2>1, FreshUnknown
<1>6. CASE u = t /\ ((\E d \in Conns, p \in Objects : Joins(t, d, p) \/ Follows(t, d, p)) \/ \E d \in Conns : Backs(t, d) \/ Cuts(t, d))
  BY <1>6 DEF Joins, Follows, Backs, Cuts, Linking, Making, Removing
<1> QED BY <1>1, <1>3, <1>4, <1>5, <1>6, ConnSteps

LEMMA RemovedHereStep ==
  ASSUME LInv, NEW t \in Threads, Acts(t)
  PROVE  RemovedHere'
<1>1. Shape /\ MakingAlone /\ RemovedHere
  BY DEF LInv, MInv
<1>2. Shape' /\ \A u \in Threads : u # t => th'[u] = th[u]
  BY <1>1, Others
<1> SUFFICES ASSUME NEW u \in Threads, NEW c \in Conns, th'[u].pc \in Removing, th'[u].conn = c
             PROVE  c \notin cList'[th'[u].obj]
  BY DEF RemovedHere
<1>3. th'[u].obj \in Objects
  BY <1>2 DEF Shape, Control, Placed, Removing
<1>4. CASE Still(t)
  BY <1>1, <1>2, <1>4 DEF Still, connVars, RemovedHere, Linking
<1>5. ASSUME NEW d \in Conns, NEW p \in Objects, NEW strong \in SUBSET {th[t].obj, p}, Opens(t, d, p, strong)
      PROVE  c \notin cList'[th'[u].obj]
  <2>1. u # t
    BY <1>5 DEF Opens, Making, Removing
  <2>2. th[u].pc \in Removing /\ th[u].conn = c /\ th'[u] = th[u] /\ c # d
    BY <1>1, <1>2, <1>5, <2>1, FreshUnknown DEF Opens, Connects, Linking
  <2>3. c \notin cList[th'[u].obj]
    BY <1>1, <2>2 DEF RemovedHere
  <2>4. cList'[th'[u].obj] \subseteq cList[th'[u].obj] \cup {d}
    BY <1>3, <1>5 DEF Opens, Connects
  <2> QED BY <2>2, <2>3, <2>4
<1>6. ASSUME NEW d \in Conns, NEW p \in Objects, Joins(t, d, p)
      PROVE  c \notin cList'[th'[u].obj]
  <2>1. u # t
    BY <1>6 DEF Joins, Linking
  <2>2. th[u].pc \in Removing /\ th[u].conn = c /\ th'[u] = th[u] /\ c # d
    BY <1>1, <1>2, <1>6, <2>1 DEF Joins, MakingAlone, Linking
  <2>3. c \notin cList[th'[u].obj]
    BY <1>1, <2>2 DEF RemovedHere
  <2>4. cList'[th'[u].obj] \subseteq cList[th'[u].obj] \cup {d}
    BY <1>3, <1>6 DEF Joins, Adds
  <2> QED BY <2>2, <2>3, <2>4
<1>7. ASSUME NEW d, NEW o, Drops(d, o), u # t \/ th'[t].pc \notin Linking \/ (d = c /\ o = th'[u].obj)
      PROVE  c \notin cList'[th'[u].obj]
  <2>1. CASE u # t
    BY <1>1, <1>2, <1>3, <1>7, <2>1 DEF Drops, RemovedHere
  <2>2. CASE d = c /\ o = th'[u].obj
    BY <1>3, <1>7, <2>2 DEF Drops
  <2> QED BY <1>7, <2>1, <2>2 DEF Linking
<1>8. CASE (\E d \in Conns, p \in Objects : Follows(t, d, p)) \/ \E d \in Conns : Backs(t, d)
  BY <1>7, <1>8 DEF Follows, Backs
<1>9. CASE \E d \in Conns : Cuts(t, d)
  BY <1>7, <1>9 DEF Cuts
<1> QED BY <1>1, <1>4, <1>5, <1>6, <1>8, <1>9, ConnSteps

LEMMA LInvStep ==
  ASSUME LInv, NEW t \in Threads, Acts(t)
  PROVE  LInv'
<1>1. MInv'
  BY MonitorStep DEF LInv, Next, Acts
<1> QED BY <1>1, DeletersStep, MakingAloneStep, RemovedHereStep DEF LInv

-----------------------------------------------------------------------------
(* ruse counts the strong connections.                                      *)

\* A step adds to an object only a connection it does not have.
LEMMA JoinsFresh ==
  ASSUME LInv, NEW t \in Threads, NEW c \in Conns, NEW p, Joins(t, c, p)
  PROVE  c \notin cList[p]
BY DEF LInv, MakingAlone, Joins

LEMMA CountStep ==
  ASSUME LInv, RuseCounts, NEW t \in Threads, Acts(t)
  PROVE  RuseCounts'
<1>1. Shape /\ MakingAlone
  BY DEF LInv, MInv
<1>2. Shape' /\ ConnTyped /\ ConnTyped'
  BY <1>1, Others
<1> SUFFICES ASSUME NEW o \in Objects
             PROVE  ruse'[o] = Cardinality({c \in cList'[o] : o \in conn'[c].strong})
  BY DEF RuseCounts
<1> DEFINE S == {c \in cList[o] : o \in conn[c].strong}
           T == {c \in cList'[o] : o \in conn'[c].strong}
<1>3. IsFiniteSet(S) /\ ruse[o] = Cardinality(S) /\ Cardinality(S) \in Int
  <2>1. S \in SUBSET Conns
    BY <1>2 DEF ConnTyped
  <2>2. IsFiniteSet(S)
    BY <2>1, FS_Subset, XObjectAssumption
  <2>3. ruse[o] = Cardinality(S)
    BY DEF RuseCounts
  <2> QED BY <2>2, <2>3, FS_CardinalityType
<1>4. ASSUME ruse'[o] = ruse[o], T = S
      PROVE  ruse'[o] = Cardinality(T)
  BY <1>3, <1>4
<1>5. CASE Still(t)
  BY <1>4, <1>5 DEF Still, connVars
<1>6. ASSUME NEW d \in Conns, NEW q, Drops(d, q), UNCHANGED conn
      PROVE  ruse'[o] = Cardinality(T)
  <2>1. CASE o # q \/ d \notin cList[o]
    BY <1>4, <1>6, <2>1 DEF Drops
  <2>2. CASE o = q /\ d \in cList[o]
    <3>1. T = S \ {d} /\ ruse'[o] = ruse[o] - Weight(d, o)
      BY <1>6, <2>2 DEF Drops
    <3>2. CASE d \in S
      <4>1. Weight(d, o) = 1
        BY <3>2 DEF Weight
      <4> HIDE DEF S, T
      <4>2. Cardinality(T) = Cardinality(S) - 1
        BY <1>3, <3>1, <3>2, FS_RemoveElement
      <4> QED BY <1>3, <3>1, <4>1, <4>2
    <3>3. CASE d \notin S
      <4>1. T = S /\ Weight(d, o) = 0
        BY <2>2, <3>1, <3>3 DEF Weight
      <4>2. ruse'[o] = ruse[o] - 0
        BY <3>1, <4>1
      <4> HIDE DEF S, T
      <4> QED BY <1>3, <4>1, <4>2
    <3> QED BY <3>2, <3>3
  <2> QED BY <2>1, <2>2
<1>7. ASSUME NEW d \in Conns, NEW p \in Objects, Joins(t, d, p)
      PROVE  ruse'[o] = Cardinality(T)
  <2>1. CASE o # p
    BY <1>4, <1>7, <2>1 DEF Joins, Adds
  <2>2. CASE o = p
    <3>1. d \notin cList[o]
      BY <1>7, <2>2, JoinsFresh
    <3>2. cList'[o] = cList[o] \cup {d} /\ ruse'[o] = ruse[o] + Weight(d, o) /\ UNCHANGED conn
      BY <1>7, <2>2 DEF Joins, Adds
    <3>3. CASE o \in conn[d].strong
      <4>1. T = S \cup {d} /\ d \notin S /\ Weight(d, o) = 1
        BY <3>1, <3>2, <3>3 DEF Weight
      <4> HIDE DEF S, T
      <4>3. Cardinality(T) = Cardinality(S) + 1
        BY <1>3, <4>1, FS_AddElement
      <4> QED BY <1>3, <3>2, <4>1, <4>3
    <3>4. CASE o \notin conn[d].strong
      <4>1. T = S /\ Weight(d, o) = 0
        BY <3>1, <3>2, <3>4 DEF Weight
      <4> HIDE DEF S, T
      <4> QED BY <1>3, <3>2, <4>1
    <3> QED BY <3>3, <3>4
  <2> QED BY <2>1, <2>2
<1>8. ASSUME NEW d \in Conns, NEW p \in Objects, NEW strong \in SUBSET {th[t].obj, p}, Opens(t, d, p, strong)
      PROVE  ruse'[o] = Cardinality(T)
  <2>1. d \notin cList[o] /\ conn'[d].strong = strong
    BY <1>1, <1>8, FreshUnknown DEF Opens, Connects
  <2>2. \A c \in cList[o] : c # d /\ conn'[c] = conn[c]
    BY <1>2, <1>8, <2>1 DEF Opens, Connects, ConnTyped
  <2>3. CASE cList'[o] = cList[o] /\ ruse'[o] = ruse[o]
    <3>1. T = S
      BY <2>2, <2>3
    <3> QED BY <1>4, <2>3, <3>1
  <2>4. CASE cList'[o] = cList[o] \cup {d} /\ ruse'[o] = ruse[o] + IF o \in strong THEN 1 ELSE 0
    <3>1. CASE o \in strong
      <4>1. T = S \cup {d} /\ d \notin S
        BY <2>1, <2>2, <2>4, <3>1
      <4>2. ruse'[o] = ruse[o] + 1
        BY <2>4, <3>1
      <4> HIDE DEF S, T
      <4>3. Cardinality(T) = Cardinality(S) + 1
        BY <1>3, <4>1, FS_AddElement
      <4> QED BY <1>3, <4>1, <4>2, <4>3
    <3>2. CASE o \notin strong
      <4>1. T = S
        BY <2>1, <2>2, <2>4, <3>2
      <4>2. ruse'[o] = ruse[o] + 0
        BY <2>4, <3>2
      <4> HIDE DEF S, T
      <4> QED BY <1>3, <4>1, <4>2
    <3> QED BY <3>1, <3>2
  <2> QED BY <1>8, <2>3, <2>4 DEF Opens, Connects
<1>9. CASE (\E d \in Conns, p \in Objects : Follows(t, d, p)) \/ \E d \in Conns : Backs(t, d) \/ Cuts(t, d)
  BY <1>6, <1>9 DEF Follows, Backs, Cuts
<1> QED BY <1>1, <1>5, <1>7, <1>8, <1>9, ConnSteps

CInv == LInv /\ RuseCounts

LEMMA ConnInit == Init => CInv
<1> SUFFICES ASSUME Init PROVE CInv
  OBVIOUS
<1>1. MInv
  BY ShapeInit, MonitorInit DEF MInv
<1>2. DeletersGone /\ MakingAlone /\ RemovedHere
  BY IdleThread DEF Init, DeletersGone, MakingAlone, RemovedHere, Deleters, Making, Removing
<1>3. RuseCounts
  <2> SUFFICES ASSUME NEW o \in Objects
               PROVE  ruse[o] = Cardinality({c \in cList[o] : o \in conn[c].strong})
    BY DEF RuseCounts
  <2>1. ruse[o] = 0 /\ {c \in cList[o] : o \in conn[c].strong} = {}
    BY DEF Init
  <2> QED BY <2>1, FS_EmptySet
<1> QED BY <1>1, <1>2, <1>3 DEF CInv, LInv

LEMMA ConnNext == CInv /\ [Next]_vars => CInv'
<1> SUFFICES ASSUME CInv, [Next]_vars PROVE CInv'
  OBVIOUS
<1>1. CASE UNCHANGED vars
  <2>1. MInv'
    BY MonitorStep DEF CInv, LInv
  <2>2. DeletersGone' /\ MakingAlone' /\ RemovedHere'
    BY <1>1 DEF vars, CInv, LInv, DeletersGone, MakingAlone, RemovedHere, BaseOf
  <2>3. RuseCounts'
    BY <1>1 DEF vars, CInv, RuseCounts
  <2> QED BY <2>1, <2>2, <2>3 DEF CInv, LInv
<1>2. CASE Next
  <2>1. PICK t \in Threads : Acts(t)
    BY <1>2, StepOfNext DEF Acts
  <2> QED BY <2>1, LInvStep, CountStep DEF CInv
<1> QED BY <1>1, <1>2

LEMMA ConnInvariant == Spec => []CInv
BY ConnInit, ConnNext, PTL DEF Spec

\* ruse is at every moment the number of STRONG connections an object has
\* (comment of ruse): push_back and ++, xerase_prepare and --, never miss.
THEOREM StrongConnectionsCounted == Spec => []RuseCounts
<1>1. CInv => RuseCounts
  BY DEF CInv
<1> QED BY <1>1, ConnInvariant, PTL

\* Every variable keeps its type; ruse in particular never goes below zero.
THEOREM TypeCorrect == Spec => []TypeOK
<1>1. CInv => TypeOK
  <2> SUFFICES ASSUME CInv PROVE TypeOK
    OBVIOUS
  <2>1. Typed
    BY DEF CInv, LInv, MInv, Shape
  <2>2. \A o \in Objects : ruse[o] \in Nat
    <3> SUFFICES ASSUME NEW o \in Objects PROVE ruse[o] \in Nat
      OBVIOUS
    <3> DEFINE S == {c \in cList[o] : o \in conn[c].strong}
    <3>1. S \in SUBSET Conns
      BY <2>1 DEF Typed
    <3>2. IsFiniteSet(S)
      BY <3>1, FS_Subset, XObjectAssumption
    <3>3. ruse[o] = Cardinality(S)
      BY DEF CInv, RuseCounts
    <3> QED BY <3>2, <3>3, FS_CardinalityType
  <2>3. ruse \in [Objects -> Nat]
    BY <2>1, <2>2 DEF Typed
  <2> QED BY <2>1, <2>3 DEF Typed, TypeOK, Thread, Frame
<1> QED BY <1>1, ConnInvariant, PTL

-----------------------------------------------------------------------------
(* Protection, when no client prints: PRINTING is granted on a deleted      *)
(* object, and hides from addConnection that it is deleted.                 *)

NoPrinting == \A t \in Threads : th[t].op # "PRINTING"

\* Nothing strong holds object o.
Bare(o) == \A c \in cList[o] : o \notin conn[c].strong

\* del() has asked whether the object is busy, or has ended.
Doomed(o) == \/ xoStatus[o] = "DELETED"
             \/ \E t \in Threads : Dooming(th[t]) /\ th[t].obj = o

PInv == CInv /\ NoPrinting /\ \A o \in Objects : Doomed(o) => Bare(o)

LEMMA OpStep ==
  ASSUME Shape, NEW t \in Threads, Acts(t)
  PROVE  th'[t].op \in {th[t].op, "none", "SCANNING"} \cup Ops
<1>1. th \in [Threads -> Thread] /\ th[t] \in Thread
  BY DEF Shape, Typed
<1>2. CASE SetThisIter(t) \/ EnterOp(t) \/ WaitOp(t) \/ RefuseOp(t) \/ EndData(t)
  <2>1. CASE SetThisIter(t) \/ EnterOp(t)
    BY <1>1, <2>1 DEF SetThisIter, EnterOp, Goto, Thread
  <2>2. CASE WaitOp(t)
    BY <1>1, <2>2 DEF WaitOp, Delayed
  <2>3. CASE RefuseOp(t) \/ EndData(t)
    <3> DEFINE h == Head(th[t].frames).obj
    <3>1. th'[t] = Idle \/ th'[t] = [th[t] EXCEPT !.pc = "scanConns", !.obj = h]
      BY <1>1, <2>3 DEF RefuseOp, EndData
    <3> HIDE DEF h
    <3>2. Idle.op = "none"
      BY DEF Idle
    <3>3. [th[t] EXCEPT !.pc = "scanConns", !.obj = h].op = th[t].op
      BY <1>1 DEF Thread
    <3> QED BY <3>1, <3>2, <3>3
  <2> QED BY <1>2, <2>1, <2>2, <2>3
<1>3. CASE PeerMayConnect(t) \/ PeerSleep(t) \/ PeerRefuse(t) \/ PeerAdd(t) \/ Rollback(t) \/ PeerDelete(t)
  BY <1>1, <1>3 DEF PeerMayConnect, PeerSleep, PeerRefuse, PeerAdd, Rollback, PeerDelete, Return, Goto, Thread, Idle
<1>4. CASE AddOk(t) \/ OpFailed(t) \/ ModOk(t) \/ DelBusy(t) \/ DelNotBusy(t) \/ DelFailed(t) \/ DelOk(t) \/ DelDone(t)
  BY <1>1, <1>4 DEF AddOk, OpFailed, ModOk, DelBusy, DelNotBusy, DelFailed, DelOk, DelDone, Goto, Thread, Idle
<1>5. CASE \E c \in Conns : Disconnect(t, c)
  BY <1>1, <1>5 DEF Disconnect, Thread
<1>6. CASE Visit(t)
  BY <1>1, <1>6 DEF Visit, Thread
<1>7. CASE ScanReturn(t)
  <2> DEFINE rest == Tail(th[t].frames)
  <2>1. th'[t] = IF rest = << >> THEN Idle
                 ELSE [th[t] EXCEPT !.pc = "scanConns", !.obj = Head(rest).obj, !.frames = rest]
    BY <1>1, <1>7 DEF ScanReturn
  <2> HIDE DEF rest
  <2> QED BY <1>1, <2>1 DEF Thread, Idle
<1>8. CASE \E o \in Objects, op \in Ops : Find(t, o, op)
  BY <1>1, <1>8 DEF Find, Idle
<1>9. CASE \E c \in Conns, p \in Objects : \E strong \in SUBSET {th[t].obj, p} : Connect(t, c, p, strong)
  BY <1>1, <1>9 DEF Connect, Thread
<1>10. CASE \E c \in Conns : ScanPeer(t, c)
  BY <1>1, <1>10 DEF ScanPeer, Thread
<1>11. CASE \E o \in Objects, c \in Conns : DisconnectLoaded(t, o, c)
  BY <1>1, <1>11 DEF DisconnectLoaded, Idle
<1> QED BY <1>2, <1>3, <1>4, <1>5, <1>6, <1>7, <1>8, <1>9, <1>10, <1>11 DEF Acts, Finish, Choose

\* Then an object is deleted only when its status says so.
LEMMA GoneOnly ==
  ASSUME CInv, NoPrinting, NEW o \in Objects, xoStatus[o] # "DELETED"
  PROVE  /\ BaseOf(o) # "DELETED"
         /\ xoStatus[o] \in Operation => xoStatus_prev[o] # "DELETED"
<1>1. OneOperation /\ NotRevived
  BY DEF CInv, LInv, MInv, Monitor
<1>2. xoStatus[o] \in Base \cup Operation
  BY StatusSets DEF CInv, LInv, MInv, Shape, Typed
<1>3. CASE xoStatus[o] \in Operation
  <2>1. PICK t \in Threads : th[t].op = xoStatus[o]
    BY <1>1, <1>3 DEF OneOperation
  <2>2. xoStatus[o] # "PRINTING"
    BY <2>1 DEF NoPrinting
  <2> QED BY <1>1, <1>3, <2>2, StatusSets DEF NotRevived, BaseOf
<1> QED BY <1>2, <1>3, StatusSets DEF BaseOf

\* An object becomes doomed when nothing strong holds it.
LEMMA DoomedStep ==
  ASSUME CInv, NoPrinting, NEW t \in Threads, Acts(t), NEW o \in Objects, ~Doomed(o), Doomed(o)'
  PROVE  ruse[o] = 0 /\ UNCHANGED connVars
<1>1. Shape /\ Typed
  BY DEF CInv, LInv, MInv, Shape
<1>2. \A u \in Threads : u # t => th'[u] = th[u]
  BY <1>1, Others
<1>3. CASE Sleep(t)
  BY <1>3 DEF Sleep, Doomed
<1>4. ASSUME NEW new, Keep(t, new)
      PROVE  ruse[o] = 0 /\ UNCHANGED connVars
  <2>1. th'[t] = new /\ xoStatus' = xoStatus
    BY <1>1, <1>4, MoveFacts DEF Keep, statusVars
  <2>2. Dooming(new) => new.obj = th[t].obj
    BY <1>4 DEF Keep, Dooming, Held
  <2> QED BY <1>2, <1>4, <2>1, <2>2 DEF Keep, Doomed
<1>5. ASSUME NEW new, Take(t, new)
      PROVE  FALSE
  <2>1. th'[t] = new /\ new.pc \in {"body", "scanning"} /\ setStatus(th[t].obj, th[t].op)
    BY <1>1, <1>5, MoveFacts DEF Take, Granted
  <2>2. th[t].obj \in Objects /\ th[t].op \in Operation
    BY <1>1, <1>5 DEF Take, Shape, Control, Placed
  <2>3. th[t].op # "DELETED"
    BY <2>2 DEF Operation
  <2>4. xoStatus'[o] # "DELETED"
    BY <1>1, <2>1, <2>2, <2>3, StatusSet DEF Doomed
  <2> QED BY <1>2, <2>1, <2>4 DEF Doomed, Dooming
<1>6. ASSUME NEW new, NEW s, Give(t, new, s)
      PROVE  FALSE
  <2>1. th'[t] = new /\ new.pc \notin Held /\ setStatus(th[t].obj, s) /\ th[t].pc \in Held
    BY <1>1, <1>6, MoveFacts DEF Give
  <2>2. th[t].obj \in Objects /\ xoStatus[th[t].obj] \in Operation
    BY <1>1, <2>1, HolderFacts DEF CInv, LInv, MInv, Monitor
  <2>3. xoStatus[th[t].obj] # "DELETED"
    BY <2>2 DEF Operation
  <2>4. xoStatus_prev[th[t].obj] # "DELETED"
    BY <2>2, <2>3, GoneOnly
  <2>5. CASE th[t].obj = o
    <3>1. ~(th[t].pc = "deleting" /\ th[t].op = "DELETING")
      BY <2>5 DEF Doomed, Dooming
    <3>2. s # "DELETED"
      BY <1>6, <2>4, <3>1 DEF Give
    <3>3. xoStatus'[o] # "DELETED"
      BY <1>1, <2>1, <2>5, <3>2, StatusSet
    <3> QED BY <1>2, <2>1, <3>3 DEF Doomed, Dooming, Held
  <2>6. CASE th[t].obj # o
    <3>1. xoStatus'[o] = xoStatus[o]
      BY <1>1, <2>1, <2>2, <2>6, StatusSet
    <3> QED BY <1>2, <2>1, <3>1 DEF Doomed, Dooming, Held
  <2> QED BY <2>5, <2>6
<1> QED BY <1>1, <1>3, <1>4, <1>5, <1>6, Kinds DEF Acts

\* A doomed object gets no connection.
LEMMA DoomedKeeps ==
  ASSUME LInv, NEW t \in Threads, Acts(t), NEW o \in Objects, Doomed(o)
  PROVE  \A c \in cList'[o] : c \in cList[o] /\ conn'[c] = conn[c]
<1>1. Shape /\ MakingAlone /\ OneOperation
  BY DEF LInv, MInv, Monitor
<1>2. ConnTyped /\ ConnTyped'
  BY <1>1, Others
<1>3. CASE Still(t)
  BY <1>3 DEF Still, connVars
<1>4. ASSUME NEW d \in Conns, NEW q, Drops(d, q), UNCHANGED conn
      PROVE  \A c \in cList'[o] : c \in cList[o] /\ conn'[c] = conn[c]
  BY <1>4 DEF Drops
<1>5. ASSUME NEW d \in Conns, NEW p \in Objects, NEW strong \in SUBSET {th[t].obj, p}, Opens(t, d, p, strong)
      PROVE  \A c \in cList'[o] : c \in cList[o] /\ conn'[c] = conn[c]
  <2>1. th[t].pc \in Held /\ th[t].op \in {"ADDING", "MODIFYING", "SCANNING"}
    BY <1>5 DEF Opens, Held, Connecting
  <2>2. xoStatus[th[t].obj] = th[t].op /\ \A u \in Threads : u # t => ~Holding(u, th[t].obj)
    BY <1>1, <2>1, HolderFacts
  <2>3. th[t].obj # o
    BY <2>1, <2>2, HoldingFacts DEF Doomed, Dooming, Held
  <2>4. cList'[o] = cList[o] /\ d \notin cList[o] /\ \A c \in Conns : c # d => conn'[c] = conn[c]
    BY <1>1, <1>5, <2>3, FreshUnknown DEF Opens, Connects
  <2> QED BY <1>2, <2>4 DEF ConnTyped
<1>6. ASSUME NEW d \in Conns, NEW p \in Objects, Joins(t, d, p)
      PROVE  \A c \in cList'[o] : c \in cList[o] /\ conn'[c] = conn[c]
  <2>1. xoStatus[p] \notin {"DELETING", "DELETED"}
    BY <1>6 DEF Joins
  <2>2. \A u \in Threads : Dooming(th[u]) => xoStatus[th[u].obj] = "DELETING"
    BY <1>1, HolderFacts DEF Held, Dooming
  <2>3. p # o
    BY <2>1, <2>2 DEF Doomed
  <2> QED BY <1>6, <2>3 DEF Joins, Adds
<1>7. CASE (\E d \in Conns, p \in Objects : Follows(t, d, p)) \/ \E d \in Conns : Backs(t, d) \/ Cuts(t, d)
  BY <1>4, <1>7 DEF Follows, Backs, Cuts
<1> QED BY <1>1, <1>3, <1>5, <1>6, <1>7, ConnSteps

LEMMA NothingStrong ==
  ASSUME CInv, NEW o \in Objects, ruse[o] = 0
  PROVE  Bare(o)
<1> DEFINE S == {c \in cList[o] : o \in conn[c].strong}
<1>1. S \in SUBSET Conns
  BY DEF CInv, LInv, MInv, Shape, Typed
<1>2. IsFiniteSet(S)
  BY <1>1, FS_Subset, XObjectAssumption
<1>3. Cardinality(S) = 0
  BY DEF CInv, RuseCounts
<1>4. S = {}
  BY <1>2, <1>3, FS_EmptySet
<1> QED BY <1>4 DEF Bare

LEMMA ProtectStep ==
  ASSUME "PRINTING" \notin Ops, PInv, [Next]_vars
  PROVE  PInv'
<1>1. CInv /\ CInv'
  BY ConnNext DEF PInv
<1>2. CASE UNCHANGED vars
  BY <1>1, <1>2 DEF vars, PInv, NoPrinting, Doomed, Bare
<1>3. CASE Next
  <2>1. PICK t \in Threads : Acts(t)
    BY <1>3, StepOfNext DEF Acts
  <2>2. Shape /\ LInv
    BY <1>1 DEF CInv, LInv, MInv
  <2>3. NoPrinting'
    <3>1. th'[t].op # "PRINTING"
      BY <2>1, <2>2, OpStep DEF PInv, NoPrinting
    <3> QED BY <2>1, <2>2, <3>1, Others DEF PInv, NoPrinting
  <2>4. ASSUME NEW o \in Objects, Doomed(o)'
        PROVE  Bare(o)'
    <3>1. CASE Doomed(o)
      BY <2>1, <2>2, <3>1, DoomedKeeps DEF PInv, Bare
    <3>2. CASE ~Doomed(o)
      <4>1. ruse[o] = 0 /\ UNCHANGED connVars
        BY <1>1, <2>1, <2>4, <3>2, DoomedStep DEF PInv
      <4> QED BY <1>1, <4>1, NothingStrong DEF Bare, connVars
    <3> QED BY <3>1, <3>2
  <2> QED BY <1>1, <2>3, <2>4 DEF PInv
<1> QED BY <1>2, <1>3 DEF vars

LEMMA ProtectInit == Init => PInv
BY ConnInit DEF Init, PInv, NoPrinting, Idle, Doomed, Bare

\* STRONG: "this side can't be deleted before disconnecting from other side".
\* del() asks ruse once and then runs _del(): until it ends, DELETING keeps
\* every connect() of another object waiting, unless a client prints.
THEOREM StrongConnectionsProtect ==
  ASSUME "PRINTING" \notin Ops
  PROVE  Spec => []StrongProtects
<1>1. PInv => StrongProtects
  BY GoneOnly DEF PInv, StrongProtects, Doomed, Bare
<1>2. PInv /\ [Next]_vars => PInv'
  BY ProtectStep
<1> QED BY <1>1, <1>2, ProtectInit, PTL DEF Spec

-----------------------------------------------------------------------------
(* Symmetry, when connect() never fails on its own side: it does not look   *)
(* at that answer.                                                          *)

\* A connection in the making is on the side it starts from.
MakingHalf == \A t \in Threads, c \in Conns :
  th[t].pc \in Making /\ th[t].conn = c => c \in cList[conn[c].from]

\* No thread makes or removes connection c.
Settled(c) == conn[c] # NoConn /\ \A t \in Threads : th[t].pc \in Linking => th[t].conn # c

Symmetric == \A c \in Conns : Settled(c) => (c \in cList[conn[c].from] <=> c \in cList[conn[c].to])

SInv == CInv /\ MakingHalf /\ Symmetric

LEMMA MakingHalfStep ==
  ASSUME OwnAnswers \subseteq {TRUE}, SInv, NEW t \in Threads, Acts(t)
  PROVE  MakingHalf'
<1>1. LInv /\ Shape /\ MakingAlone /\ MakingHalf
  BY DEF SInv, CInv, LInv, MInv
<1>2. \A u \in Threads : u # t => th'[u] = th[u]
  BY <1>1, Others
<1> SUFFICES ASSUME NEW u \in Threads, NEW c \in Conns, th'[u].pc \in Making, th'[u].conn = c
             PROVE  c \in cList'[conn'[c].from]
  BY DEF MakingHalf
<1>3. CASE u # t
  <2>1. th[u].pc \in Making /\ th[u].conn = c
    BY <1>2, <1>3
  <2>2. Made(c) /\ c \in cList[conn[c].from]
    BY <1>1, <2>1 DEF Shape, Known, Linking, MakingHalf
  <2> QED BY <1>1, <1>3, <2>1, <2>2, Untouched DEF Made
<1>4. CASE u = t /\ Still(t)
  BY <1>1, <1>4 DEF Still, connVars, MakingHalf, Linking
<1>5. ASSUME u = t, NEW d \in Conns, NEW p \in Objects, NEW strong \in SUBSET {th[t].obj, p}, Opens(t, d, p, strong)
      PROVE  c \in cList'[conn'[c].from]
  <2>1. FALSE \notin OwnAnswers
    OBVIOUS
  <2>2. d = c /\ conn'[c].from = th[t].obj
    BY <1>5 DEF Opens, Connects
  <2>3. cList'[th[t].obj] = cList[th[t].obj] \cup {d}
    BY <1>5, <2>1 DEF Opens, Connects
  <2> QED BY <2>2, <2>3
<1>6. CASE u = t /\ ((\E d \in Conns, p \in Objects : Joins(t, d, p) \/ Follows(t, d, p)) \/ \E d \in Conns : Backs(t, d) \/ Cuts(t, d))
  BY <1>6 DEF Joins, Follows, Backs, Cuts, Linking, Making, Removing
<1> QED BY <1>1, <1>3, <1>4, <1>5, <1>6, ConnSteps

LEMMA SymmetricStep ==
  ASSUME SInv, NEW t \in Threads, Acts(t)
  PROVE  Symmetric'
<1>1. LInv /\ Shape /\ MakingAlone /\ MakingHalf /\ RemovedHere /\ Symmetric
  BY DEF SInv, CInv, LInv, MInv
<1>2. \A u \in Threads : u # t => th'[u] = th[u]
  BY <1>1, Others
<1>3. ConnTyped /\ ConnTyped'
  BY <1>1, Others
<1>4. \A u \in Threads : th[u].pc \in Linking => Made(th[u].conn)
  BY <1>1, LinkEnds
<1> SUFFICES ASSUME NEW c \in Conns, Settled(c)'
             PROVE  c \in cList'[conn'[c].from] <=> c \in cList'[conn'[c].to]
  BY DEF Symmetric
<1>5. th'[t].pc \in Linking => th'[t].conn # c
  BY DEF Settled
<1>6. ASSUME conn'[c] = conn[c], \A o \in Objects : c \in cList'[o] <=> c \in cList[o],
             th[t].pc \in Linking => th[t].conn # c
      PROVE  c \in cList'[conn'[c].from] <=> c \in cList'[conn'[c].to]
  <2>1. Settled(c)
    BY <1>2, <1>6 DEF Settled
  <2>2. conn[c].from \in Objects /\ conn[c].to \in Objects
    BY <1>1, <2>1 DEF Settled, Shape, Known, Made
  <2> QED BY <1>1, <1>6, <2>1, <2>2 DEF Symmetric
<1>7. CASE Still(t)
  <2>1. th[t].pc \in Linking => th[t].conn # c
    BY <1>5, <1>7 DEF Still, Linking
  <2> QED BY <1>6, <1>7, <2>1 DEF Still, connVars
<1>8. ASSUME NEW d \in Conns, NEW p \in Objects, NEW strong \in SUBSET {th[t].obj, p}, Opens(t, d, p, strong)
      PROVE  c \in cList'[conn'[c].from] <=> c \in cList'[conn'[c].to]
  <2>1. d # c /\ th[t].pc \notin Linking
    BY <1>5, <1>8 DEF Opens, Linking, Making, Removing
  <2>2. conn'[c] = conn[c] /\ \A o \in Objects : c \in cList'[o] <=> c \in cList[o]
    BY <1>8, <2>1 DEF Opens, Connects
  <2> QED BY <1>6, <2>1, <2>2
<1>9. ASSUME NEW d \in Conns, d # c, NEW q, Adds(d, q) \/ Drops(d, q), UNCHANGED conn,
             th[t].pc \in Linking => th[t].conn = d
      PROVE  c \in cList'[conn'[c].from] <=> c \in cList'[conn'[c].to]
  <2>1. \A o \in Objects : c \in cList'[o] <=> c \in cList[o]
    <3> TAKE o \in Objects
    <3>1. Adds(d, q) => cList'[o] \in {cList[o], cList[o] \cup {d}}
      BY DEF Adds
    <3>2. Drops(d, q) => cList'[o] \in {cList[o], cList[o] \ {d}}
      BY DEF Drops
    <3>3. d # c /\ cList'[o] \in {cList[o], cList[o] \cup {d}, cList[o] \ {d}}
      BY <1>9, <3>1, <3>2
    <3> QED BY <3>3
  <2> QED BY <1>6, <1>9, <2>1
<1>10. ASSUME NEW p \in Objects, Joins(t, c, p)
       PROVE  c \in cList'[conn'[c].from] <=> c \in cList'[conn'[c].to]
  <2>1. Made(c) /\ c \in cList[conn[c].from] /\ p = conn[c].to /\ UNCHANGED conn
    BY <1>1, <1>4, <1>10 DEF Joins, MakingHalf, Linking
  <2> QED BY <1>10, <2>1 DEF Joins, Adds, Made
<1>11. ASSUME Backs(t, c)
       PROVE  c \in cList'[conn'[c].from] <=> c \in cList'[conn'[c].to]
  <2>1. Made(c) /\ c \notin cList[conn[c].to] /\ th[t].obj = conn[c].from /\ UNCHANGED conn
    BY <1>1, <1>4, <1>11 DEF Backs, MakingAlone, Linking
  <2> QED BY <1>11, <2>1 DEF Backs, Drops, Made
<1>12. ASSUME NEW p \in Objects, Follows(t, c, p)
       PROVE  c \in cList'[conn'[c].from] <=> c \in cList'[conn'[c].to]
  <2>1. Made(c) /\ c \notin cList[th[t].obj] /\ {th[t].obj, p} = {conn[c].from, conn[c].to} /\ UNCHANGED conn
    BY <1>1, <1>4, <1>12 DEF Follows, RemovedHere, Linking
  <2>2. c \notin cList'[p] /\ c \notin cList'[th[t].obj]
    <3>1. p \in Objects /\ th[t].obj \in Objects
      BY <2>1 DEF Made
    <3> QED BY <1>12, <2>1, <3>1 DEF Follows, Drops
  <2> QED BY <2>1, <2>2
<1>13. ASSUME NEW d \in Conns, NEW p \in Objects, Joins(t, d, p) \/ Follows(t, d, p)
       PROVE  c \in cList'[conn'[c].from] <=> c \in cList'[conn'[c].to]
  <2>1. UNCHANGED conn /\ th[t].conn = d /\ (Adds(d, p) \/ Drops(d, p))
    BY <1>13 DEF Joins, Follows
  <2> QED BY <1>9, <1>10, <1>12, <1>13, <2>1
<1>14. ASSUME NEW d \in Conns, Backs(t, d) \/ Cuts(t, d)
       PROVE  c \in cList'[conn'[c].from] <=> c \in cList'[conn'[c].to]
  <2>1. UNCHANGED conn /\ (th[t].pc \in Linking => th[t].conn = d) /\ \E q : Drops(d, q)
    BY <1>14 DEF Backs, Cuts, Linking, Making, Removing
  <2>2. Cuts(t, d) => d # c
    BY <1>5 DEF Cuts, Linking
  <2> QED BY <1>9, <1>11, <1>14, <2>1, <2>2
<1> QED BY <1>1, <1>7, <1>8, <1>13, <1>14, ConnSteps

LEMMA SymInit == Init => SInv
BY ConnInit, IdleThread DEF Init, SInv, MakingHalf, Symmetric, Settled, Making

LEMMA SymNext ==
  ASSUME OwnAnswers \subseteq {TRUE}, SInv, [Next]_vars
  PROVE  SInv'
<1>1. CInv'
  BY ConnNext DEF SInv
<1>2. CASE UNCHANGED vars
  BY <1>1, <1>2 DEF vars, SInv, MakingHalf, Symmetric, Settled
<1>3. CASE Next
  <2>1. PICK t \in Threads : Acts(t)
    BY <1>3, StepOfNext DEF Acts
  <2> QED BY <1>1, <2>1, MakingHalfStep, SymmetricStep DEF SInv
<1> QED BY <1>2, <1>3

\* "Each connection is bidirectional": whatever connect(), its rollback, two
\* disconnect() of the same connection and del() do together, once no thread
\* works on a connection both sides have it or neither has.
THEOREM ConnectionsBidirectional ==
  ASSUME OwnAnswers \subseteq {TRUE}
  PROVE  Spec => []ConnectionSymmetric
<1>1. SInv => ConnectionSymmetric
  <2> SUFFICES ASSUME SInv, NEW c \in Conns, conn[c] # NoConn, \A t \in Threads : th[t].conn # c
               PROVE  c \in cList[conn[c].from] <=> c \in cList[conn[c].to]
    BY DEF ConnectionSymmetric
  <2> QED BY DEF SInv, Symmetric, Settled
<1>2. SInv /\ [Next]_vars => SInv'
  BY SymNext
<1> QED BY <1>1, <1>2, SymInit, PTL DEF Spec

-----------------------------------------------------------------------------
(* Isolation of deleted objects, under both assumptions.                    *)

\* del() goes on until no connection is left.
LEMMA DeleterStep ==
  ASSUME Shape, NEW t \in Threads, Acts(t), th[t].pc \in Deleters
  PROVE  DelDone(t) \/ (\E c \in Conns : Disconnect(t, c)) \/ PeerDelete(t)
<1>1. th[t].pc \in {"disconnectAll", "peerDelAll"}
  BY DEF Deleters
<1>2. ~(SetThisIter(t) \/ EnterOp(t) \/ WaitOp(t) \/ RefuseOp(t) \/ EndData(t))
  BY <1>1 DEF SetThisIter, EnterOp, WaitOp, RefuseOp, EndData
<1>3. ~(PeerMayConnect(t) \/ PeerSleep(t) \/ PeerRefuse(t) \/ PeerAdd(t) \/ Rollback(t))
  BY <1>1 DEF PeerMayConnect, PeerSleep, PeerRefuse, PeerAdd, Rollback
<1>4. ~(AddOk(t) \/ OpFailed(t) \/ ModOk(t) \/ Visit(t) \/ ScanReturn(t))
  BY <1>1 DEF AddOk, OpFailed, ModOk, Visit, ScanReturn
<1>5. ~(DelBusy(t) \/ DelNotBusy(t) \/ DelFailed(t) \/ DelOk(t))
  BY <1>1 DEF DelBusy, DelNotBusy, DelFailed, DelOk
<1>6. th[t].pc # "idle"
  BY <1>1
<1>7. ~\E o \in Objects, op \in Ops : Find(t, o, op)
  BY <1>6, IdleThread DEF Find
<1>8. \A c \in Conns : ~ScanPeer(t, c) /\ \A p \in Objects : \A strong \in SUBSET {th[t].obj, p} : ~Connect(t, c, p, strong)
  BY <1>1 DEF ScanPeer, Connect, Inside, BodyOf
<1>9. ~\E o \in Objects, c \in Conns : DisconnectLoaded(t, o, c)
  BY <1>6, IdleThread DEF DisconnectLoaded
<1> QED BY <1>2, <1>3, <1>4, <1>5, <1>7, <1>8, <1>9 DEF Acts, Finish, Choose

\* A thread stops removing connections when the object has none.
LEMMA DeleterEnds ==
  ASSUME Shape, NEW t \in Threads, Acts(t), th[t].pc \in Deleters, th'[t].pc \notin Deleters \/ th'[t].obj # th[t].obj
  PROVE  cList'[th[t].obj] = {}
<1>1. CASE DelDone(t)
  BY <1>1 DEF DelDone, connVars
<1>2. ASSUME NEW c \in Conns, Disconnect(t, c)
      PROVE  FALSE
  <2>1. PICK new : Moves(t, new) /\ new.obj = th[t].obj /\ new.pc = "peerDelAll"
    BY <1>2, DisconnectStep DEF Keep, Deleters
  <2>2. th'[t] = new
    BY <2>1, MoveFacts DEF Shape
  <2> QED BY <2>1, <2>2 DEF Deleters
<1>3. CASE PeerDelete(t)
  <2>1. PICK new : Moves(t, new) /\ new.obj = th[t].obj /\ new.pc = "disconnectAll"
    BY <1>3, PeerDeleteStep DEF Keep, PeerDelete, Deleters
  <2>2. th'[t] = new
    BY <2>1, MoveFacts DEF Shape
  <2> QED BY <2>1, <2>2 DEF Deleters
<1> QED BY <1>1, <1>2, <1>3, DeleterStep

\* del() has taken every connection from a deleted object.
Emptied == \A o \in Objects :
  xoStatus[o] = "DELETED" /\ (\A t \in Threads : th[t].obj = o => th[t].pc \notin Deleters) => cList[o] = {}

EInv == PInv /\ SInv /\ Emptied

\* An object becomes DELETED by a thread that then removes its connections.
LEMMA DeletedStep ==
  ASSUME PInv, NEW t \in Threads, Acts(t), NEW o \in Objects, xoStatus[o] # "DELETED", xoStatus'[o] = "DELETED"
  PROVE  th'[t].obj = o /\ th'[t].pc \in Deleters
<1>1. Shape /\ Typed /\ OneOperation
  BY DEF PInv, CInv, LInv, MInv, Shape, Monitor
<1>2. ~Sleep(t)
  BY DEF Sleep
<1>3. ASSUME NEW new, Keep(t, new)
      PROVE  FALSE
  BY <1>3 DEF Keep, statusVars
<1>4. ASSUME NEW new, Take(t, new)
      PROVE  FALSE
  <2>1. setStatus(th[t].obj, th[t].op) /\ th[t].obj \in Objects /\ th[t].op \in Operation
    BY <1>1, <1>4 DEF Take, Granted, Shape, Control, Placed
  <2> QED BY <1>1, <2>1, StatusSet DEF Operation
<1>5. ASSUME NEW new, NEW s, Give(t, new, s)
      PROVE  th'[t].obj = o /\ th'[t].pc \in Deleters
  <2>1. setStatus(th[t].obj, s) /\ th[t].pc \in Held /\ th'[t] = new
    BY <1>1, <1>5, MoveFacts DEF Give
  <2>2. th[t].obj \in Objects /\ xoStatus[th[t].obj] \in Operation
    BY <1>1, <2>1, HolderFacts
  <2>3. th[t].obj = o /\ s = "DELETED"
    BY <1>1, <2>1, <2>2, StatusSet
  <2>4. xoStatus_prev[o] # "DELETED"
    BY <2>2, <2>3, GoneOnly DEF PInv
  <2> QED BY <1>5, <2>1, <2>3, <2>4 DEF Give
<1> QED BY <1>1, <1>2, <1>3, <1>4, <1>5, Kinds DEF Acts

LEMMA EmptiedStep ==
  ASSUME EInv, NEW t \in Threads, Acts(t)
  PROVE  Emptied'
<1>1. Shape /\ LInv /\ PInv
  BY DEF EInv, PInv, CInv, LInv, MInv
<1>2. \A u \in Threads : u # t => th'[u] = th[u]
  BY <1>1, Others
<1> SUFFICES ASSUME NEW o \in Objects, xoStatus'[o] = "DELETED",
                    \A u \in Threads : th'[u].obj = o => th'[u].pc \notin Deleters
             PROVE  cList'[o] = {}
  BY DEF Emptied
<1>3. xoStatus[o] = "DELETED"
  BY <1>1, DeletedStep
<1>4. CASE th[t].obj = o /\ th[t].pc \in Deleters
  BY <1>1, <1>4, DeleterEnds
<1>5. CASE ~(th[t].obj = o /\ th[t].pc \in Deleters)
  <2>1. cList[o] = {}
    BY <1>2, <1>3, <1>5 DEF EInv, Emptied
  <2>2. \A c \in cList'[o] : c \in cList[o]
    BY <1>1, <1>3, DoomedKeeps DEF Doomed
  <2> QED BY <2>1, <2>2
<1> QED BY <1>4, <1>5

LEMMA EmptyNext ==
  ASSUME "PRINTING" \notin Ops, OwnAnswers \subseteq {TRUE}, EInv, [Next]_vars
  PROVE  EInv'
<1>1. PInv' /\ SInv'
  BY ProtectStep, SymNext DEF EInv
<1>2. CASE UNCHANGED vars
  BY <1>1, <1>2 DEF vars, EInv, Emptied
<1>3. CASE Next
  <2>1. PICK t \in Threads : Acts(t)
    BY <1>3, StepOfNext DEF Acts
  <2> QED BY <1>1, <2>1, EmptiedStep DEF EInv
<1> QED BY <1>2, <1>3

LEMMA EmptyInit == Init => EInv
BY ProtectInit, SymInit DEF Init, EInv, Emptied

\* When del() has returned, nothing leads to the object or away from it, but a
\* connection some thread is just removing.
THEOREM DeletedObjectsIsolated ==
  ASSUME "PRINTING" \notin Ops, OwnAnswers \subseteq {TRUE}
  PROVE  Spec => []DeletedIsolated
<1>1. EInv => DeletedIsolated
  <2> SUFFICES ASSUME EInv, NEW o \in Objects, BaseOf(o) = "DELETED",
                      \A t \in Threads : th[t].obj = o => th[t].pc \notin Deleters
               PROVE  /\ cList[o] = {}
                      /\ \A p \in Objects, c \in Conns :
                           c \in cList[p] /\ Peer(c, p) = o => \E t \in Threads : th[t].conn = c
    BY DEF DeletedIsolated, Deleters
  <2>1. cList[o] = {}
    BY GoneOnly DEF EInv, PInv, Emptied
  <2>2. ASSUME NEW p \in Objects, NEW c \in Conns, c \in cList[p], Peer(c, p) = o,
               \A t \in Threads : th[t].conn # c
        PROVE  FALSE
    <3>1. Made(c) /\ p \in {conn[c].from, conn[c].to}
      BY <2>2 DEF EInv, SInv, CInv, LInv, MInv, Shape, Known
    <3>2. conn[c] # NoConn
      BY <2>2, FreshUnknown DEF EInv, SInv, CInv, LInv, MInv
    <3>3. c \in cList[conn[c].from] /\ c \in cList[conn[c].to]
      BY <2>2, <3>1, <3>2 DEF EInv, SInv, Symmetric, Settled
    <3> QED BY <2>1, <2>2, <3>1, <3>3 DEF Peer
  <2> QED BY <2>1, <2>2
<1>2. EInv /\ [Next]_vars => EInv'
  BY EmptyNext
<1> QED BY <1>1, <1>2, EmptyInit, PTL DEF Spec
=============================================================================
