------------------------------ MODULE XObject ------------------------------
(***************************************************************************)
(* pparam::XObject (include/xobject.hpp 336-1214): the operations several  *)
(* threads run on connected objects.  Every operation first takes the      *)
(* object into its own status (chStatus), which the transition table       *)
(* grants, delays or refuses, and gives the status back at the end.  An    *)
(* object keeps its connections to other objects in cList; a STRONG one    *)
(* counts in ruse and keeps the object from being deleted.                 *)
(*                                                                         *)
(* Granularity: one action per section under obj_status_lock, and one per  *)
(* read of shared state outside it.  cList itself is module XList: adding  *)
(* a connection and xerase_prepare are single steps here, and the          *)
(* background xerase only frees what nobody can reach.                     *)
(***************************************************************************)
EXTENDS XObjectStatus, Integers, Sequences, FiniteSets

CONSTANTS Threads, Objects,
          Conns,       \* bound: connections ever made
          MaxDepth,    \* bound: nesting of scan()
          OwnAnswers,  \* what mayConnect of the connecting object can answer
          Ops          \* the operations clients start

ASSUME XObjectAssumption ==
  /\ IsFiniteSet(Conns)
  /\ MaxDepth \in Nat \ {0}
  /\ OwnAnswers \subseteq BOOLEAN
  /\ Ops \subseteq Operation

VARIABLES
  xoStatus, xoStatus_prev,
  asleep,     \* threads in pthread_cond_wait on an object's obj_status_cond
  cList,      \* the connections each object has
  ruse,
  this_iter,  \* does the object hold an iterator on itself?
  conn,       \* the attributes of each connection
  th          \* what each thread is doing

vars == <<xoStatus, xoStatus_prev, asleep, cList, ruse, this_iter, conn, th>>
statusVars == <<xoStatus, xoStatus_prev, asleep>>
connVars   == <<cList, ruse, conn>>

(* A thread: the operation (its status), the object it is on, the step, the *)
(* connection being made or removed, and the frames of nested scans.        *)
Idle == [pc |-> "idle", op |-> "none", obj |-> "none", conn |-> "none", frames |-> << >>]

NoConn == [from |-> "none", to |-> "none", strong |-> {}]

Init ==
  /\ xoStatus = [o \in Objects |-> "LOADED"]
  /\ xoStatus_prev = [o \in Objects |-> "LOADED"]
  /\ asleep = {}
  /\ cList = [o \in Objects |-> {}]
  /\ ruse = [o \in Objects |-> 0]
  /\ this_iter = [o \in Objects |-> FALSE]
  /\ conn = [c \in Conns |-> NoConn]
  /\ th = [t \in Threads |-> Idle]

-----------------------------------------------------------------------------
(* The status monitor.                                                      *)

Goto(t, pc) == th' = [th EXCEPT ![t].pc = pc]

\* Threads that wait on the condition variable of object o.
WaitsOn(t) == IF th[t].pc = "peerWait" THEN
                IF th[t].obj = conn[th[t].conn].from THEN conn[th[t].conn].to
                                                     ELSE conn[th[t].conn].from
              ELSE th[t].obj

\* Mutant of setStatus: pthread_cond_broadcast is forgotten.
setStatusSilent(o, s) ==
  /\ xoStatus_prev' = [xoStatus_prev EXCEPT ![o] = xoStatus[o]]
  /\ xoStatus' = [xoStatus EXCEPT ![o] = s]
  /\ UNCHANGED asleep

\* setStatus: remember the old status, set the new one, wake every waiter.
setStatus(o, s) ==
  /\ xoStatus_prev' = [xoStatus_prev EXCEPT ![o] = xoStatus[o]]
  /\ xoStatus' = [xoStatus EXCEPT ![o] = s]
  /\ asleep' = {t \in asleep : WaitsOn(t) # o}

\* Mutant of bkStatus: every operation ends in NORMAL.
bkToNormal(o) == setStatus(o, "NORMAL")

bkStatus(o) == setStatus(o, xoStatus_prev[o])

\* Mutant of Granted: an operation that should wait goes on.
GrantedAtOnce(t) == /\ t \notin asleep
                    /\ canTransit(xoStatus[th[t].obj], th[t].op) # "NONE"
                    /\ setStatus(th[t].obj, th[t].op)

\* chStatus(op): a pass of its loop.  A thread woken by the broadcast looks again.
Granted(t) == /\ t \notin asleep
              /\ canTransit(xoStatus[th[t].obj], th[t].op) = "DIRECT"
              /\ setStatus(th[t].obj, th[t].op)
Delayed(t) == /\ t \notin asleep
              /\ canTransit(xoStatus[th[t].obj], th[t].op) = "WAIT"
              /\ asleep' = asleep \cup {t}
              /\ UNCHANGED <<xoStatus, xoStatus_prev, th>>
Refused(t) == /\ t \notin asleep
              /\ canTransit(xoStatus[th[t].obj], th[t].op) = "NONE"
              /\ UNCHANGED statusVars

-----------------------------------------------------------------------------
(* Starting an operation.  A client has found the object in its list, maybe *)
(* before it was deleted; and a deletion that threw NOK leaves it there.    *)

Find(t, o, op) ==
  /\ th[t] = Idle
  /\ th' = [th EXCEPT ![t] = [Idle EXCEPT !.pc = IF op = "ADDING" THEN "found" ELSE "chStatus",
                                          !.op = op, !.obj = o]]
  /\ UNCHANGED <<statusVars, connVars, this_iter>>

\* XObjectList::_add stores the object's own iterator, then calls add().
SetThisIter(t) ==
  /\ th[t].pc = "found"
  /\ this_iter' = [this_iter EXCEPT ![th[t].obj] = TRUE]
  /\ Goto(t, "chStatus")
  /\ UNCHANGED <<statusVars, connVars>>

BodyOf(op) == IF op = "SCANNING" THEN "scanning" ELSE "body"

EnterOp(t) ==
  /\ th[t].pc = "chStatus"
  /\ Granted(t)
  /\ Goto(t, BodyOf(th[t].op))
  /\ UNCHANGED <<connVars, this_iter>>

WaitOp(t) ==
  /\ th[t].pc = "chStatus"
  /\ Delayed(t)
  /\ UNCHANGED <<connVars, this_iter>>

\* The operation throws, returns false or (scan) goes on with the next object.
RefuseOp(t) ==
  /\ th[t].pc = "chStatus"
  /\ Refused(t)
  /\ th' = [th EXCEPT ![t] = IF Len(@.frames) = 0 THEN Idle
                             ELSE [@ EXCEPT !.pc = "scanConns",
                                            !.obj = Head(th[t].frames).obj]]
  /\ UNCHANGED <<connVars, this_iter>>

\* RELOADING, QUERYING and PRINTING only read or assign data in between.
EndData(t) ==
  /\ th[t].pc = "body"
  /\ th[t].op \in {"RELOADING", "QUERYING", "PRINTING"}
  /\ bkStatus(th[t].obj)
  /\ th' = [th EXCEPT ![t] = Idle]
  /\ UNCHANGED <<connVars, this_iter>>

-----------------------------------------------------------------------------
(* Connections.                                                             *)

Peer(c, o) == IF conn[c].from = o THEN conn[c].to ELSE conn[c].from
Weight(c, o) == IF o \in conn[c].strong THEN 1 ELSE 0

\* Mutant of Attach: WEAK connections are counted too.
AttachCounted(c, o) ==
  /\ cList' = [cList EXCEPT ![o] = @ \cup {c}]
  /\ ruse' = [ruse EXCEPT ![o] = @ + 1]

\* addConnection under the status lock: push_back, ++ruse if STRONG.
Attach(c, o) ==
  /\ cList' = [cList EXCEPT ![o] = @ \cup {c}]
  /\ ruse' = [ruse EXCEPT ![o] = @ + Weight(c, o)]

\* Mutant of Detach: xdelConnection_prepare ignores erasing()'s answer.
DetachTwice(c, o) ==
  /\ cList' = [cList EXCEPT ![o] = @ \ {c}]
  /\ ruse' = [ruse EXCEPT ![o] = @ - Weight(c, o)]

\* xdelConnection_prepare under the status lock; when the connection is
\* already being removed, xerase_prepare returns false and nothing changes.
Detach(c, o) ==
  /\ cList' = [cList EXCEPT ![o] = @ \ {c}]
  /\ ruse' = [ruse EXCEPT ![o] = IF c \in cList[o] THEN @ - Weight(c, o) ELSE @]

\* What the client's code runs under the status of an operation: _add(),
\* _mod(), and notify() while the object is visited.
Inside(t, op) == th[t].op = op /\ th[t].pc = BodyOf(op)

Return(t) == th' = [th EXCEPT ![t].pc = IF th[t].op = "DELETING" THEN "deleting" ELSE BodyOf(th[t].op),
                              ![t].conn = "none"]

\* connect(), called from _add(), _mod() or notify(): addConnection(toc) on
\* this object.  Its answer is ignored, also when mayConnect said no.  Left
\* out: an object that connects to itself (p = o), one connection twice in cList.
Connect(t, c, p, strong) == LET o == th[t].obj IN
  /\ \E op \in {"ADDING", "MODIFYING", "SCANNING"} : Inside(t, op)
  /\ p # o
  /\ conn[c] = NoConn
  /\ conn' = [conn EXCEPT ![c] = [from |-> o, to |-> p, strong |-> strong]]
  /\ \E may \in OwnAnswers :
       IF may
       THEN /\ cList' = [cList EXCEPT ![o] = @ \cup {c}]
            /\ ruse' = [ruse EXCEPT ![o] = @ + IF o \in strong THEN 1 ELSE 0]
       ELSE UNCHANGED <<cList, ruse>>
  /\ th' = [th EXCEPT ![t].pc = "connecting", ![t].conn = c]
  /\ UNCHANGED <<statusVars, this_iter>>

\* addConnection on the other side, first part: mayConnect answers.
PeerMayConnect(t) ==
  /\ th[t].pc = "connecting"
  /\ \/ Goto(t, "peerWait")
     \/ Goto(t, "rollback")
  /\ UNCHANGED <<statusVars, connVars, this_iter>>

\* Second part, under the same lock: wait while the other side is DELETING.
PeerSleep(t) == LET p == Peer(th[t].conn, th[t].obj) IN
  /\ th[t].pc = "peerWait"
  /\ t \notin asleep
  /\ xoStatus[p] = "DELETING"
  /\ asleep' = asleep \cup {t}
  /\ UNCHANGED <<xoStatus, xoStatus_prev, connVars, this_iter, th>>

PeerRefuse(t) == LET p == Peer(th[t].conn, th[t].obj) IN
  /\ th[t].pc = "peerWait"
  /\ t \notin asleep
  /\ xoStatus[p] = "DELETED"
  /\ Goto(t, "rollback")
  /\ UNCHANGED <<statusVars, connVars, this_iter>>

\* Mutant of PeerAdd: the connection is added without waiting for del().
PeerAddAtOnce(t) == LET p == Peer(th[t].conn, th[t].obj) IN
  /\ th[t].pc = "peerWait"
  /\ t \notin asleep
  /\ Attach(th[t].conn, p)
  /\ Return(t)
  /\ UNCHANGED <<statusVars, conn, this_iter>>

PeerAdd(t) == LET p == Peer(th[t].conn, th[t].obj) IN
  /\ th[t].pc = "peerWait"
  /\ t \notin asleep
  /\ xoStatus[p] \notin {"DELETING", "DELETED"}
  /\ Attach(th[t].conn, p)
  /\ Return(t)
  /\ UNCHANGED <<statusVars, conn, this_iter>>

\* Mutant of Rollback: connect() leaves its own side connected.
RollbackNot(t) ==
  /\ th[t].pc = "rollback"
  /\ Return(t)
  /\ UNCHANGED <<statusVars, connVars, this_iter>>

\* connect() could not add the other side: delConnection on this one.
Rollback(t) ==
  /\ th[t].pc = "rollback"
  /\ Detach(th[t].conn, th[t].obj)
  /\ Return(t)
  /\ UNCHANGED <<statusVars, conn, this_iter>>

\* disconnect(iter), first part: xdelConnection_prepare on this side.  Called
\* from _mod(), notify() and _del() for connections of their choice and from
\* disconnectAll().
Disconnect(t, c) == LET o == th[t].obj IN
  /\ \/ Inside(t, "MODIFYING") \/ Inside(t, "SCANNING")
     \/ th[t].pc \in {"deleting", "disconnectAll"}
  /\ c \in cList[o]
  /\ Detach(c, o)
  /\ th' = [th EXCEPT ![t].pc = IF @ = "disconnectAll" THEN "peerDelAll" ELSE "peerDel",
                      ![t].conn = c]
  /\ UNCHANGED <<statusVars, conn, this_iter>>

\* After an addition that failed a client disconnects the object, which is
\* LOADED again and in no operation of this thread.
DisconnectLoaded(t, o, c) ==
  /\ th[t] = Idle
  /\ xoStatus[o] = "LOADED"
  /\ c \in cList[o]
  /\ Detach(c, o)
  /\ th' = [th EXCEPT ![t] = [Idle EXCEPT !.pc = "peerDelLoaded", !.obj = o, !.conn = c]]
  /\ UNCHANGED <<statusVars, conn, this_iter>>

\* Second part: delConnection(cid) on the other side, if it is still there.
PeerDelete(t) == LET p == Peer(th[t].conn, th[t].obj) IN
  /\ th[t].pc \in {"peerDel", "peerDelAll", "peerDelLoaded"}
  /\ Detach(th[t].conn, p)
  /\ \/ th[t].pc = "peerDel" /\ Return(t)
     \/ th[t].pc = "peerDelAll" /\ th' = [th EXCEPT ![t].pc = "disconnectAll", ![t].conn = "none"]
     \/ th[t].pc = "peerDelLoaded" /\ th' = [th EXCEPT ![t] = Idle]
  /\ UNCHANGED <<statusVars, conn, this_iter>>

-----------------------------------------------------------------------------
(* add(), mod() and del().                                                  *)

\* _add() returned or threw NOK: chStatus(NORMAL), direct from ADDING.
AddOk(t) ==
  /\ th[t].pc = "body"
  /\ th[t].op = "ADDING"
  /\ setStatus(th[t].obj, "NORMAL")
  /\ th' = [th EXCEPT ![t] = Idle]
  /\ UNCHANGED <<connVars, this_iter>>

\* _add() or _mod() threw a failure.
OpFailed(t) ==
  /\ th[t].pc = "body"
  /\ th[t].op \in {"ADDING", "MODIFYING"}
  /\ bkStatus(th[t].obj)
  /\ th' = [th EXCEPT ![t] = Idle]
  /\ UNCHANGED <<connVars, this_iter>>

\* _mod() returned or threw NOK: bkStatus, then notifyDependentObjects scans
\* from this object.
ModOk(t) ==
  /\ th[t].pc = "body"
  /\ th[t].op = "MODIFYING"
  /\ bkStatus(th[t].obj)
  /\ th' = [th EXCEPT ![t].pc = "chStatus", ![t].op = "SCANNING"]
  /\ UNCHANGED <<connVars, this_iter>>

\* del(): a busy object is not deleted.
DelBusy(t) ==
  /\ th[t].pc = "body"
  /\ th[t].op = "DELETING"
  /\ ruse[th[t].obj] # 0
  /\ bkStatus(th[t].obj)
  /\ th' = [th EXCEPT ![t] = Idle]
  /\ UNCHANGED <<connVars, this_iter>>

\* Mutant of DelNotBusy: is_busy() is not asked.
DelUnasked(t) ==
  /\ th[t].pc = "body"
  /\ th[t].op = "DELETING"
  /\ Goto(t, "deleting")
  /\ UNCHANGED <<statusVars, connVars, this_iter>>

DelNotBusy(t) ==
  /\ th[t].pc = "body"
  /\ th[t].op = "DELETING"
  /\ ruse[th[t].obj] = 0
  /\ Goto(t, "deleting")
  /\ UNCHANGED <<statusVars, connVars, this_iter>>

DelFailed(t) ==
  /\ th[t].pc = "deleting"
  /\ bkStatus(th[t].obj)
  /\ th' = [th EXCEPT ![t] = Idle]
  /\ UNCHANGED <<connVars, this_iter>>

\* _del() returned or threw NOK: chStatus(DELETED), direct from DELETING.
DelOk(t) ==
  /\ th[t].pc = "deleting"
  /\ setStatus(th[t].obj, "DELETED")
  /\ Goto(t, "disconnectAll")
  /\ UNCHANGED <<connVars, this_iter>>

\* disconnectAll() reached the end of cList; this_iter.fini().
DelDone(t) ==
  /\ th[t].pc = "disconnectAll"
  /\ cList[th[t].obj] = {}
  /\ this_iter' = [this_iter EXCEPT ![th[t].obj] = FALSE]
  /\ th' = [th EXCEPT ![t] = Idle]
  /\ UNCHANGED <<statusVars, connVars>>

-----------------------------------------------------------------------------
(* scan() with a scanner of any kind; the library's own, XObjectNotifier,   *)
(* goes FORWARD from its start and where notify says MODIFY.                *)

\* The visit, then bkStatus.  FORWARD goes on with the object's connections;
\* on any other answer only scan_return is left to do.
Visit(t) == LET o == th[t].obj IN
  /\ th[t].pc = "scanning"
  /\ bkStatus(o)
  /\ \E pc \in {"scanConns", "scanReturn"} :
       /\ pc = "scanConns" => Len(th[t].frames) < MaxDepth
       /\ th' = [th EXCEPT ![t].pc = pc,
                           ![t].frames = <<[obj |-> o, seen |-> {}]>> \o @]
  /\ UNCHANGED <<connVars, this_iter>>

\* The next matching connection: scan the object on its other side.
ScanPeer(t, c) == LET f == Head(th[t].frames) IN
  /\ th[t].pc = "scanConns"
  /\ c \in cList[f.obj] \ f.seen
  /\ th' = [th EXCEPT ![t].pc = "chStatus",
                      ![t].obj = Peer(c, f.obj),
                      ![t].frames[1].seen = @ \cup {c}]
  /\ UNCHANGED <<statusVars, connVars, this_iter>>

\* The end, or BACKWARD or END from below: scan_return(*this_iter), back to the
\* level above.  An empty this_iter makes the dereference undefined; the value
\* goes to scan_return, which does nothing in the base class, so the model goes on.
ScanReturn(t) == LET rest == Tail(th[t].frames) IN
  /\ th[t].pc \in {"scanConns", "scanReturn"}
  /\ th' = [th EXCEPT ![t] = IF rest = << >> THEN Idle
                             ELSE [@ EXCEPT !.pc = "scanConns", !.obj = Head(rest).obj,
                                            !.frames = rest]]
  /\ UNCHANGED <<statusVars, connVars, this_iter>>

-----------------------------------------------------------------------------
Finish(t) ==
  \/ SetThisIter(t) \/ EnterOp(t) \/ WaitOp(t) \/ RefuseOp(t) \/ EndData(t)
  \/ PeerMayConnect(t) \/ PeerSleep(t) \/ PeerRefuse(t) \/ PeerAdd(t) \/ Rollback(t)
  \/ PeerDelete(t) \/ AddOk(t) \/ OpFailed(t) \/ ModOk(t)
  \/ DelBusy(t) \/ DelNotBusy(t) \/ DelFailed(t) \/ DelOk(t) \/ DelDone(t)
  \/ th[t].pc = "disconnectAll" /\ \E c \in Conns : Disconnect(t, c)
  \/ Visit(t) \/ ScanReturn(t)

\* What a client chooses to do: start something, connect, disconnect, visit.
Choose(t) ==
  \/ \E o \in Objects, op \in Ops : Find(t, o, op)
  \/ \E c \in Conns, p \in Objects : \E strong \in SUBSET {th[t].obj, p} : Connect(t, c, p, strong)
  \/ th[t].pc # "disconnectAll" /\ \E c \in Conns : Disconnect(t, c)
  \/ \E o \in Objects, c \in Conns : DisconnectLoaded(t, o, c)
  \/ \E c \in Conns : ScanPeer(t, c)

Next == \E t \in Threads : Finish(t) \/ Choose(t)

Spec == Init /\ [][Next]_vars

\* A thread inside an operation goes on unless it sleeps.
FairSpec == Spec /\ \A t \in Threads : WF_vars(Finish(t))

-----------------------------------------------------------------------------
(* Properties.                                                              *)

Steps == {"idle", "found", "chStatus", "body", "connecting", "peerWait", "rollback",
          "peerDel", "deleting", "disconnectAll", "peerDelAll", "peerDelLoaded", "scanning",
          "scanConns", "scanReturn"}

TypeOK ==
  /\ xoStatus \in [Objects -> Status]
  /\ xoStatus_prev \in [Objects -> Status]
  /\ asleep \in SUBSET Threads
  /\ cList \in [Objects -> SUBSET Conns]
  /\ ruse \in [Objects -> Nat]
  /\ this_iter \in [Objects -> BOOLEAN]
  /\ conn \in [Conns -> [from : Objects \cup {"none"}, to : Objects \cup {"none"},
                         strong : SUBSET Objects]]
  /\ th \in [Threads -> [pc : Steps, op : Operation \cup {"none"},
                         obj : Objects \cup {"none"}, conn : Conns \cup {"none"},
                         frames : Seq([obj : Objects, seen : SUBSET Conns])]]

\* Thread t has taken its object into the status of its operation.
Holding(t, o) ==
  /\ th[t].obj = o
  /\ th[t].pc \in {"body", "connecting", "peerWait", "rollback", "peerDel", "deleting",
                   "scanning"}

\* What the object is apart from the operation active on it.
BaseOf(o) == IF xoStatus[o] \in Base THEN xoStatus[o] ELSE xoStatus_prev[o]

\* "Concurrent operation would be done sequentially" (xobject.hpp 332): an
\* object's status is that of an operation exactly while one thread, and only
\* one, is inside that operation, and the status to go back to is a base one.
OneOperation == \A o \in Objects :
  /\ xoStatus[o] \in Base => \A t \in Threads : ~Holding(t, o)
  /\ xoStatus[o] \in Operation =>
       /\ xoStatus_prev[o] \in Base
       /\ \E t \in Threads : /\ Holding(t, o)
                             /\ th[t].op = xoStatus[o]
                             /\ \A u \in Threads : Holding(u, o) => u = t

\* A thread sleeps only while the object's status tells it to wait: no change
\* of status that lets it go on leaves it asleep.
NoLostWakeup == \A t \in asleep :
  IF th[t].pc = "peerWait" THEN xoStatus[WaitsOn(t)] = "DELETING"
  ELSE canTransit(xoStatus[WaitsOn(t)], th[t].op) = "WAIT"

\* "Each connection is bidirectional": unless a thread is just making or
\* removing it, both sides of a connection have it or neither has.
ConnectionSymmetric == \A c \in Conns :
  conn[c] # NoConn /\ (\A t \in Threads : th[t].conn # c) =>
    (c \in cList[conn[c].from] <=> c \in cList[conn[c].to])

\* "ruse would present number of strong connections" of an object.
RuseCounts == \A o \in Objects :
  ruse[o] = Cardinality({c \in cList[o] : o \in conn[c].strong})

\* STRONG: "this side can't be deleted before disconnecting from other side".
StrongProtects == \A o \in Objects : BaseOf(o) = "DELETED" =>
  \A c \in cList[o] : o \notin conn[c].strong

\* When del() has returned, the object has no connection, and no other object
\* is left with one to it.
DeletedIsolated == \A o \in Objects :
  /\ BaseOf(o) = "DELETED"
  /\ \A t \in Threads : th[t].obj = o => th[t].pc \notin {"disconnectAll", "peerDelAll"}
  => /\ cList[o] = {}
     /\ \A p \in Objects, c \in Conns :
          c \in cList[p] /\ Peer(c, p) = o => \E t \in Threads : th[t].conn = c

\* Apart from the operation on it, an object is loaded, then normal, then
\* deleted: no failure, scan, query or print brings it back.
LifeCycle == [][\A o \in Objects :
  <<BaseOf(o), BaseOf(o)'>> \in
    {<<b, b>> : b \in Base} \cup
    {<<"LOADED", "NORMAL">>, <<"LOADED", "DELETED">>, <<"NORMAL", "DELETED">>}]_vars

\* Nothing blocks for ever: when clients start nothing more, every operation
\* comes to its end.
AllReturn == <>[][~\E t \in Threads : Choose(t)]_vars => <>[](\A t \in Threads : th[t] = Idle)

\* The class comment's "sequentially" again: an operation that the object
\* would accept when idle is delayed by another, never refused because of it.
RefusedByBaseOnly == [][\A t \in Threads :
  RefuseOp(t) => canTransit(BaseOf(th[t].obj), th[t].op) = "NONE"]_vars

\* scan() uses this_iter to hand the object to scan_return.
ScannedObjectInPlace == \A t \in Threads :
  th[t].pc \in {"scanConns", "scanReturn"} => this_iter[Head(th[t].frames).obj]
=============================================================================
