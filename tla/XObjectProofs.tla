--------------------------- MODULE XObjectProofs ---------------------------
(***************************************************************************)
(* What holds of XObject for every number of threads, objects and          *)
(* connections: the types, and the status monitor.                         *)
(***************************************************************************)
EXTENDS XObject, SequenceTheorems, TLAPS

Frame  == [obj : Objects, seen : SUBSET Conns]
Thread == [pc : Steps, op : Operation \cup {"none"}, obj : Objects \cup {"none"},
           conn : Conns \cup {"none"}, frames : Seq(Frame)]

\* Types, but for the counter: that ruse stays natural takes the invariant
\* about connections.
Typed ==
  /\ xoStatus \in [Objects -> Status]
  /\ xoStatus_prev \in [Objects -> Status]
  /\ asleep \in SUBSET Threads
  /\ cList \in [Objects -> SUBSET Conns]
  /\ ruse \in [Objects -> Int]
  /\ this_iter \in [Objects -> BOOLEAN]
  /\ conn \in [Conns -> [from : Objects \cup {"none"}, to : Objects \cup {"none"},
                         strong : SUBSET Objects]]
  /\ th \in [Threads -> Thread]

\* The steps in which a thread makes or removes the connection of its record.
Making   == {"connecting", "peerWait", "rollback"}
Removing == {"peerDel", "peerDelAll", "peerDelLoaded"}
Linking  == Making \cup Removing

\* The steps in which del() removes the connections of its object.
Deleters == {"disconnectAll", "peerDelAll"}

\* The operations whose client code makes connections, and removes some.
Connecting    == {"ADDING", "MODIFYING", "SCANNING"}
Disconnecting == {"MODIFYING", "SCANNING", "DELETING"}

\* The steps of del() between is_busy() and the end of _del().
Dooming(s) == s.op = "DELETING" /\ s.pc \in {"deleting", "peerDel"}

\* What the step of thread s says of its operation.
Placed(s) ==
  /\ s.pc = "idle" => s = Idle
  /\ s.pc # "idle" => s.obj \in Objects
  /\ s.pc = "peerDelLoaded" => s.op = "none"
  /\ s.pc \notin {"idle", "peerDelLoaded"} => s.op \in Operation
  /\ s.pc \in {"body"} => s.op # "SCANNING"
  /\ s.pc \in Making => s.op \in Connecting
  /\ s.pc = "peerDel" => s.op \in Disconnecting
  /\ s.pc \in {"deleting", "disconnectAll", "peerDelAll"} => s.op = "DELETING"
  /\ s.pc \in {"scanning", "scanConns", "scanReturn"} => s.op = "SCANNING"
  /\ s.pc \in {"scanConns", "scanReturn"} => s.frames # << >>
  /\ s.frames # << >> => s.op = "SCANNING"
  /\ s.pc \in Linking => s.conn \in Conns
  /\ s.pc \notin Linking => s.conn = "none"

\* A connection that was made leads from one object to another one.
Made(c) ==
  /\ conn[c].from \in Objects /\ conn[c].to \in Objects /\ conn[c].from # conn[c].to
  /\ conn[c].strong \subseteq {conn[c].from, conn[c].to}

\* The connections that are known to an object or to a thread were made, and
\* the object or the thread's object is one of their ends.
Known ==
  /\ \A c \in Conns : conn[c] = NoConn \/ Made(c)
  /\ \A o \in Objects : \A c \in cList[o] : Made(c) /\ o \in {conn[c].from, conn[c].to}
  /\ \A t \in Threads, c \in Conns : th[t].pc \in Linking /\ th[t].conn = c =>
       Made(c) /\ th[t].obj \in {conn[c].from, conn[c].to}

Control == \A t \in Threads :
  /\ Placed(th[t])
  /\ t \in asleep => th[t].pc \in {"chStatus", "peerWait"}

Shape == Typed /\ Control /\ Known

-----------------------------------------------------------------------------
LEMMA FrameFacts ==
  ASSUME NEW F, NEW s \in Seq(F)
  PROVE  /\ << >> \in Seq(F)
         /\ \A f \in F : <<f>> \o s \in Seq(F) /\ <<f>> \o s # << >>
         /\ s # << >> => Head(s) \in F /\ Tail(s) \in Seq(F)
         /\ s = << >> <=> Len(s) = 0
<1>1. \A f \in F : <<f>> \o s \in Seq(F) /\ <<f>> \o s # << >>
  <2> TAKE f \in F
  <2>1. <<f>> \in Seq(F) /\ Len(<<f>>) = 1
    OBVIOUS
  <2>2. <<f>> \o s \in Seq(F) /\ Len(<<f>> \o s) = 1 + Len(s) /\ Len(s) \in Nat
    BY <2>1, ConcatProperties, LenProperties
  <2> QED BY <2>2, EmptySeq
<1>2. s # << >> => Head(s) \in F /\ Tail(s) \in Seq(F)
  BY HeadTailProperties
<1>3. s = << >> <=> Len(s) = 0
  BY EmptySeq
<1> QED BY <1>1, <1>2, <1>3

LEMMA IdleThread == Idle \in Thread /\ Placed(Idle) /\ Idle.pc = "idle" /\ Idle.frames = << >>
BY DEF Idle, Thread, Steps, Placed, Making, Removing, Linking

\* The step of one thread: what th' is, and that the new record fits.
Moves(t, new) == new \in Thread /\ Placed(new) /\ th' = [th EXCEPT ![t] = new]

LEMMA MoveFacts ==
  ASSUME Typed, NEW t \in Threads, NEW new, Moves(t, new)
  PROVE  th' \in [Threads -> Thread] /\ th'[t] = new /\ \A u \in Threads : u # t => th'[u] = th[u]
BY DEF Typed, Moves

-----------------------------------------------------------------------------
(* The kinds of steps, for the monitor: a step keeps the status of every    *)
(* object, takes one, gives one back, or goes to sleep.                     *)

Held == {"body", "connecting", "peerWait", "rollback", "peerDel", "deleting", "scanning"}

Keep(t, new) ==
  /\ Moves(t, new) /\ UNCHANGED statusVars /\ t \notin asleep
  /\ new.pc \in Held <=> th[t].pc \in Held
  /\ new.pc \in Held => new.obj = th[t].obj /\ new.op = th[t].op
  /\ new.pc \in Deleters => th[t].pc \in Deleters /\ new.obj = th[t].obj
  /\ Dooming(new) => Dooming(th[t]) \/ (ruse[new.obj] = 0 /\ UNCHANGED connVars)

Take(t, new) ==
  /\ Moves(t, new) /\ Granted(t) /\ th[t].pc = "chStatus"
  /\ new.pc \in {"body", "scanning"} /\ new.obj = th[t].obj /\ new.op = th[t].op

Give(t, new, s) ==
  /\ Moves(t, new) /\ setStatus(th[t].obj, s) /\ th[t].pc \in Held /\ t \notin asleep
  /\ new.pc \notin Held /\ UNCHANGED connVars
  /\ new.pc \in Deleters => s = "DELETED" /\ new.obj = th[t].obj
  /\ \/ s = xoStatus_prev[th[t].obj]
     \/ s = "NORMAL" /\ th[t].op = "ADDING"
     \/ s = "DELETED" /\ th[t].op = "DELETING" /\ th[t].pc = "deleting" /\ new.pc \in Deleters

Sleep(t) ==
  /\ asleep' = asleep \cup {t} /\ UNCHANGED <<xoStatus, xoStatus_prev, connVars, this_iter, th>>
  /\ \/ th[t].pc = "chStatus" /\ canTransit(xoStatus[th[t].obj], th[t].op) = "WAIT"
     \/ th[t].pc = "peerWait" /\ xoStatus[Peer(th[t].conn, th[t].obj)] = "DELETING"

\* A step that has nothing to do with connections.
Apart(t, new) == th[t].pc \notin Linking /\ new.pc \notin Linking /\ UNCHANGED connVars

LEMMA FindStep ==
  ASSUME Shape, NEW t \in Threads, NEW o \in Objects, NEW op \in Ops, Find(t, o, op)
  PROVE  \E new : Keep(t, new) /\ Apart(t, new) /\ new.pc \in {"found", "chStatus"} /\ new.op = op
<1> DEFINE new == [Idle EXCEPT !.pc = IF op = "ADDING" THEN "found" ELSE "chStatus", !.op = op, !.obj = o]
<1>1. th[t].pc = "idle" /\ op \in Operation
  BY IdleThread, XObjectAssumption DEF Find
<1>2. new.pc \in {"found", "chStatus"} /\ new.op = op /\ new.obj = o /\ new.conn = "none" /\ new.frames = << >>
  BY DEF Idle
<1>3. new \in Thread
  BY <1>1, IdleThread DEF Thread, Steps
<1>4. Placed(new)
  BY <1>1, <1>2 DEF Placed, Making, Removing, Linking
<1>5. th' = [th EXCEPT ![t] = new] /\ UNCHANGED <<statusVars, connVars, this_iter>>
  BY DEF Find
<1> HIDE DEF new
<1>6. Keep(t, new) /\ Apart(t, new)
  BY <1>1, <1>2, <1>3, <1>4, <1>5 DEF Keep, Moves, Apart, Dooming, Held, Linking, Making, Removing, Deleters, Shape, Control
<1> QED BY <1>2, <1>6

\* A step to another place in the operation, by one thread that is awake.
LEMMA GotoStep ==
  ASSUME Shape, NEW t \in Threads, NEW pc \in {"chStatus", "body", "scanning", "deleting", "disconnectAll"},
         Goto(t, pc), th[t].pc \notin Linking \cup {"idle"},
         pc = "body" => th[t].op # "SCANNING",
         pc = "scanning" => th[t].op = "SCANNING",
         pc \in {"deleting", "disconnectAll"} => th[t].op = "DELETING"
  PROVE  \E new : Moves(t, new) /\ new.pc = pc /\ new.op = th[t].op /\ new.obj = th[t].obj
<1> DEFINE s == [th[t] EXCEPT !.pc = pc]
<1>1. th[t] \in Thread /\ Placed(th[t])
  BY DEF Shape, Typed, Control
<1>2. s.pc = pc /\ s.op = th[t].op /\ s.obj = th[t].obj /\ s.conn = th[t].conn /\ s.frames = th[t].frames
  BY <1>1 DEF Thread
<1>3. s \in Thread
  BY <1>1 DEF Thread, Steps
<1>4. th' = [th EXCEPT ![t] = s]
  BY DEF Goto
<1> HIDE DEF s
<1>5. Placed(s)
  BY <1>1, <1>2 DEF Placed, Linking, Making, Removing
<1> QED BY <1>2, <1>3, <1>4, <1>5 DEF Moves

LEMMA SetThisIterStep ==
  ASSUME Shape, NEW t \in Threads, SetThisIter(t)
  PROVE  \E new : Keep(t, new) /\ Apart(t, new) /\ new.pc = "chStatus" /\ new.op = th[t].op /\ new.obj = th[t].obj
<1>1. th[t].pc = "found" /\ Goto(t, "chStatus") /\ UNCHANGED <<statusVars, connVars>> /\ t \notin asleep
  BY DEF SetThisIter, Shape, Control
<1>2. PICK new : Moves(t, new) /\ new.pc = "chStatus" /\ new.op = th[t].op /\ new.obj = th[t].obj
  BY <1>1, GotoStep DEF Linking, Making, Removing
<1> QED BY <1>1, <1>2 DEF Keep, Apart, Dooming, Held, Linking, Making, Removing, Deleters

LEMMA EnterOpStep ==
  ASSUME Shape, NEW t \in Threads, EnterOp(t)
  PROVE  \E new : Take(t, new) /\ Apart(t, new) /\ new.pc = BodyOf(th[t].op)
<1>1. th[t].pc = "chStatus" /\ Granted(t) /\ Goto(t, BodyOf(th[t].op)) /\ UNCHANGED connVars
  BY DEF EnterOp
<1>2. PICK new : Moves(t, new) /\ new.pc = BodyOf(th[t].op) /\ new.op = th[t].op /\ new.obj = th[t].obj
  <2>1. BodyOf(th[t].op) \in {"body", "scanning"} /\ (BodyOf(th[t].op) = "body" <=> th[t].op # "SCANNING")
    BY DEF BodyOf
  <2> QED BY <1>1, <2>1, GotoStep DEF Linking, Making, Removing
<1> QED BY <1>1, <1>2 DEF Take, Apart, Held, Linking, Making, Removing, Deleters, BodyOf

LEMMA WaitOpStep ==
  ASSUME Shape, NEW t \in Threads, WaitOp(t)
  PROVE  Sleep(t)
BY DEF WaitOp, Delayed, Sleep, connVars

LEMMA RefuseOpStep ==
  ASSUME Shape, NEW t \in Threads, RefuseOp(t)
  PROVE  \E new : Keep(t, new) /\ Apart(t, new) /\ new.pc \in {"idle", "scanConns"}
<1>1. th[t].pc = "chStatus" /\ t \notin asleep /\ UNCHANGED <<statusVars, connVars>>
      /\ th[t] \in Thread /\ Placed(th[t])
  BY DEF RefuseOp, Refused, Shape, Typed, Control
<1>2. th[t].frames \in Seq(Frame)
  BY <1>1 DEF Thread
<1>3. CASE Len(th[t].frames) = 0
  <2>1. th' = [th EXCEPT ![t] = Idle]
    BY <1>3 DEF RefuseOp
  <2> QED BY <1>1, <2>1, IdleThread DEF Keep, Moves, Apart, Dooming, Held, Linking, Making, Removing, Deleters
<1>4. CASE Len(th[t].frames) # 0
  <2> DEFINE new == [th[t] EXCEPT !.pc = "scanConns", !.obj = Head(th[t].frames).obj]
  <2>1. th[t].frames # << >> /\ Head(th[t].frames) \in Frame
    BY <1>2, <1>4, FrameFacts
  <2>2. Head(th[t].frames).obj \in Objects /\ th[t].op = "SCANNING"
    BY <1>1, <2>1 DEF Frame, Placed
  <2>3. th' = [th EXCEPT ![t] = new]
    BY <1>4 DEF RefuseOp
  <2>4. new \in Thread
    BY <1>1, <2>2 DEF Thread, Steps
  <2>5. new.pc = "scanConns" /\ new.op = th[t].op /\ new.obj \in Objects /\ new.conn = th[t].conn
        /\ new.frames = th[t].frames
    BY <1>1, <2>2 DEF Thread
  <2> HIDE DEF new
  <2>6. Placed(new)
    BY <1>1, <2>1, <2>2, <2>5 DEF Placed, Linking, Making, Removing
  <2>7. Keep(t, new) /\ Apart(t, new)
    BY <1>1, <2>3, <2>4, <2>5, <2>6 DEF Keep, Moves, Apart, Dooming, Held, Linking, Making, Removing, Deleters
  <2> QED BY <2>5, <2>7
<1> QED BY <1>3, <1>4

\* The ends of operations.
LEMMA EndStep ==
  ASSUME Shape, NEW t \in Threads, NEW s, th[t].pc \in {"body", "deleting"}, Moves(t, Idle),
         setStatus(th[t].obj, s), UNCHANGED connVars,
         \/ s = xoStatus_prev[th[t].obj]
         \/ s = "NORMAL" /\ th[t].op = "ADDING"
  PROVE  Give(t, Idle, s) /\ Apart(t, Idle)
BY IdleThread DEF Give, Apart, Held, Linking, Making, Removing, Deleters, Shape, Control

LEMMA ModOkStep ==
  ASSUME Shape, NEW t \in Threads, ModOk(t)
  PROVE  \E new : Give(t, new, xoStatus_prev[th[t].obj]) /\ Apart(t, new) /\ new.pc = "chStatus"
<1>1. th[t].pc = "body" /\ th[t].op = "MODIFYING" /\ th[t] \in Thread /\ Placed(th[t]) /\ t \notin asleep
      /\ setStatus(th[t].obj, xoStatus_prev[th[t].obj]) /\ UNCHANGED connVars
  BY DEF ModOk, Shape, Typed, Control, bkStatus
<1> DEFINE new == [th[t] EXCEPT !.pc = "chStatus", !.op = "SCANNING"]
<1>2. th' = [th EXCEPT ![t] = new]
  BY DEF ModOk
<1>3. new \in Thread
  BY <1>1 DEF Thread, Steps, Operation
<1>4. new.pc = "chStatus" /\ new.op = "SCANNING" /\ new.obj = th[t].obj /\ new.conn = th[t].conn
      /\ new.frames = th[t].frames
  BY <1>1 DEF Thread
<1> HIDE DEF new
<1>5. Placed(new)
  BY <1>1, <1>4 DEF Placed, Linking, Making, Removing, Operation
<1>6. Give(t, new, xoStatus_prev[th[t].obj]) /\ Apart(t, new)
  BY <1>1, <1>2, <1>3, <1>4, <1>5 DEF Give, Moves, Apart, Held, Linking, Making, Removing, Deleters
<1> QED BY <1>4, <1>6

LEMMA DelNotBusyStep ==
  ASSUME Shape, NEW t \in Threads, DelNotBusy(t)
  PROVE  \E new : Keep(t, new) /\ Apart(t, new) /\ new.pc = "deleting" /\ new.op = "DELETING" /\ new.obj = th[t].obj
<1>1. th[t].pc = "body" /\ th[t].op = "DELETING" /\ Goto(t, "deleting") /\ UNCHANGED <<statusVars, connVars>>
      /\ t \notin asleep /\ ruse[th[t].obj] = 0
  BY DEF DelNotBusy, Shape, Control
<1>2. PICK new : Moves(t, new) /\ new.pc = "deleting" /\ new.op = th[t].op /\ new.obj = th[t].obj
  BY <1>1, GotoStep DEF Linking, Making, Removing
<1> QED BY <1>1, <1>2 DEF Keep, Apart, Dooming, Held, Linking, Making, Removing, Deleters

LEMMA DelOkStep ==
  ASSUME Shape, NEW t \in Threads, DelOk(t)
  PROVE  \E new : Give(t, new, "DELETED") /\ Apart(t, new) /\ new.pc = "disconnectAll" /\ new.obj = th[t].obj
<1>1. th[t].pc = "deleting" /\ th[t].op = "DELETING" /\ Goto(t, "disconnectAll")
      /\ setStatus(th[t].obj, "DELETED") /\ UNCHANGED connVars /\ t \notin asleep
  BY DEF DelOk, Shape, Control, Placed
<1>2. PICK new : Moves(t, new) /\ new.pc = "disconnectAll" /\ new.op = th[t].op /\ new.obj = th[t].obj
  BY <1>1, GotoStep DEF Linking, Making, Removing
<1> QED BY <1>1, <1>2 DEF Give, Apart, Held, Linking, Making, Removing, Deleters

LEMMA DelDoneStep ==
  ASSUME Shape, NEW t \in Threads, DelDone(t)
  PROVE  Keep(t, Idle) /\ Apart(t, Idle)
BY IdleThread DEF DelDone, Keep, Dooming, Moves, Apart, Held, Linking, Making, Removing, Deleters, Shape, Control

LEMMA VisitStep ==
  ASSUME Shape, NEW t \in Threads, Visit(t)
  PROVE  \E new : Give(t, new, xoStatus_prev[th[t].obj]) /\ Apart(t, new) /\ new.pc \in {"scanConns", "scanReturn"}
<1>1. th[t].pc = "scanning" /\ th[t] \in Thread /\ Placed(th[t]) /\ t \notin asleep
      /\ setStatus(th[t].obj, xoStatus_prev[th[t].obj]) /\ UNCHANGED connVars
  BY DEF Visit, Shape, Typed, Control, bkStatus
<1> DEFINE f == [obj |-> th[t].obj, seen |-> {}]
<1>2. PICK pc \in {"scanConns", "scanReturn"} :
        th' = [th EXCEPT ![t].pc = pc, ![t].frames = <<f>> \o @]
  BY DEF Visit
<1> DEFINE new == [th[t] EXCEPT !.pc = pc, !.frames = <<f>> \o @]
<1>3. th' = [th EXCEPT ![t] = new]
  BY <1>1, <1>2 DEF Shape, Typed, Thread
<1>4. th[t].op = "SCANNING" /\ th[t].obj \in Objects /\ th[t].frames \in Seq(Frame) /\ f \in Frame
  BY <1>1 DEF Placed, Thread, Frame
<1>5. <<f>> \o th[t].frames \in Seq(Frame) /\ <<f>> \o th[t].frames # << >>
  BY <1>4, FrameFacts
<1>6. new \in Thread
  <2>1. [th[t] EXCEPT !.pc = pc] \in Thread
    BY <1>1, <1>2 DEF Thread, Steps
  <2> QED BY <1>5, <2>1 DEF Thread
<1>7. new.pc = pc /\ new.op = th[t].op /\ new.obj = th[t].obj /\ new.conn = th[t].conn
      /\ new.frames = <<f>> \o th[t].frames
  BY <1>1 DEF Thread
<1> HIDE DEF new, f
<1>8. Placed(new)
  BY <1>1, <1>2, <1>4, <1>5, <1>7 DEF Placed, Linking, Making, Removing, Operation
<1>9. Give(t, new, xoStatus_prev[th[t].obj]) /\ Apart(t, new)
  BY <1>1, <1>3, <1>6, <1>7, <1>8 DEF Give, Moves, Apart, Held, Linking, Making, Removing, Deleters
<1> QED BY <1>7, <1>9

LEMMA ScanPeerStep ==
  ASSUME Shape, NEW t \in Threads, NEW c \in Conns, ScanPeer(t, c)
  PROVE  \E new : Keep(t, new) /\ Apart(t, new) /\ new.pc = "chStatus"
<1>1. th[t].pc = "scanConns" /\ th[t] \in Thread /\ Placed(th[t]) /\ t \notin asleep
      /\ UNCHANGED <<statusVars, connVars>>
  BY DEF ScanPeer, Shape, Typed, Control
<1> DEFINE s == th[t].frames
           f == Head(s)
           p == Peer(c, f.obj)
           g == [s EXCEPT ![1].seen = @ \cup {c}]
           new == [th[t] EXCEPT !.pc = "chStatus", !.obj = p, !.frames = g]
<1>2. th[t].op = "SCANNING" /\ s \in Seq(Frame) /\ s # << >>
  BY <1>1 DEF Placed, Thread
<1>3. f \in Frame /\ f = s[1] /\ Len(s) \in Nat /\ Len(s) > 0
  BY <1>2, FrameFacts, LenProperties
<1>4. p \in Objects
  <2>1. f.obj \in Objects /\ c \in cList[f.obj]
    BY <1>3 DEF Frame, ScanPeer
  <2> QED BY <2>1 DEF Shape, Known, Made, Peer
<1>5. g \in Seq(Frame) /\ g # << >>
  <2>1. [s[1] EXCEPT !.seen = @ \cup {c}] \in Frame
    BY <1>3 DEF Frame
  <2>2. g = [s EXCEPT ![1] = [s[1] EXCEPT !.seen = @ \cup {c}]]
    OBVIOUS
  <2> HIDE DEF g
  <2>3. g \in Seq(Frame) /\ Len(g) = Len(s)
    BY <1>2, <1>3, <2>1, <2>2, ExceptSeq
  <2> QED BY <1>3, <2>3, EmptySeq
<1>6. th' = [th EXCEPT ![t] = new]
  BY <1>1, <1>4 DEF ScanPeer, Shape, Typed
<1> HIDE DEF g, p
<1>7. new \in Thread
  <2>1. [th[t] EXCEPT !.pc = "chStatus", !.obj = p] \in Thread
    BY <1>1, <1>4 DEF Thread, Steps
  <2> QED BY <1>5, <2>1 DEF Thread
<1>8. new.pc = "chStatus" /\ new.op = th[t].op /\ new.obj = p /\ new.conn = th[t].conn /\ new.frames = g
  BY <1>1 DEF Thread
<1> HIDE DEF new
<1>9. Placed(new)
  BY <1>1, <1>2, <1>4, <1>5, <1>8 DEF Placed, Linking, Making, Removing, Operation
<1>10. Keep(t, new) /\ Apart(t, new)
  BY <1>1, <1>6, <1>7, <1>8, <1>9 DEF Keep, Moves, Apart, Dooming, Held, Linking, Making, Removing, Deleters
<1> QED BY <1>8, <1>10

LEMMA ScanReturnStep ==
  ASSUME Shape, NEW t \in Threads, ScanReturn(t)
  PROVE  \E new : Keep(t, new) /\ Apart(t, new) /\ new.pc \in {"idle", "scanConns"}
<1>1. th[t].pc \in {"scanConns", "scanReturn"} /\ th[t] \in Thread /\ Placed(th[t]) /\ t \notin asleep
      /\ UNCHANGED <<statusVars, connVars>>
  BY DEF ScanReturn, Shape, Typed, Control
<1> DEFINE rest == Tail(th[t].frames)
<1>2. th[t].frames \in Seq(Frame) /\ th[t].frames # << >> /\ th[t].op = "SCANNING"
  BY <1>1 DEF Thread, Placed
<1>3. rest \in Seq(Frame)
  BY <1>2, FrameFacts
<1>4. CASE rest = << >>
  <2>1. th' = [th EXCEPT ![t] = Idle]
    BY <1>4 DEF ScanReturn
  <2> QED BY <1>1, <2>1, IdleThread DEF Keep, Moves, Apart, Dooming, Held, Linking, Making, Removing, Deleters
<1>5. CASE rest # << >>
  <2> DEFINE new == [th[t] EXCEPT !.pc = "scanConns", !.obj = Head(rest).obj, !.frames = rest]
  <2>1. Head(rest) \in Frame
    BY <1>3, <1>5, FrameFacts
  <2>2. Head(rest).obj \in Objects
    BY <2>1 DEF Frame
  <2>3. th' = [th EXCEPT ![t] = new]
    BY <1>5 DEF ScanReturn
  <2>4. new \in Thread
    BY <1>1, <1>3, <2>2 DEF Thread, Steps
  <2>5. new.pc = "scanConns" /\ new.op = th[t].op /\ new.obj \in Objects /\ new.conn = th[t].conn /\ new.frames = rest
    BY <1>1, <2>2 DEF Thread
  <2> HIDE DEF new, rest
  <2>6. Placed(new)
    BY <1>1, <1>2, <1>5, <2>5 DEF Placed, Linking, Making, Removing, Operation
  <2>7. Keep(t, new) /\ Apart(t, new)
    BY <1>1, <2>3, <2>4, <2>5, <2>6 DEF Keep, Moves, Apart, Dooming, Held, Linking, Making, Removing, Deleters
  <2> QED BY <2>5, <2>7
<1> QED BY <1>4, <1>5

-----------------------------------------------------------------------------
(* Steps that make or remove a connection.                                  *)

\* The thread goes to step pc with connection c.
Links(t, pc, c) == th' = [th EXCEPT ![t].pc = pc, ![t].conn = c]

\* The record of a thread that takes up connection c, or lets go of one.
LEMMA LinkFacts ==
  ASSUME Shape, NEW t \in Threads, NEW pc \in Linking \cup {"body", "scanning", "deleting", "disconnectAll"},
         NEW c \in Conns \cup {"none"}, Links(t, pc, c),
         pc \in Linking => c \in Conns, pc \notin Linking => c = "none",
         th[t].pc \in Linking \cup {"body", "scanning", "deleting", "disconnectAll"},
         pc # "peerDelLoaded", th[t].pc # "peerDelLoaded", t \notin asleep, UNCHANGED statusVars,
         pc = "body" => th[t].op # "SCANNING",
         pc = "scanning" => th[t].op = "SCANNING",
         pc = "deleting" => th[t].op = "DELETING",
         pc \in Making => th[t].op \in Connecting,
         pc = "peerDel" => th[t].op \in Disconnecting,
         pc \in {"deleting", "peerDel"} /\ th[t].op = "DELETING" => th[t].pc \in {"deleting", "peerDel"},
         pc \in {"disconnectAll", "peerDelAll"} <=> th[t].pc \in {"disconnectAll", "peerDelAll"}
  PROVE  \E new : Keep(t, new) /\ new.pc = pc /\ new.conn = c /\ new.op = th[t].op /\ new.obj = th[t].obj
<1> DEFINE new == [th[t] EXCEPT !.pc = pc, !.conn = c]
<1>1. th[t] \in Thread /\ Placed(th[t])
  BY DEF Shape, Typed, Control
<1>2. th' = [th EXCEPT ![t] = new]
  BY <1>1 DEF Shape, Typed, Links
<1>3. new \in Thread
  BY <1>1 DEF Thread, Steps, Linking, Making, Removing
<1>4. new.pc = pc /\ new.conn = c /\ new.op = th[t].op /\ new.obj = th[t].obj /\ new.frames = th[t].frames
  BY <1>1 DEF Thread
<1> HIDE DEF new
<1>5. Placed(new)
  BY <1>1, <1>4 DEF Placed, Linking, Making, Removing
<1>6. Keep(t, new)
  BY <1>2, <1>3, <1>4, <1>5 DEF Keep, Dooming, Moves, Held, Linking, Making, Removing, Deleters
<1> QED BY <1>4, <1>6

\* The step to which Return leads.
BackTo(s) == IF s.op = "DELETING" THEN "deleting" ELSE BodyOf(s.op)

LEMMA BackToFacts == \A s :
  /\ BackTo(s) \in {"body", "scanning", "deleting"}
  /\ BackTo(s) = "body" => s.op # "SCANNING"
  /\ BackTo(s) = "scanning" => s.op = "SCANNING"
  /\ BackTo(s) = "deleting" <=> s.op = "DELETING"
BY DEF BackTo, BodyOf

LEMMA ReturnStep ==
  ASSUME Shape, NEW t \in Threads, Return(t), th[t].pc \in Making \cup {"peerDel"},
         t \notin asleep, UNCHANGED statusVars
  PROVE  \E new : Keep(t, new) /\ new.pc = BackTo(th[t]) /\ new.conn = "none" /\ new.op = th[t].op /\ new.obj = th[t].obj
<1> DEFINE pc == BackTo(th[t])
<1>1. Placed(th[t])
  BY DEF Shape, Control
<1>2. Links(t, pc, "none")
  BY DEF Return, Links, BackTo
<1>3. /\ pc \in {"body", "scanning", "deleting"}
      /\ pc = "body" => th[t].op # "SCANNING"
      /\ pc = "scanning" => th[t].op = "SCANNING"
      /\ pc = "deleting" <=> th[t].op = "DELETING"
  BY BackToFacts
<1> HIDE DEF pc
<1>4. pc = "deleting" => th[t].pc = "peerDel"
  BY <1>1, <1>3 DEF Placed, Connecting
<1>5. \E new : Keep(t, new) /\ new.pc = pc /\ new.conn = "none" /\ new.op = th[t].op /\ new.obj = th[t].obj
  BY <1>2, <1>3, <1>4, LinkFacts DEF Linking, Making, Removing
<1> QED BY <1>5 DEF pc

LEMMA ConnectStep ==
  ASSUME Shape, NEW t \in Threads, NEW c \in Conns, NEW p \in Objects, NEW strong, Connect(t, c, p, strong)
  PROVE  /\ th[t].pc \in {"body", "scanning"} /\ th[t].op \in Connecting
         /\ \E new : Keep(t, new) /\ new.pc = "connecting" /\ new.conn = c /\ new.op = th[t].op /\ new.obj = th[t].obj
<1>1. th[t].pc \in {"body", "scanning"} /\ th[t].op \in Connecting /\ t \notin asleep /\ UNCHANGED statusVars
      /\ Links(t, "connecting", c)
  BY DEF Connect, Inside, BodyOf, Connecting, Shape, Control, Links
<1> QED BY <1>1, LinkFacts DEF Linking, Making, Removing

\* The thread goes on with the connection it is making.
LEMMA ConnectingStep ==
  ASSUME Shape, NEW t \in Threads, NEW pc \in {"peerWait", "rollback"}, Goto(t, pc),
         th[t].pc \in {"connecting", "peerWait"}, t \notin asleep, UNCHANGED statusVars
  PROVE  \E new : Keep(t, new) /\ new.pc = pc /\ new.conn = th[t].conn /\ new.op = th[t].op /\ new.obj = th[t].obj
<1>1. Placed(th[t]) /\ th[t] \in Thread
  BY DEF Shape, Typed, Control
<1>2. Links(t, pc, th[t].conn)
  BY <1>1 DEF Goto, Shape, Typed, Thread, Links
<1> QED BY <1>1, <1>2, LinkFacts DEF Placed, Linking, Making, Removing

LEMMA PeerAddStep ==
  ASSUME Shape, NEW t \in Threads, PeerAdd(t)
  PROVE  \E new : Keep(t, new) /\ new.pc = BackTo(th[t]) /\ new.conn = "none" /\ new.op = th[t].op /\ new.obj = th[t].obj
BY ReturnStep DEF PeerAdd, Making

LEMMA RollbackStep ==
  ASSUME Shape, NEW t \in Threads, Rollback(t)
  PROVE  \E new : Keep(t, new) /\ new.pc = BackTo(th[t]) /\ new.conn = "none" /\ new.op = th[t].op /\ new.obj = th[t].obj
<1>1. th[t].pc = "rollback" /\ t \notin asleep /\ UNCHANGED statusVars /\ Return(t)
  BY DEF Rollback, Shape, Control
<1> QED BY <1>1, ReturnStep DEF Making

LEMMA DisconnectStep ==
  ASSUME Shape, NEW t \in Threads, NEW c \in Conns, Disconnect(t, c)
  PROVE  /\ th[t].pc \in {"body", "scanning", "deleting", "disconnectAll"} /\ th[t].obj \in Objects
         /\ \E new : /\ Keep(t, new) /\ new.conn = c /\ new.op = th[t].op /\ new.obj = th[t].obj
                     /\ new.pc = IF th[t].pc = "disconnectAll" THEN "peerDelAll" ELSE "peerDel"
<1> DEFINE pc == IF th[t].pc = "disconnectAll" THEN "peerDelAll" ELSE "peerDel"
<1>1. /\ th[t].pc \in {"body", "scanning", "deleting", "disconnectAll"}
      /\ th[t].pc \in {"body", "scanning"} => th[t].op \in {"MODIFYING", "SCANNING"}
      /\ t \notin asleep /\ UNCHANGED statusVars /\ th[t] \in Thread /\ Placed(th[t])
  BY DEF Disconnect, Inside, BodyOf, Shape, Typed, Control
<1>2. Links(t, pc, c)
  BY <1>1 DEF Disconnect, Shape, Typed, Thread, Links
<1>3. pc \in {"peerDel", "peerDelAll"} /\ (pc = "peerDelAll" <=> th[t].pc = "disconnectAll")
  OBVIOUS
<1>4. /\ th[t].op \in {"MODIFYING", "SCANNING", "DELETING"} /\ th[t].obj \in Objects
      /\ th[t].op = "DELETING" => th[t].pc \in {"deleting", "disconnectAll"}
  BY <1>1 DEF Placed
<1> HIDE DEF pc
<1>5. \E new : Keep(t, new) /\ new.pc = pc /\ new.conn = c /\ new.op = th[t].op /\ new.obj = th[t].obj
  BY <1>1, <1>2, <1>3, <1>4, LinkFacts DEF Linking, Making, Removing, Disconnecting
<1> QED BY <1>1, <1>4, <1>5 DEF pc

LEMMA DisconnectLoadedStep ==
  ASSUME Shape, NEW t \in Threads, NEW o \in Objects, NEW c \in Conns, DisconnectLoaded(t, o, c)
  PROVE  /\ th[t].pc = "idle"
         /\ \E new : Keep(t, new) /\ new.pc = "peerDelLoaded" /\ new.conn = c /\ new.obj = o
<1> DEFINE new == [Idle EXCEPT !.pc = "peerDelLoaded", !.obj = o, !.conn = c]
<1>1. th[t].pc = "idle" /\ t \notin asleep /\ UNCHANGED statusVars /\ th' = [th EXCEPT ![t] = new]
  BY IdleThread DEF DisconnectLoaded, Shape, Control
<1>2. new.pc = "peerDelLoaded" /\ new.op = "none" /\ new.obj = o /\ new.conn = c /\ new.frames = << >>
  BY DEF Idle
<1>3. new \in Thread
  BY IdleThread DEF Thread, Steps
<1> HIDE DEF new
<1>4. Placed(new)
  BY <1>2 DEF Placed, Linking, Making, Removing
<1>5. Keep(t, new)
  BY <1>1, <1>2, <1>3, <1>4 DEF Keep, Moves, Dooming, Held, Deleters
<1> QED BY <1>1, <1>2, <1>5

LEMMA PeerDeleteStep ==
  ASSUME Shape, NEW t \in Threads, PeerDelete(t)
  PROVE  \E new : /\ Keep(t, new) /\ new.pc \notin Linking /\ new.op = th[t].op
                  /\ th[t].pc = "peerDelAll" => new.pc = "disconnectAll" /\ new.obj = th[t].obj
<1>1. t \notin asleep /\ UNCHANGED statusVars /\ Placed(th[t]) /\ th[t] \in Thread
  BY DEF PeerDelete, Shape, Typed, Control
<1>2. CASE th[t].pc = "peerDel" /\ Return(t)
  BY <1>1, <1>2, ReturnStep, BackToFacts DEF Linking, Making, Removing
<1>3. CASE th[t].pc = "peerDelAll" /\ Links(t, "disconnectAll", "none")
  BY <1>1, <1>3, LinkFacts DEF Placed, Linking, Making, Removing
<1>4. CASE th[t].pc = "peerDelLoaded" /\ th' = [th EXCEPT ![t] = Idle]
  <2>1. th[t].op = "none" /\ Idle.op = "none"
    BY <1>1, <1>4 DEF Placed, Idle
  <2>2. Keep(t, Idle)
    BY <1>1, <1>4, IdleThread DEF Keep, Moves, Dooming, Held, Deleters
  <2> QED BY <1>4, <2>1, <2>2, IdleThread DEF Linking, Making, Removing
<1> QED BY <1>2, <1>3, <1>4 DEF PeerDelete, Links

-----------------------------------------------------------------------------
(* Every step is of one of the kinds.                                       *)

\* What a step may do to the connections: a thread's connection is one it has
\* just made, one it takes from its object, or the one it had.
LEMMA Kinds ==
  ASSUME Shape, NEW t \in Threads, Finish(t) \/ Choose(t)
  PROVE  \/ Sleep(t)
         \/ \E new : Keep(t, new) \/ Take(t, new) \/ \E s : Give(t, new, s)
<1>1. CASE SetThisIter(t) \/ EnterOp(t) \/ WaitOp(t) \/ RefuseOp(t)
  BY <1>1, SetThisIterStep, EnterOpStep, WaitOpStep, RefuseOpStep
<1>2. CASE EndData(t) \/ AddOk(t) \/ OpFailed(t) \/ DelBusy(t) \/ DelFailed(t)
  <2>1. th[t].pc \in {"body", "deleting"} /\ Moves(t, Idle) /\ UNCHANGED connVars
    BY <1>2, IdleThread DEF Moves, EndData, AddOk, OpFailed, DelBusy, DelFailed
  <2>2. CASE setStatus(th[t].obj, xoStatus_prev[th[t].obj])
    BY <2>1, <2>2, EndStep
  <2>3. CASE setStatus(th[t].obj, "NORMAL") /\ th[t].op = "ADDING"
    BY <2>1, <2>3, EndStep
  <2> QED BY <1>2, <2>2, <2>3 DEF EndData, AddOk, OpFailed, DelBusy, DelFailed, bkStatus
<1>3. CASE PeerMayConnect(t)
  <2>1. t \notin asleep /\ UNCHANGED statusVars /\ th[t].pc = "connecting"
    BY <1>3 DEF PeerMayConnect, Shape, Control
  <2>2. CASE Goto(t, "peerWait")
    BY <2>1, <2>2, ConnectingStep
  <2>3. CASE Goto(t, "rollback")
    BY <2>1, <2>3, ConnectingStep
  <2> QED BY <1>3, <2>2, <2>3 DEF PeerMayConnect
<1>4. CASE PeerSleep(t)
  BY <1>4 DEF PeerSleep, Sleep, connVars
<1>5. CASE PeerRefuse(t)
  <2>1. t \notin asleep /\ UNCHANGED statusVars /\ th[t].pc = "peerWait" /\ Goto(t, "rollback")
    BY <1>5 DEF PeerRefuse
  <2> QED BY <2>1, ConnectingStep
<1>6. CASE PeerAdd(t) \/ Rollback(t) \/ PeerDelete(t)
  BY <1>6, PeerAddStep, RollbackStep, PeerDeleteStep
<1>7. CASE ModOk(t) \/ DelNotBusy(t) \/ DelOk(t) \/ DelDone(t) \/ Visit(t) \/ ScanReturn(t)
  BY <1>7, ModOkStep, DelNotBusyStep, DelOkStep, DelDoneStep, VisitStep, ScanReturnStep
<1>8. CASE \E c \in Conns : Disconnect(t, c)
  BY <1>8, DisconnectStep
<1>9. CASE Choose(t)
  BY <1>8, <1>9, FindStep, ConnectStep, DisconnectLoadedStep, ScanPeerStep DEF Choose
<1> QED BY <1>1, <1>2, <1>3, <1>4, <1>5, <1>6, <1>7, <1>8, <1>9 DEF Finish

\* The same steps by what they do to the connections.
LEMMA LinkKinds ==
  ASSUME Shape, NEW t \in Threads, Finish(t) \/ Choose(t)
  PROVE  \/ Sleep(t)
         \/ \E new : Moves(t, new) /\ Apart(t, new)
         \/ \E c \in Conns, p \in Objects : \E strong \in SUBSET {th[t].obj, p} : Connect(t, c, p, strong)
         \/ PeerMayConnect(t) \/ PeerRefuse(t) \/ PeerAdd(t) \/ Rollback(t)
         \/ \E c \in Conns : Disconnect(t, c)
         \/ \E o \in Objects, c \in Conns : DisconnectLoaded(t, o, c)
         \/ PeerDelete(t)
<1>1. CASE SetThisIter(t) \/ EnterOp(t) \/ WaitOp(t) \/ RefuseOp(t)
  BY <1>1, SetThisIterStep, EnterOpStep, WaitOpStep, RefuseOpStep DEF Keep, Take
<1>2. CASE EndData(t) \/ AddOk(t) \/ OpFailed(t) \/ DelBusy(t) \/ DelFailed(t)
  <2>1. th[t].pc \in {"body", "deleting"} /\ Moves(t, Idle) /\ UNCHANGED connVars
    BY <1>2, IdleThread DEF Moves, EndData, AddOk, OpFailed, DelBusy, DelFailed
  <2> QED BY <2>1, IdleThread DEF Apart, Linking, Making, Removing
<1>3. CASE PeerSleep(t)
  BY <1>3 DEF PeerSleep, Sleep, connVars
<1>4. CASE ModOk(t) \/ DelNotBusy(t) \/ DelOk(t) \/ DelDone(t) \/ Visit(t) \/ ScanReturn(t)
  BY <1>4, ModOkStep, DelNotBusyStep, DelOkStep, DelDoneStep, VisitStep, ScanReturnStep DEF Keep, Give
<1>5. CASE Choose(t)
  BY <1>5, FindStep, ScanPeerStep DEF Choose, Keep
<1> QED BY <1>1, <1>2, <1>3, <1>4, <1>5 DEF Finish

-----------------------------------------------------------------------------
(* Layer 1: types, places and known connections.                            *)

LEMMA ThreadShape ==
  ASSUME Shape, NEW t \in Threads, Finish(t) \/ Choose(t)
  PROVE  /\ th' \in [Threads -> Thread] /\ \A u \in Threads : u # t => th'[u] = th[u]
         /\ xoStatus' \in [Objects -> Status] /\ xoStatus_prev' \in [Objects -> Status]
         /\ asleep' \in SUBSET Threads /\ Control'
<1> USE DEF Shape
<1>1. CASE Sleep(t)
  BY <1>1 DEF Sleep, Typed, Control
<1>2. ASSUME NEW new, Keep(t, new)
      PROVE  /\ th' \in [Threads -> Thread] /\ \A u \in Threads : u # t => th'[u] = th[u]
             /\ xoStatus' \in [Objects -> Status] /\ xoStatus_prev' \in [Objects -> Status]
             /\ asleep' \in SUBSET Threads /\ Control'
  BY <1>2, MoveFacts DEF Keep, Moves, statusVars, Typed, Control
<1>3. ASSUME NEW new, NEW s \in Status, Moves(t, new), setStatus(th[t].obj, s), t \notin asleep
      PROVE  /\ th' \in [Threads -> Thread] /\ \A u \in Threads : u # t => th'[u] = th[u]
             /\ xoStatus' \in [Objects -> Status] /\ xoStatus_prev' \in [Objects -> Status]
             /\ asleep' \in SUBSET Threads /\ Control'
  <2>1. asleep' \subseteq asleep
    BY <1>3 DEF setStatus
  <2>2. xoStatus' \in [Objects -> Status]
    BY <1>3 DEF setStatus, Typed
  <2>3. xoStatus_prev' \in [Objects -> Status]
    <3>1. CASE th[t].obj \in Objects
      BY <1>3, <3>1 DEF setStatus, Typed
    <3>2. CASE th[t].obj \notin Objects
      BY <1>3, <3>2 DEF setStatus, Typed
    <3> QED BY <3>1, <3>2
  <2>4. Control'
    BY <1>3, <2>1, MoveFacts DEF Moves, Typed, Control
  <2> QED BY <1>3, <2>1, <2>2, <2>3, <2>4, MoveFacts DEF Typed
<1>4. ASSUME NEW new, Take(t, new)
      PROVE  th[t].op \in Status /\ Moves(t, new) /\ setStatus(th[t].obj, th[t].op) /\ t \notin asleep
  BY <1>4 DEF Take, Granted, Control, Placed, Status
<1>5. ASSUME NEW new, NEW s, Give(t, new, s)
      PROVE  s \in Status /\ Moves(t, new) /\ setStatus(th[t].obj, s) /\ t \notin asleep
  <2>1. th[t].obj \in Objects
    BY <1>5 DEF Give, Held, Control, Placed
  <2> QED BY <1>5, <2>1 DEF Give, Typed, Status, Base
<1> QED BY <1>1, <1>2, <1>3, <1>4, <1>5, Kinds

LEMMA ThisIterType ==
  ASSUME Shape, NEW t \in Threads, Finish(t) \/ Choose(t)
  PROVE  this_iter' \in [Objects -> BOOLEAN]
<1>1. this_iter \in [Objects -> BOOLEAN]
  BY DEF Shape, Typed
<1>2. CASE SetThisIter(t) \/ DelDone(t)
  BY <1>1, <1>2 DEF SetThisIter, DelDone
<1>3. CASE UNCHANGED this_iter
  BY <1>1, <1>3
<1> QED BY <1>2, <1>3 DEF Finish, Choose, EnterOp, WaitOp, RefuseOp, EndData, PeerMayConnect, PeerSleep, PeerRefuse,
      PeerAdd, Rollback, PeerDelete, AddOk, OpFailed, ModOk, DelBusy, DelNotBusy, DelFailed, DelOk, Disconnect,
      DisconnectLoaded, Visit, ScanReturn, Find, Connect, ScanPeer

ConnTyped ==
  /\ cList \in [Objects -> SUBSET Conns]
  /\ ruse \in [Objects -> Int]
  /\ conn \in [Conns -> [from : Objects \cup {"none"}, to : Objects \cup {"none"}, strong : SUBSET Objects]]

LEMMA FreshUnknown ==
  ASSUME Shape, NEW c \in Conns, conn[c] = NoConn
  PROVE  /\ ~Made(c)
         /\ \A o \in Objects : c \notin cList[o]
         /\ \A t \in Threads : th[t].pc \in Linking => th[t].conn # c
BY DEF Shape, Known, Made, NoConn

\* The ends of the connection a thread is working on.
LEMMA LinkEnds ==
  ASSUME Shape, NEW t \in Threads, th[t].pc \in Linking
  PROVE  /\ th[t].conn \in Conns /\ Made(th[t].conn) /\ th[t].obj \in Objects
         /\ Peer(th[t].conn, th[t].obj) \in Objects
         /\ Peer(th[t].conn, th[t].obj) # th[t].obj
         /\ {th[t].obj, Peer(th[t].conn, th[t].obj)} = {conn[th[t].conn].from, conn[th[t].conn].to}
BY DEF Shape, Known, Control, Placed, Linking, Making, Removing, Made, Peer

LEMMA DetachFacts ==
  ASSUME ConnTyped, NEW c \in Conns, NEW o \in Objects, Detach(c, o)
  PROVE  /\ cList' \in [Objects -> SUBSET Conns] /\ ruse' \in [Objects -> Int]
         /\ \A p \in Objects : cList'[p] = IF p = o THEN cList[p] \ {c} ELSE cList[p]
         /\ \A p \in Objects : ruse'[p] = IF p = o /\ c \in cList[p] THEN ruse[p] - Weight(c, o) ELSE ruse[p]
<1>1. Weight(c, o) \in Int
  BY DEF Weight
<1> DEFINE left == IF c \in cList[o] THEN ruse[o] - Weight(c, o) ELSE ruse[o]
<1>2. left \in Int
  BY <1>1 DEF ConnTyped
<1>3. cList' = [cList EXCEPT ![o] = cList[o] \ {c}] /\ ruse' = [ruse EXCEPT ![o] = left]
  BY DEF Detach
<1>4. /\ cList' \in [Objects -> SUBSET Conns]
      /\ \A p \in Objects : cList'[p] = IF p = o THEN cList[p] \ {c} ELSE cList[p]
  BY <1>3 DEF ConnTyped
<1> HIDE DEF left
<1>5. ruse' \in [Objects -> Int] /\ \A p \in Objects : ruse'[p] = IF p = o THEN left ELSE ruse[p]
  BY <1>2, <1>3 DEF ConnTyped
<1> QED BY <1>4, <1>5 DEF left

LEMMA AttachFacts ==
  ASSUME ConnTyped, NEW c \in Conns, NEW o \in Objects, Attach(c, o)
  PROVE  /\ cList' \in [Objects -> SUBSET Conns] /\ ruse' \in [Objects -> Int]
         /\ \A p \in Objects : cList'[p] = IF p = o THEN cList[p] \cup {c} ELSE cList[p]
         /\ \A p \in Objects : ruse'[p] = IF p = o THEN ruse[p] + Weight(c, o) ELSE ruse[p]
<1>1. Weight(c, o) \in Int
  BY DEF Weight
<1>2. cList' = [cList EXCEPT ![o] = cList[o] \cup {c}] /\ ruse' = [ruse EXCEPT ![o] = ruse[o] + Weight(c, o)]
  BY DEF Attach
<1>3. /\ cList' \in [Objects -> SUBSET Conns]
      /\ \A p \in Objects : cList'[p] = IF p = o THEN cList[p] \cup {c} ELSE cList[p]
  BY <1>2 DEF ConnTyped
<1>4. ruse' \in [Objects -> Int] /\ \A p \in Objects : ruse'[p] = IF p = o THEN ruse[p] + Weight(c, o) ELSE ruse[p]
  BY <1>1, <1>2 DEF ConnTyped
<1> QED BY <1>3, <1>4

\* What connect() does on its own side: it attaches the connection or not.
Connects(t, c, p, strong) ==
  /\ ConnTyped'
  /\ conn[c] = NoConn /\ conn'[c] = [from |-> th[t].obj, to |-> p, strong |-> strong]
  /\ th[t].obj \in Objects /\ th[t].obj # p
  /\ \A d \in Conns : d # c => conn'[d] = conn[d]
  /\ \A o \in Objects : o # th[t].obj => cList'[o] = cList[o] /\ ruse'[o] = ruse[o]
  /\ \/ /\ TRUE \in OwnAnswers
        /\ cList'[th[t].obj] = cList[th[t].obj] \cup {c}
        /\ ruse'[th[t].obj] = ruse[th[t].obj] + IF th[t].obj \in strong THEN 1 ELSE 0
     \/ /\ FALSE \in OwnAnswers
        /\ cList'[th[t].obj] = cList[th[t].obj] /\ ruse'[th[t].obj] = ruse[th[t].obj]

LEMMA ConnectFacts ==
  ASSUME Shape, NEW t \in Threads, NEW c \in Conns, NEW p \in Objects, NEW strong, strong \subseteq {th[t].obj, p},
         Connect(t, c, p, strong)
  PROVE  Connects(t, c, p, strong)
<1> USE DEF Connects
<1> DEFINE o == th[t].obj
<1>1. o \in Objects /\ o # p /\ conn[c] = NoConn /\ ConnTyped
  <2>1. th[t].pc \in {"body", "scanning"}
    BY ConnectStep
  <2> QED BY <2>1 DEF Connect, Shape, Control, Placed, Typed, ConnTyped
<1>2. conn' = [conn EXCEPT ![c] = [from |-> o, to |-> p, strong |-> strong]]
  BY DEF Connect
<1>3. /\ conn' \in [Conns -> [from : Objects \cup {"none"}, to : Objects \cup {"none"}, strong : SUBSET Objects]]
      /\ conn'[c] = [from |-> o, to |-> p, strong |-> strong]
      /\ \A d \in Conns : d # c => conn'[d] = conn[d]
  BY <1>1, <1>2 DEF ConnTyped
<1>4. PICK may \in OwnAnswers :
        IF may
        THEN /\ cList' = [cList EXCEPT ![o] = @ \cup {c}]
             /\ ruse' = [ruse EXCEPT ![o] = @ + IF o \in strong THEN 1 ELSE 0]
        ELSE UNCHANGED <<cList, ruse>>
  BY DEF Connect
<1>5. may \in BOOLEAN /\ may \in OwnAnswers
  BY <1>4, XObjectAssumption
<1> DEFINE w == IF o \in strong THEN 1 ELSE 0
<1> HIDE DEF o
<1>6. CASE may
  <2>1. cList' = [cList EXCEPT ![o] = @ \cup {c}] /\ ruse' = [ruse EXCEPT ![o] = @ + w]
    BY <1>4, <1>6
  <2>2. cList' \in [Objects -> SUBSET Conns] /\ ruse' \in [Objects -> Int]
        /\ cList'[o] = cList[o] \cup {c} /\ ruse'[o] = ruse[o] + w
        /\ \A q \in Objects : q # o => cList'[q] = cList[q] /\ ruse'[q] = ruse[q]
    <3>1. w \in Int
      OBVIOUS
    <3> HIDE DEF w
    <3> QED BY <1>1, <2>1, <3>1 DEF ConnTyped
  <2>3. TRUE \in OwnAnswers
    BY <1>5, <1>6
  <2>4. ConnTyped'
    BY <1>3, <2>2 DEF ConnTyped
  <2> QED BY <1>1, <1>3, <2>2, <2>3, <2>4 DEF o
<1>7. CASE ~may
  <2>1. UNCHANGED <<cList, ruse>> /\ FALSE \in OwnAnswers
    BY <1>4, <1>5, <1>7
  <2> QED BY <1>1, <1>3, <2>1 DEF ConnTyped, o
<1> QED BY <1>6, <1>7

\* A step that makes no connection: an object gets the one the thread is
\* making, and a thread takes up one of its object's.
LEMMA KnownStep ==
  ASSUME Shape, NEW t \in Threads, NEW new, Moves(t, new), ConnTyped', UNCHANGED conn,
         \A o \in Objects, c \in Conns : c \in cList'[o] /\ c \notin cList[o] =>
            th[t].pc \in Linking /\ th[t].conn = c /\ o \in {conn[c].from, conn[c].to},
         new.pc \in Linking =>
            \/ th[t].pc \in Linking /\ new.conn = th[t].conn /\ new.obj = th[t].obj
            \/ new.conn \in cList[new.obj]
  PROVE  Known'
<1>1. Known /\ th' \in [Threads -> Thread] /\ th'[t] = new /\ \A u \in Threads : u # t => th'[u] = th[u]
  BY MoveFacts DEF Shape
<1>2. \A d \in Conns : Made(d)' <=> Made(d)
  BY DEF Made
<1>3. \A o \in Objects : \A d \in cList'[o] : Made(d)' /\ o \in {conn'[d].from, conn'[d].to}
  <2> SUFFICES ASSUME NEW o \in Objects, NEW d \in cList'[o]
               PROVE  Made(d)' /\ o \in {conn'[d].from, conn'[d].to}
    OBVIOUS
  <2>1. d \in Conns
    BY DEF ConnTyped
  <2> QED BY <1>1, <1>2, <2>1 DEF Known
<1>4. \A u \in Threads, d \in Conns : th'[u].pc \in Linking /\ th'[u].conn = d =>
         Made(d)' /\ th'[u].obj \in {conn'[d].from, conn'[d].to}
  <2> SUFFICES ASSUME NEW u \in Threads, NEW d \in Conns, th'[u].pc \in Linking, th'[u].conn = d
               PROVE  Made(d)' /\ th'[u].obj \in {conn'[d].from, conn'[d].to}
    OBVIOUS
  <2>1. CASE u # t
    BY <1>1, <1>2, <2>1 DEF Known
  <2>2. CASE u = t /\ th[t].pc \in Linking /\ new.conn = th[t].conn /\ new.obj = th[t].obj
    BY <1>1, <1>2, <2>2 DEF Known
  <2>3. CASE u = t /\ new.conn \in cList[new.obj]
    <3>1. new.obj \in Objects
      <4>1. Placed(new) /\ new.pc # "idle"
        BY <1>1, <2>3 DEF Moves, Linking, Making, Removing
      <4> QED BY <1>1, <2>3, <4>1 DEF Placed
    <3> QED BY <1>1, <1>2, <2>3, <3>1 DEF Known
  <2> QED BY <1>1, <2>1, <2>2, <2>3
<1>5. \A d \in Conns : conn'[d] = NoConn \/ Made(d)'
  BY <1>1, <1>2 DEF Known
<1> QED BY <1>3, <1>4, <1>5 DEF Known

LEMMA ConnShape ==
  ASSUME Shape, NEW t \in Threads, Finish(t) \/ Choose(t)
  PROVE  ConnTyped' /\ Known'
<1>1. ConnTyped /\ Known /\ Typed
  BY DEF Shape, Typed, ConnTyped
<1>2. CASE Sleep(t)
  BY <1>1, <1>2 DEF Sleep, connVars, ConnTyped, Known, Made
<1>3. ASSUME NEW new, Moves(t, new), Apart(t, new)
      PROVE  ConnTyped' /\ Known'
  <2>1. ConnTyped' /\ UNCHANGED conn /\ \A o \in Objects : cList'[o] = cList[o]
    BY <1>1, <1>3 DEF Apart, connVars, ConnTyped
  <2> QED BY <1>3, <2>1, KnownStep DEF Apart
<1>4. ASSUME NEW c \in Conns, NEW p \in Objects, NEW strong \in SUBSET {th[t].obj, p}, Connect(t, c, p, strong)
      PROVE  ConnTyped' /\ Known'
  <2>1. PICK new : Moves(t, new) /\ new.conn = c /\ new.obj = th[t].obj
    BY <1>4, ConnectStep DEF Keep
  <2>2. th'[t].conn = c /\ th'[t].obj = th[t].obj /\ \A u \in Threads : u # t => th'[u] = th[u]
    BY <1>1, <2>1, MoveFacts
  <2>3. /\ ConnTyped' /\ conn'[c] = [from |-> th[t].obj, to |-> p, strong |-> strong]
        /\ th[t].obj \in Objects /\ th[t].obj # p
        /\ \A d \in Conns : d # c => conn'[d] = conn[d]
        /\ \A o \in Objects : cList'[o] \subseteq cList[o] \cup {c}
        /\ \A o \in Objects : o # th[t].obj => cList'[o] = cList[o]
    <3>1. Connects(t, c, p, strong)
      <4>1. strong \subseteq {th[t].obj, p}
        OBVIOUS
      <4> QED BY <1>4, <4>1, ConnectFacts
    <3> QED BY <3>1 DEF Connects
  <2>4. Made(c)' /\ th[t].obj = conn'[c].from
    BY <2>3 DEF Made
  <2>5. \A o \in Objects : c \notin cList[o]
    BY <1>4, FreshUnknown DEF Connect
  <2>6. \A u \in Threads : th[u].pc \in Linking => th[u].conn # c /\ th[u].conn \in Conns
    BY <1>4, FreshUnknown, LinkEnds DEF Connect
  <2>7. \A d \in Conns : d # c => (Made(d)' <=> Made(d))
    BY <2>3 DEF Made
  <2>8. \A d \in Conns : conn'[d] = NoConn \/ Made(d)'
    BY <1>1, <2>3, <2>4, <2>7 DEF Known
  <2>9. \A o \in Objects : \A d \in cList'[o] : Made(d)' /\ o \in {conn'[d].from, conn'[d].to}
    <3> SUFFICES ASSUME NEW o \in Objects, NEW d \in cList'[o]
                 PROVE  Made(d)' /\ o \in {conn'[d].from, conn'[d].to}
      OBVIOUS
    <3>1. d \in Conns
      BY <2>3 DEF ConnTyped
    <3>2. CASE d = c
      BY <2>3, <2>4, <2>5, <3>2
    <3>3. CASE d # c
      BY <1>1, <2>3, <2>7, <3>1, <3>3 DEF Known
    <3> QED BY <3>2, <3>3
  <2>10. \A u \in Threads, d \in Conns : th'[u].pc \in Linking /\ th'[u].conn = d =>
           Made(d)' /\ th'[u].obj \in {conn'[d].from, conn'[d].to}
    <3> SUFFICES ASSUME NEW u \in Threads, NEW d \in Conns, th'[u].pc \in Linking, th'[u].conn = d
                 PROVE  Made(d)' /\ th'[u].obj \in {conn'[d].from, conn'[d].to}
      OBVIOUS
    <3>1. CASE u = t
      BY <2>2, <2>4, <2>3, <3>1
    <3>2. CASE u # t
      <4>1. th'[u] = th[u] /\ th[u].conn = d /\ d # c /\ th[u].pc \in Linking
        BY <2>2, <2>6, <3>2
      <4>2. Made(d) /\ Made(d)' /\ conn'[d] = conn[d]
        BY <1>1, <2>3, <2>7, <4>1 DEF Known
      <4> QED BY <1>1, <4>1, <4>2 DEF Known
    <3> QED BY <3>1, <3>2
  <2> QED BY <2>3, <2>8, <2>9, <2>10 DEF Known
<1>5. CASE PeerMayConnect(t) \/ PeerRefuse(t)
  <2>1. \E pc \in {"peerWait", "rollback"} : Goto(t, pc)
    BY <1>5 DEF PeerMayConnect, PeerRefuse
  <2>2. th[t].pc \in {"connecting", "peerWait"} /\ t \notin asleep /\ UNCHANGED statusVars /\ UNCHANGED connVars
    BY <1>5 DEF PeerMayConnect, PeerRefuse, Shape, Control
  <2>3. PICK new : Moves(t, new) /\ new.conn = th[t].conn /\ new.obj = th[t].obj
    BY <2>1, <2>2, ConnectingStep DEF Keep
  <2>4. ConnTyped' /\ UNCHANGED conn /\ \A o \in Objects : cList'[o] = cList[o]
    BY <1>1, <2>2 DEF connVars, ConnTyped
  <2>5. th[t].pc \in Linking
    BY <2>2 DEF Linking, Making
  <2> QED BY <2>3, <2>4, <2>5, KnownStep
<1>6. CASE PeerAdd(t) \/ Rollback(t) \/ PeerDelete(t)
  <2> DEFINE c == th[t].conn
             p == Peer(c, th[t].obj)
  <2>1. th[t].pc \in Linking /\ UNCHANGED conn
    BY <1>6 DEF PeerAdd, Rollback, PeerDelete, Linking, Making, Removing
  <2>2. c \in Conns /\ p \in Objects /\ p \in {conn[c].from, conn[c].to} /\ th[t].obj \in Objects
    BY <2>1, LinkEnds
  <2>3. PICK new : Moves(t, new) /\ new.pc \notin Linking
    BY <1>6, PeerAddStep, RollbackStep, PeerDeleteStep, BackToFacts DEF Keep, Linking, Making, Removing
  <2>4. Attach(c, p) \/ Detach(c, p) \/ Detach(c, th[t].obj)
    BY <1>6 DEF PeerAdd, Rollback, PeerDelete
  <2>5. th[t].conn = c
    OBVIOUS
  <2> HIDE DEF c, p
  <2>6. CASE Attach(c, p)
    <3>1. ConnTyped' /\ \A o \in Objects : cList'[o] = IF o = p THEN cList[o] \cup {c} ELSE cList[o]
      BY <1>1, <2>1, <2>2, <2>6, AttachFacts DEF ConnTyped
    <3> QED BY <2>1, <2>2, <2>3, <2>5, <3>1, KnownStep
  <2>7. ASSUME NEW o \in Objects, Detach(c, o)
        PROVE  ConnTyped' /\ Known'
    <3>1. ConnTyped' /\ \A q \in Objects : cList'[q] = IF q = o THEN cList[q] \ {c} ELSE cList[q]
      <4>1. /\ cList' \in [Objects -> SUBSET Conns] /\ ruse' \in [Objects -> Int]
            /\ \A q \in Objects : cList'[q] = IF q = o THEN cList[q] \ {c} ELSE cList[q]
        BY <1>1, <2>2, <2>7, DetachFacts
      <4> QED BY <1>1, <2>1, <4>1 DEF ConnTyped
    <3>2. \A q \in Objects, d \in Conns : d \in cList'[q] => d \in cList[q]
      BY <3>1
    <3> QED BY <2>1, <2>3, <3>1, <3>2, KnownStep
  <2> QED BY <2>2, <2>4, <2>6, <2>7
<1>7. ASSUME NEW c \in Conns, NEW o \in Objects, NEW new, Moves(t, new), new.conn = c, new.obj = o,
             c \in cList[o], Detach(c, o), UNCHANGED conn
      PROVE  ConnTyped' /\ Known'
  <2>1. ConnTyped' /\ \A q \in Objects : cList'[q] = IF q = o THEN cList[q] \ {c} ELSE cList[q]
    BY <1>1, <1>7, DetachFacts DEF ConnTyped
  <2>2. \A q \in Objects, d \in Conns : d \in cList'[q] => d \in cList[q]
    BY <2>1
  <2> QED BY <1>7, <2>1, <2>2, KnownStep
<1>8. CASE \E c \in Conns : Disconnect(t, c)
  <2>1. PICK c \in Conns : Disconnect(t, c)
    BY <1>8
  <2>2. c \in cList[th[t].obj] /\ Detach(c, th[t].obj) /\ UNCHANGED conn
    BY <2>1 DEF Disconnect
  <2> QED BY <1>7, <2>1, <2>2, DisconnectStep DEF Keep
<1>9. CASE \E o \in Objects, c \in Conns : DisconnectLoaded(t, o, c)
  <2>1. PICK o \in Objects, c \in Conns : DisconnectLoaded(t, o, c)
    BY <1>9
  <2>2. c \in cList[o] /\ Detach(c, o) /\ UNCHANGED conn
    BY <2>1 DEF DisconnectLoaded
  <2> QED BY <1>7, <2>1, <2>2, DisconnectLoadedStep DEF Keep
<1> QED BY <1>2, <1>3, <1>4, <1>5, <1>6, <1>8, <1>9, LinkKinds

LEMMA ShapeStep ==
  ASSUME Shape, NEW t \in Threads, Finish(t) \/ Choose(t)
  PROVE  Shape'
BY ThreadShape, ThisIterType, ConnShape DEF Shape, Typed, ConnTyped

LEMMA ShapeInit == Init => Shape
<1> SUFFICES ASSUME Init PROVE Shape
  OBVIOUS
<1> USE DEF Init
<1>1. Typed
  BY IdleThread DEF Typed, NoConn, Status, Base
<1>2. Control
  BY IdleThread DEF Control
<1>3. Known
  BY IdleThread DEF Known, Linking, Making, Removing
<1> QED BY <1>1, <1>2, <1>3 DEF Shape

-----------------------------------------------------------------------------
(* Layer 2: the status monitor.                                             *)

\* An operation other than printing was not entered from DELETED.
NotRevived == \A o \in Objects : xoStatus[o] \in Operation \ {"PRINTING"} => xoStatus_prev[o] # "DELETED"

Monitor == OneOperation /\ NoLostWakeup /\ NotRevived

LEMMA StatusSets == Base \cap Operation = {} /\ Base \cup Operation = Status
                    /\ {"NORMAL", "DELETED", "LOADED"} = Base
BY DEF Base, Operation, Status

\* An operation is granted on an idle object only, and on a deleted one only
\* printing.
LEMMA GrantedFacts ==
  ASSUME NEW s \in Status, NEW op \in Operation, canTransit(s, op) = "DIRECT"
  PROVE  s \in Base /\ (op # "PRINTING" => s # "DELETED")
<1>1. op \in Direct[s]
  BY DEF canTransit
<1> QED BY <1>1 DEF Direct, Status, Base, Operation

LEMMA HoldingFacts ==
  \A t \in Threads, o \in Objects : Holding(t, o) <=> th[t].obj = o /\ th[t].pc \in Held
BY DEF Holding, Held

\* A connection that exists keeps its ends.
LEMMA ConnStable ==
  ASSUME Shape, NEW t \in Threads, Finish(t) \/ Choose(t), NEW c \in Conns, conn[c] # NoConn
  PROVE  conn'[c] = conn[c]
<1>1. CASE UNCHANGED conn
  BY <1>1
<1>2. ASSUME NEW d \in Conns, NEW p \in Objects, NEW strong \in SUBSET {th[t].obj, p}, Connect(t, d, p, strong)
      PROVE  conn'[c] = conn[c]
  <2>1. strong \subseteq {th[t].obj, p}
    OBVIOUS
  <2>2. Connects(t, d, p, strong)
    BY <1>2, <2>1, ConnectFacts
  <2> QED BY <2>2 DEF Connects
<1>3. CASE Sleep(t) \/ (\E new : Moves(t, new) /\ Apart(t, new))
  BY <1>1, <1>3 DEF Sleep, Apart, connVars
<1>4. CASE PeerMayConnect(t) \/ PeerRefuse(t) \/ PeerAdd(t) \/ Rollback(t) \/ PeerDelete(t)
  BY <1>1, <1>4 DEF PeerMayConnect, PeerRefuse, PeerAdd, Rollback, PeerDelete, connVars
<1>5. CASE \E d \in Conns : Disconnect(t, d)
  BY <1>1, <1>5 DEF Disconnect
<1>6. CASE \E o \in Objects, d \in Conns : DisconnectLoaded(t, o, d)
  BY <1>1, <1>6 DEF DisconnectLoaded
<1> QED BY <1>2, <1>3, <1>4, <1>5, <1>6, LinkKinds

\* What a sleeping thread waits for does not change while it sleeps.
LEMMA WaitsOnStable ==
  ASSUME Shape, NEW t \in Threads, Finish(t) \/ Choose(t), NEW u \in asleep, th'[u] = th[u]
  PROVE  WaitsOn(u)' = WaitsOn(u)
<1>1. u \in Threads
  BY DEF Shape, Typed
<1>2. CASE th[u].pc = "peerWait"
  <2> DEFINE c == th[u].conn
  <2>1. c \in Conns /\ Made(c)
    BY <1>1, <1>2, LinkEnds DEF Linking, Making
  <2>2. conn[c] # NoConn
    BY <2>1, FreshUnknown
  <2>3. conn'[c] = conn[c]
    BY <2>1, <2>2, ConnStable
  <2> QED BY <2>3 DEF WaitsOn
<1>3. CASE th[u].pc # "peerWait"
  BY <1>3 DEF WaitsOn
<1> QED BY <1>2, <1>3

LEMMA WaitsOnObject ==
  ASSUME Shape, NEW t \in Threads
  PROVE  /\ th[t].pc = "chStatus" => WaitsOn(t) = th[t].obj
         /\ th[t].pc = "peerWait" => WaitsOn(t) = Peer(th[t].conn, th[t].obj)
<1>1. CASE th[t].pc = "peerWait"
  <2>1. Made(th[t].conn) /\ th[t].obj \in {conn[th[t].conn].from, conn[th[t].conn].to}
    BY <1>1, LinkEnds DEF Linking, Making
  <2> QED BY <1>1, <2>1 DEF WaitsOn, Peer, Made
<1>2. CASE th[t].pc # "peerWait"
  BY <1>2 DEF WaitsOn
<1> QED BY <1>1, <1>2

LEMMA StatusSet ==
  ASSUME Typed, NEW o \in Objects, NEW s, setStatus(o, s)
  PROVE  /\ xoStatus'[o] = s /\ xoStatus_prev'[o] = xoStatus[o]
         /\ \A q \in Objects : q # o => xoStatus'[q] = xoStatus[q] /\ xoStatus_prev'[q] = xoStatus_prev[q]
         /\ asleep' = {u \in asleep : WaitsOn(u) # o}
BY DEF Typed, setStatus

\* The thread inside an operation is the one whose operation the status is.
LEMMA HolderFacts ==
  ASSUME Shape, OneOperation, NEW t \in Threads, th[t].pc \in Held
  PROVE  /\ th[t].obj \in Objects /\ xoStatus[th[t].obj] = th[t].op /\ th[t].op \in Operation
         /\ xoStatus_prev[th[t].obj] \in Base
         /\ \A u \in Threads : u # t => ~Holding(u, th[t].obj)
<1> DEFINE o == th[t].obj
<1>1. o \in Objects /\ th[t].op \in Operation
  BY DEF Shape, Control, Placed, Held
<1>2. Holding(t, o)
  BY <1>1, HoldingFacts
<1>3. xoStatus[o] \in Operation
  BY <1>1, <1>2, StatusSets DEF OneOperation, Shape, Typed
<1>4. PICK v \in Threads : Holding(v, o) /\ th[v].op = xoStatus[o] /\ \A u \in Threads : Holding(u, o) => u = v
  BY <1>1, <1>3 DEF OneOperation
<1>5. v = t
  BY <1>2, <1>4
<1> QED BY <1>1, <1>3, <1>4, <1>5 DEF OneOperation

\* Who holds what after a step of t.
LEMMA HoldingStep ==
  ASSUME Shape, NEW t \in Threads, NEW new, Moves(t, new)
  PROVE  /\ \A u \in Threads, o \in Objects : u # t => (Holding(u, o)' <=> Holding(u, o)) /\ th'[u] = th[u]
         /\ \A o \in Objects : Holding(t, o)' <=> new.obj = o /\ new.pc \in Held
         /\ th'[t] = new
<1>1. th'[t] = new /\ \A u \in Threads : u # t => th'[u] = th[u]
  BY MoveFacts DEF Shape
<1> QED BY <1>1 DEF Holding, Held

LEMMA OneOperationStep ==
  ASSUME Shape, OneOperation, NotRevived, NEW t \in Threads, Finish(t) \/ Choose(t)
  PROVE  OneOperation' /\ NotRevived'
<1>1. CASE Sleep(t)
  BY <1>1 DEF Sleep, OneOperation, NotRevived, Holding
<1>2. ASSUME NEW new, Keep(t, new)
      PROVE  OneOperation' /\ NotRevived'
  <2>1. \A u \in Threads, o \in Objects : (Holding(u, o)' <=> Holding(u, o)) /\ (Holding(u, o) => th'[u].op = th[u].op)
    BY <1>2, HoldingStep, HoldingFacts DEF Keep
  <2>2. xoStatus' = xoStatus /\ xoStatus_prev' = xoStatus_prev
    BY <1>2 DEF Keep, statusVars
  <2>3. OneOperation'
    <3> SUFFICES ASSUME NEW o \in Objects
                 PROVE  /\ xoStatus'[o] \in Base => \A u \in Threads : ~Holding(u, o)'
                        /\ xoStatus'[o] \in Operation =>
                             /\ xoStatus_prev'[o] \in Base
                             /\ \E u \in Threads : /\ Holding(u, o)' /\ th'[u].op = xoStatus'[o]
                                                   /\ \A v \in Threads : Holding(v, o)' => v = u
      BY DEF OneOperation
    <3> QED BY <2>1, <2>2 DEF OneOperation
  <2>4. NotRevived'
    BY <2>2 DEF NotRevived
  <2> QED BY <2>3, <2>4
<1>3. ASSUME NEW new, Take(t, new)
      PROVE  OneOperation' /\ NotRevived'
  <2> DEFINE o == th[t].obj
  <2>1. o \in Objects /\ th[t].op \in Operation /\ setStatus(o, th[t].op) /\ canTransit(xoStatus[o], th[t].op) = "DIRECT"
        /\ Moves(t, new) /\ new.pc \in Held /\ new.obj = o /\ new.op = th[t].op
    BY <1>3 DEF Take, Granted, Shape, Control, Placed, Held
  <2>2. xoStatus[o] \in Base /\ (th[t].op # "PRINTING" => xoStatus[o] # "DELETED")
    BY <2>1, GrantedFacts DEF Shape, Typed
  <2>3. /\ xoStatus'[o] = th[t].op /\ xoStatus_prev'[o] = xoStatus[o]
        /\ \A q \in Objects : q # o => xoStatus'[q] = xoStatus[q] /\ xoStatus_prev'[q] = xoStatus_prev[q]
    BY <2>1, StatusSet DEF Shape
  <2>4. \A u \in Threads : ~Holding(u, o)
    BY <2>1, <2>2 DEF OneOperation
  <2>5. \A u \in Threads, q \in Objects : Holding(u, q)' <=> IF u = t THEN q = o ELSE Holding(u, q)
    BY <2>1, HoldingStep
  <2>6. ~\E q \in Objects : Holding(t, q)
    BY <1>3, HoldingFacts DEF Take, Held
  <2>7. th'[t].op = th[t].op /\ \A u \in Threads : u # t => th'[u] = th[u]
    BY <2>1, HoldingStep
  <2> HIDE DEF o
  <2>8. ASSUME NEW q \in Objects
        PROVE  /\ xoStatus'[q] \in Base => \A u \in Threads : ~Holding(u, q)'
               /\ xoStatus'[q] \in Operation =>
                    /\ xoStatus_prev'[q] \in Base
                    /\ \E u \in Threads : /\ Holding(u, q)' /\ th'[u].op = xoStatus'[q]
                                          /\ \A v \in Threads : Holding(v, q)' => v = u
    <3>1. CASE q = o
      BY <2>1, <2>2, <2>3, <2>4, <2>5, <2>7, <3>1, StatusSets
    <3>2. CASE q # o
      <4>1. \A u \in Threads : (Holding(u, q)' <=> Holding(u, q)) /\ (Holding(u, q) => th'[u].op = th[u].op)
        BY <2>5, <2>6, <2>7, <3>2
      <4> QED BY <2>3, <3>2, <4>1 DEF OneOperation
    <3> QED BY <3>1, <3>2
  <2>9. OneOperation'
    BY <2>8 DEF OneOperation
  <2>10. NotRevived'
    BY <2>2, <2>3 DEF NotRevived
  <2> QED BY <2>9, <2>10
<1>4. ASSUME NEW new, NEW s, Give(t, new, s)
      PROVE  OneOperation' /\ NotRevived'
  <2> DEFINE o == th[t].obj
  <2>1. /\ o \in Objects /\ xoStatus[o] = th[t].op /\ xoStatus_prev[o] \in Base
        /\ \A u \in Threads : u # t => ~Holding(u, o)
    BY <1>4, HolderFacts DEF Give
  <2>2. Moves(t, new) /\ setStatus(o, s) /\ new.pc \notin Held /\ s \in Base
    BY <1>4, <2>1, StatusSets DEF Give
  <2>3. /\ xoStatus'[o] = s
        /\ \A q \in Objects : q # o => xoStatus'[q] = xoStatus[q] /\ xoStatus_prev'[q] = xoStatus_prev[q]
    BY <2>1, <2>2, StatusSet DEF Shape
  <2>4. \A u \in Threads, q \in Objects : Holding(u, q)' <=> u # t /\ Holding(u, q)
    BY <2>2, HoldingStep
  <2>5. \A q \in Objects : q # o => ~Holding(t, q)
    BY HoldingFacts
  <2>6. \A u \in Threads : u # t => th'[u] = th[u]
    BY <2>2, MoveFacts DEF Shape
  <2> HIDE DEF o
  <2>7. ASSUME NEW q \in Objects
        PROVE  /\ xoStatus'[q] \in Base => \A u \in Threads : ~Holding(u, q)'
               /\ xoStatus'[q] \in Operation =>
                    /\ xoStatus_prev'[q] \in Base
                    /\ \E u \in Threads : /\ Holding(u, q)' /\ th'[u].op = xoStatus'[q]
                                          /\ \A v \in Threads : Holding(v, q)' => v = u
    <3>1. CASE q = o
      BY <2>1, <2>2, <2>3, <2>4, <3>1, StatusSets
    <3>2. CASE q # o
      <4>1. \A u \in Threads : (Holding(u, q)' <=> Holding(u, q)) /\ (Holding(u, q) => th'[u].op = th[u].op)
        BY <2>4, <2>5, <2>6, <3>2
      <4> QED BY <2>3, <3>2, <4>1 DEF OneOperation
    <3> QED BY <3>1, <3>2
  <2>8. OneOperation'
    BY <2>7 DEF OneOperation
  <2>9. NotRevived'
    BY <2>2, <2>3, StatusSets DEF NotRevived
  <2> QED BY <2>8, <2>9
<1> QED BY <1>1, <1>2, <1>3, <1>4, Kinds

LEMMA NoLostWakeupStep ==
  ASSUME Shape, NoLostWakeup, NEW t \in Threads, Finish(t) \/ Choose(t)
  PROVE  NoLostWakeup'
<1> SUFFICES ASSUME NEW u \in asleep'
             PROVE  IF th'[u].pc = "peerWait" THEN xoStatus'[WaitsOn(u)'] = "DELETING"
                    ELSE canTransit(xoStatus'[WaitsOn(u)'], th'[u].op) = "WAIT"
  BY DEF NoLostWakeup
<1>1. CASE Sleep(t)
  <2>1. u \in Threads /\ th'[u] = th[u] /\ xoStatus' = xoStatus /\ WaitsOn(u)' = WaitsOn(u) /\ (u = t \/ u \in asleep)
    BY <1>1 DEF Sleep, Shape, Typed, WaitsOn, connVars
  <2>2. CASE u = t
    BY <1>1, <2>1, <2>2, WaitsOnObject DEF Sleep
  <2>3. CASE u \in asleep
    BY <2>1, <2>3 DEF NoLostWakeup
  <2> QED BY <2>1, <2>2, <2>3
<1>2. ASSUME u \in asleep, th'[u] = th[u], xoStatus'[WaitsOn(u)] = xoStatus[WaitsOn(u)]
      PROVE  IF th'[u].pc = "peerWait" THEN xoStatus'[WaitsOn(u)'] = "DELETING"
             ELSE canTransit(xoStatus'[WaitsOn(u)'], th'[u].op) = "WAIT"
  <2>1. WaitsOn(u)' = WaitsOn(u)
    BY <1>2, WaitsOnStable
  <2> QED BY <1>2, <2>1 DEF NoLostWakeup
<1>3. ASSUME NEW new, Keep(t, new)
      PROVE  u \in asleep /\ th'[u] = th[u] /\ xoStatus'[WaitsOn(u)] = xoStatus[WaitsOn(u)]
  <2>1. u \in asleep /\ u # t /\ u \in Threads /\ xoStatus' = xoStatus
    BY <1>3 DEF Keep, statusVars, Shape, Typed
  <2> QED BY <1>3, <2>1, MoveFacts DEF Keep, Shape
<1>4. ASSUME NEW new, NEW s, Moves(t, new), setStatus(th[t].obj, s), t \notin asleep, th[t].obj \in Objects
      PROVE  u \in asleep /\ th'[u] = th[u] /\ xoStatus'[WaitsOn(u)] = xoStatus[WaitsOn(u)]
  <2>1. u \in asleep /\ u # t /\ u \in Threads /\ WaitsOn(u) # th[t].obj
    BY <1>4 DEF setStatus, Shape, Typed
  <2>2. WaitsOn(u) \in Objects
    BY <2>1, WaitsOnObject, LinkEnds DEF Shape, Control, Placed, Linking, Making
  <2> QED BY <1>4, <2>1, <2>2, StatusSet, MoveFacts DEF Shape
<1>5. ASSUME NEW new, Take(t, new)
      PROVE  Moves(t, new) /\ setStatus(th[t].obj, th[t].op) /\ t \notin asleep /\ th[t].obj \in Objects
  BY <1>5 DEF Take, Granted, Shape, Control, Placed
<1>6. ASSUME NEW new, NEW s, Give(t, new, s)
      PROVE  Moves(t, new) /\ setStatus(th[t].obj, s) /\ t \notin asleep /\ th[t].obj \in Objects
  BY <1>6 DEF Give, Shape, Control, Placed, Held
<1> QED BY <1>1, <1>2, <1>3, <1>4, <1>5, <1>6, Kinds

MInv == Shape /\ Monitor

LEMMA MonitorInit == Init => Monitor
BY IdleThread, StatusSets DEF Init, Monitor, OneOperation, NoLostWakeup, NotRevived, Holding

LEMMA StepOfNext == Next => \E t \in Threads : Finish(t) \/ Choose(t)
BY DEF Next

LEMMA MonitorStep == MInv /\ [Next]_vars => MInv'
<1> SUFFICES ASSUME MInv, [Next]_vars PROVE MInv'
  OBVIOUS
<1>1. CASE UNCHANGED vars
  <2>1. Typed' /\ Control'
    BY <1>1 DEF vars, MInv, Shape, Typed, Control
  <2>2. Known'
    BY <1>1 DEF vars, MInv, Shape, Known, Made
  <2>3. OneOperation' /\ NotRevived'
    BY <1>1 DEF vars, MInv, Monitor, OneOperation, NotRevived, Holding
  <2>4. NoLostWakeup'
    BY <1>1 DEF vars, MInv, Monitor, NoLostWakeup, WaitsOn
  <2> QED BY <2>1, <2>2, <2>3, <2>4 DEF MInv, Shape, Monitor
<1>2. CASE Next
  <2>1. PICK t \in Threads : Finish(t) \/ Choose(t)
    BY <1>2, StepOfNext
  <2> QED BY <2>1, ShapeStep, OneOperationStep, NoLostWakeupStep DEF MInv, Monitor
<1> QED BY <1>1, <1>2

LEMMA MonitorInvariant == Spec => []MInv
<1>1. Init => MInv
  BY ShapeInit, MonitorInit DEF MInv
<1> QED BY <1>1, MonitorStep, PTL DEF Spec

\* The pairs of LifeCycle.
LEMMA ForwardPairs ==
  \A b \in Base : \A d : b = d \/ (b # "DELETED" /\ d = "NORMAL") \/ d = "DELETED" =>
    <<b, d>> \in {<<e, e>> : e \in Base} \cup
                 {<<"LOADED", "NORMAL">>, <<"LOADED", "DELETED">>, <<"NORMAL", "DELETED">>}
BY DEF Base

\* What an object is apart from the operation on it changes only at the end of
\* an addition or a deletion.
LEMMA BaseStep ==
  ASSUME MInv, NEW t \in Threads, Finish(t) \/ Choose(t), NEW o \in Objects
  PROVE  <<BaseOf(o), BaseOf(o)'>> \in
           {<<b, b>> : b \in Base} \cup
           {<<"LOADED", "NORMAL">>, <<"LOADED", "DELETED">>, <<"NORMAL", "DELETED">>}
<1>1. BaseOf(o) \in Base
  BY StatusSets DEF BaseOf, MInv, Monitor, OneOperation, Shape, Typed
<1>2. ASSUME NEW new, Keep(t, new)
      PROVE  BaseOf(o)' = BaseOf(o)
  BY <1>2 DEF Keep, statusVars, BaseOf
<1>3. ASSUME NEW new, Take(t, new)
      PROVE  BaseOf(o)' = BaseOf(o)
  <2>1. th[t].obj \in Objects /\ th[t].op \in Operation /\ setStatus(th[t].obj, th[t].op)
        /\ canTransit(xoStatus[th[t].obj], th[t].op) = "DIRECT"
    BY <1>3 DEF Take, Granted, MInv, Shape, Control, Placed
  <2>2. xoStatus[th[t].obj] \in Base
    BY <2>1, GrantedFacts DEF MInv, Shape, Typed
  <2> QED BY <2>1, <2>2, StatusSet, StatusSets DEF MInv, Shape, BaseOf
<1>4. ASSUME NEW new, NEW s, Give(t, new, s)
      PROVE  \/ BaseOf(o)' = BaseOf(o)
             \/ BaseOf(o) # "DELETED" /\ BaseOf(o)' = "NORMAL"
             \/ BaseOf(o)' = "DELETED"
  <2> DEFINE p == th[t].obj
  <2>1. p \in Objects /\ xoStatus[p] = th[t].op /\ th[t].op \in Operation /\ xoStatus_prev[p] \in Base
    BY <1>4, HolderFacts DEF MInv, Monitor, Give
  <2>2. setStatus(p, s) /\ \/ s = xoStatus_prev[p]
                           \/ s = "NORMAL" /\ th[t].op = "ADDING"
                           \/ s = "DELETED" /\ th[t].op = "DELETING"
    BY <1>4 DEF Give
  <2>3. /\ xoStatus'[p] = s
        /\ \A q \in Objects : q # p => xoStatus'[q] = xoStatus[q] /\ xoStatus_prev'[q] = xoStatus_prev[q]
    BY <2>1, <2>2, StatusSet DEF MInv, Shape
  <2> HIDE DEF p
  <2>4. CASE o # p
    BY <2>3, <2>4 DEF BaseOf
  <2>5. CASE o = p
    <3>1. BaseOf(o) = xoStatus_prev[p] /\ BaseOf(o)' = s
      BY <2>1, <2>2, <2>3, <2>5, StatusSets DEF BaseOf
    <3>2. th[t].op = "ADDING" => xoStatus_prev[p] # "DELETED"
      BY <2>1 DEF MInv, Monitor, NotRevived, Operation
    <3> QED BY <2>2, <3>1, <3>2
  <2> QED BY <2>4, <2>5
<1>5. BaseOf(o) = BaseOf(o)' \/ (BaseOf(o) # "DELETED" /\ BaseOf(o)' = "NORMAL") \/ BaseOf(o)' = "DELETED"
  <2>1. CASE Sleep(t)
    BY <2>1 DEF Sleep, BaseOf
  <2>2. CASE ~Sleep(t)
    <3>1. PICK new : Keep(t, new) \/ Take(t, new) \/ \E s : Give(t, new, s)
      BY <2>2, Kinds DEF MInv
    <3>2. CASE Keep(t, new) \/ Take(t, new)
      BY <1>2, <1>3, <3>2
    <3>3. CASE \E s : Give(t, new, s)
      BY <1>4, <3>3
    <3> QED BY <3>1, <3>2, <3>3
  <2> QED BY <2>1, <2>2
<1> QED BY <1>1, <1>5, ForwardPairs, Zenon

\* An object's status is that of an operation exactly while one thread, and
\* only one, is inside that operation: add, mod, del, reload, scan and the
\* queries of any number of threads are done one after the other.
THEOREM OperationsAreSequential == Spec => []OneOperation
<1>1. MInv => OneOperation
  BY DEF MInv, Monitor
<1> QED BY <1>1, MonitorInvariant, PTL

\* No thread sleeps in chStatus or in addConnection on a status that lets it go
\* on: the broadcast of setStatus reaches everyone who should look again.
THEOREM NoWakeupIsLost == Spec => []NoLostWakeup
<1>1. MInv => NoLostWakeup
  BY DEF MInv, Monitor
<1> QED BY <1>1, MonitorInvariant, PTL

\* LOADED, then NORMAL, then DELETED: no failed operation and no bkStatus
\* brings an object back.
THEOREM LifeGoesForward == Spec => LifeCycle
<1> DEFINE Forward == \A o \in Objects :
             <<BaseOf(o), BaseOf(o)'>> \in
               {<<b, b>> : b \in Base} \cup
               {<<"LOADED", "NORMAL">>, <<"LOADED", "DELETED">>, <<"NORMAL", "DELETED">>}
<1>1. MInv /\ [Next]_vars => [Forward]_vars
  BY BaseStep, StepOfNext
<1>2. Spec => [][Forward]_vars
  BY <1>1, MonitorInvariant, PTL DEF Spec
<1> QED BY <1>2 DEF LifeCycle
=============================================================================
