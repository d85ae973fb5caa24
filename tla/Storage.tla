------------------------------ MODULE Storage ------------------------------
(***************************************************************************)
(* What a program keeps on the disk through PParam: the database of module *)
(* XDBEngine and the document of module XmlDocument.  A thread does one    *)
(* thing at a time, and the process may die between any two steps.         *)
(***************************************************************************)
EXTENDS XDBEngine, XmlDocument

vars == <<engineVars, documentVars>>

ASSUME SameThreads == Savers = Threads

Init == EngineInit /\ DocumentInit

Free(t) == ~Working(t) /\ sv[t].pc = "idle"

\* Buffers and flag are gone; the tables and the files are what they were.
Crash ==
  /\ Die
  /\ isconnected' = FALSE /\ onTransaction' = FALSE
  /\ buffer' = [t \in Threads |-> <<>>] /\ job' = [t \in Threads |-> NoJob(FALSE)]
  /\ UNCHANGED db

EngineNext ==
  \/ connect \/ disconnect
  \/ \E t \in Threads : EngineStep(t)
  \/ \E t \in Threads : Free(t) /\ Begin(t)

DocumentNext == Tick \/ \E t \in Threads : SaveStep(t) \/ (Free(t) /\ SaveXmlDoc(t))

Next ==
  \/ EngineNext /\ UNCHANGED documentVars
  \/ DocumentNext /\ UNCHANGED engineVars
  \/ Crash

Spec == Init /\ [][Next]_vars

-----------------------------------------------------------------------------
(* Properties.                                                              *)

\* Keys are unique within a table, and no text has two names.
TypeOK ==
  /\ db \in [DOMAIN db -> Table]
  /\ \A n \in DOMAIN db : \A i, j \in DOMAIN db[n].rows :
       LET r == db[n].rows[i]  q == db[n].rows[j]
       IN r.key # "" /\ r.key = q.key /\ r.pkey = q.pkey => i = j
  /\ isconnected \in BOOLEAN /\ onTransaction \in BOOLEAN
  /\ DOMAIN buffer = Threads /\ DOMAIN job = Threads
  /\ dir \in [Files -> Texts \union {NoText}] /\ text \in [Texts -> {"partial", "whole", "mixed"}]
  /\ \A m, n \in Files : dir[m] = dir[n] /\ dir[m] # NoText => m = n
  /\ now \in 1..MaxClock /\ interrupted \in BOOLEAN

\* A request changes the database by one whole transaction or not at all: after
\* a missing key, a command that fails, or a crash at any step nothing of it is
\* stored.  The transaction is all of the request, except that the elements of
\* a set of mixtures without a parent are stored one by one.
Transaction(calls, s, i) ==
  /\ s < i /\ calls[s] = Start /\ calls[i] = Commit
  /\ \A j \in (s + 1)..(i - 1) : IsCommand(calls[j])

StoresWhole ==
  db' # db =>
    \E t \in Threads :
      LET calls == job[t].request.calls IN
      \E s, i \in DOMAIN calls :
        LET all == Batch(db, SubSeq(calls, s + 1, i - 1)) IN
        /\ Transaction(calls, s, i) /\ all.ok /\ db' = all.db
        /\ job[t].request.param.kind # "mixes" => db = job[t].before /\ s = 1 /\ i = Len(calls)

AllOrNothing == [][StoresWhole]_vars

\* What dbSave or dbUpdate stored when it returned, dbLoad reads back.
SaveReadsBack ==
  [][\A t \in Threads :
       /\ job[t].request.op \in {"dbSave", "dbUpdate"} /\ isconnected'
       /\ Working(t) /\ job'[t] = NoJob(FALSE)
       => ReadsBack(job[t].request.reads, db')]_vars

\* Nothing of a call is left in the engine when it has returned or thrown: no
\* command of a failed one is stored by the commit of the next.
EngineClean ==
  (\A t \in Threads : ~Working(t)) => ~onTransaction /\ \A t \in Threads : buffer[t] = <<>>
=============================================================================
