----------------------------- MODULE XDBEngine -----------------------------
(***************************************************************************)
(* pparam::SQLiteDBEngine (src/xdbengine.cpp): while a transaction is open *)
(* the engine collects the commands of a thread and hands them over at the *)
(* commit.  What a database function of a parameter asks of the engine is  *)
(* a request, whose sequence of engine calls module DBFunctions gives.     *)
(*                                                                         *)
(* A command is a record, not a text; of SQLite it is used that a table    *)
(* has the columns it was created with, that its key is unique where it is *)
(* not NULL, and that a batch between BEGIN and COMMIT takes effect as a   *)
(* whole or, after ROLLBACK, not at all.                                   *)
(***************************************************************************)
EXTENDS Integers, SequencesExt

CONSTANTS
  Threads,
  Requests   \* what the database functions ask for

VARIABLES
  db,             \* the tables of the database file
  isconnected, onTransaction,
  buffer,         \* commands collected by every thread
  job             \* the request every thread works on

engineVars == <<db, isconnected, onTransaction, buffer, job>>

-----------------------------------------------------------------------------
(* Engine calls.  A parameter is known by its name and its key.             *)

Row    == [key : STRING, pkey : STRING, vals : Seq(Nat)]
Table  == [parent : STRING, rows : Seq(Row)]

\* A parameter: a mixture with a key, single values and sub-parameters; a set
\* of single values; a set of mixtures.  elem names the elements.
Mix(name, key, vals, kids) == [kind |-> "mix", name |-> name, elem |-> "", key |-> key, vals |-> vals, kids |-> kids]

NoParent == Mix("", "", <<>>, <<>>)

Command(sql, table, key, p, vals) ==
  [do |-> "execute", sql |-> sql, table |-> table, key |-> key, parent |-> p.name, pkey |-> p.key, vals |-> vals]

saveXParam(n, p)              == Command("insert", n.name, n.key, p, n.vals)
updateXParam(n, p)            == Command("update", n.name, n.key, p, n.vals)
removeXParam(n, p)            == Command("delete", n.name, n.key, p, <<>>)
removeXParamByParent(name, p) == Command("deleteByParent", name, "", p, <<>>)
createXParamStructure(name, p) == Command("create", name, "", p, <<>>)
destroyXParamStructure(name)  == Command("drop", name, "", NoParent, <<>>)
vacuum                        == Command("vacuum", "", "", NoParent, <<>>)

\* The calls of a parameter's database function, besides the commands.
Start    == [do |-> "start"]
Commit   == [do |-> "commit"]
Rollback == [do |-> "rollback"]
Throw    == [do |-> "throw"]

EngineCall ==
  [do : {"start", "commit", "rollback", "throw"}]
  \union [do : {"execute"},
          sql : {"insert", "update", "delete", "deleteByParent", "create", "drop", "vacuum"},
          table : STRING, key : STRING, parent : STRING, pkey : STRING, vals : Seq(Nat)]

IsCommand(c) == c.do = "execute"

\* A transaction is opened when nothing has been collected, is filled by
\* commands, and ends with a commit, or with a rollback and an exception, which
\* is the last a request does.  Vacuum alone does without.
InTransactions(calls) ==
  \A i \in DOMAIN calls :
    /\ calls[i] = Start => i < Len(calls) /\ (i = 1 \/ calls[i - 1] \in {Start, Commit})
    /\ IsCommand(calls[i]) =>
         \/ calls = <<vacuum>>
         \/ i \in 2..(Len(calls) - 1) /\ (calls[i - 1] = Start \/ IsCommand(calls[i - 1]))
    /\ calls[i] = Rollback => i + 1 = Len(calls) /\ calls[i + 1] = Throw
    /\ calls[i] = Throw => i = Len(calls) /\ i > 1 /\ calls[i - 1] = Rollback

\* All of a request is one transaction.
OneTransaction(calls) ==
  \A i \in DOMAIN calls : (calls[i] = Start => i = 1) /\ (calls[i] = Commit => i = Len(calls))

\* Each element of a set of mixtures that has no parent has its own.
ASSUME RequestAssumption ==
  \A r \in Requests :
    /\ r.calls \in Seq(EngineCall) /\ InTransactions(r.calls)
    /\ r.param.kind # "mixes" => OneTransaction(r.calls)

-----------------------------------------------------------------------------
(* What SQLite does with commands.                                          *)

\* The row a command is about: of that key, and of that parent if it names one.
Meets(c, r) == r.key = c.key /\ (c.parent = "" \/ r.pkey = c.pkey)

Succeeds(d, c) ==
  \/ c.sql \in {"create", "drop", "vacuum"}
  \/ /\ c.table \in DOMAIN d
     /\ c.parent \in {"", d[c.table].parent}
     /\ c.sql = "insert" =>
          /\ c.parent = d[c.table].parent
          /\ c.key = "" \/ \A i \in DOMAIN d[c.table].rows : ~Meets(c, d[c.table].rows[i])

Rows(d, c) == d[c.table].rows

\* The rows but those in out, in their order.
Without(rows, out) ==
  LET kept[i \in 0..Len(rows)] ==
        IF i = 0 THEN <<>> ELSE IF rows[i] \in out THEN kept[i - 1] ELSE Append(kept[i - 1], rows[i])
  IN kept[Len(rows)]

WithRows(d, c, rows) == [d EXCEPT ![c.table].rows = rows]

Effect(d, c) ==
  CASE c.sql = "create" -> [n \in DOMAIN d \union {c.table} |->
                              IF n \in DOMAIN d THEN d[n] ELSE [parent |-> c.parent, rows |-> <<>>]]
    [] c.sql = "vacuum" -> d
    [] c.sql = "drop" -> [n \in DOMAIN d \ {c.table} |-> d[n]]
    [] c.sql = "insert" -> WithRows(d, c, Append(Rows(d, c), [key |-> c.key, pkey |-> c.pkey, vals |-> c.vals]))
    [] c.sql = "update" ->
         WithRows(d, c, [i \in DOMAIN Rows(d, c) |->
                           IF Meets(c, Rows(d, c)[i]) THEN [Rows(d, c)[i] EXCEPT !.vals = c.vals] ELSE Rows(d, c)[i]])
    [] c.sql = "delete" -> WithRows(d, c, Without(Rows(d, c), {r \in Row : Meets(c, r)}))
    [] c.sql = "deleteByParent" -> WithRows(d, c, Without(Rows(d, c), {r \in Row : r.pkey = c.pkey}))

\* The commands of a batch up to the first one that fails.
Batch(d, cmds) ==
  LET done[i \in 0..Len(cmds)] ==
        IF i = 0 THEN [ok |-> TRUE, db |-> d]
        ELSE LET last == done[i - 1] IN
             IF last.ok /\ Succeeds(last.db, cmds[i])
             THEN [ok |-> TRUE, db |-> Effect(last.db, cmds[i])] ELSE [ok |-> FALSE, db |-> last.db]
  IN done[Len(cmds)]

-----------------------------------------------------------------------------
(* The engine.                                                              *)

\* left: the calls still to make; before: the tables when the request began;
\* thrown: how the last one ended.
NoRequest == [op |-> "none", param |-> NoParent, calls |-> <<>>, reads |-> {}]
NoTables  == [n \in {} |-> <<>>]
NoJob(thrown) == [request |-> NoRequest, left |-> <<>>, before |-> NoTables, thrown |-> thrown]

EngineInit ==
  /\ db = NoTables
  /\ isconnected = FALSE /\ onTransaction = FALSE
  /\ buffer = [t \in Threads |-> <<>>]
  /\ job = [t \in Threads |-> NoJob(FALSE)]

Working(t) == job[t].left # <<>>

connect == ~isconnected /\ isconnected' = TRUE /\ UNCHANGED <<db, onTransaction, buffer, job>>

\* Between calls, so that no transaction is left to roll back.
disconnect ==
  /\ isconnected /\ \A t \in Threads : ~Working(t)
  /\ isconnected' = FALSE /\ onTransaction' = FALSE
  /\ UNCHANGED <<db, buffer, job>>

\* dbLoad of object n of parent p finds its values in d.
Found(n, p, d) ==
  LET table == IF n.kind = "mix" THEN n.name ELSE n.elem
      mine  == SelectSeq(d[table].rows, LAMBDA r : (p = NoParent \/ r.pkey = p.key) /\ (n.kind # "mix" \/ r.key = n.key))
  IN /\ table \in DOMAIN d
     /\ p = NoParent \/ d[table].parent = p.name
     /\ CASE n.kind = "mix" -> Len(mine) = 1 /\ mine[1].vals = n.vals
          [] n.kind = "singles" -> [i \in DOMAIN mine |-> mine[i].vals[1]] = n.vals
          [] n.kind = "mixes" -> {mine[i].key : i \in DOMAIN mine} = {n.kids[i].key : i \in DOMAIN n.kids}

\* reads: the object of a request and all objects in it, each with its parent.
ReadsBack(reads, d) == \A x \in reads : Found(x.n, x.p, d)

\* An object is updated once it is stored.
Stored(n) == \E r \in Requests : r.param.key = n.key /\ ReadsBack(r.reads, db)

Begin(t) ==
  /\ isconnected /\ ~Working(t)
  /\ \E r \in Requests :
       /\ r.calls # <<>> /\ (r.op = "dbUpdate" => Stored(r.param))
       /\ job' = [job EXCEPT ![t] = [request |-> r, left |-> r.calls, before |-> db, thrown |-> FALSE]]
  /\ UNCHANGED <<db, isconnected, onTransaction, buffer>>

Does(t, do) == Working(t) /\ Head(job[t].left).do = do
Goes(t) ==
  LET rest == Tail(job[t].left) IN
  job' = [job EXCEPT ![t] = IF rest = <<>> THEN NoJob(FALSE) ELSE [@ EXCEPT !.left = rest]]
Throws(t) == job' = [job EXCEPT ![t] = NoJob(TRUE)]

startTransaction(t) ==
  Does(t, "start") /\ onTransaction' = TRUE /\ Goes(t) /\ UNCHANGED <<db, isconnected, buffer>>

execute(t) ==
  LET c == Head(job[t].left) IN
  /\ Does(t, "execute")
  /\ IF onTransaction THEN buffer' = [buffer EXCEPT ![t] = Append(@, c)] /\ Goes(t) /\ UNCHANGED db
     ELSE /\ UNCHANGED buffer
          /\ \/ Succeeds(db, c) /\ db' = Effect(db, c) /\ Goes(t)
             \/ Throws(t) /\ UNCHANGED db
  /\ UNCHANGED <<isconnected, onTransaction>>

\* Mutant of commitTransaction: no ROLLBACK and no BEGIN around the commands.
commitPartly(t) ==
  /\ Does(t, "commit") /\ onTransaction
  /\ db' = Batch(db, buffer[t]).db
  /\ (IF Batch(db, buffer[t]).ok THEN Goes(t) ELSE Throws(t))
  /\ buffer' = [buffer EXCEPT ![t] = <<>>] /\ onTransaction' = FALSE
  /\ UNCHANGED isconnected

\* A command may also fail for a reason outside, a full disk or a lock.
commitTransaction(t) ==
  /\ Does(t, "commit") /\ onTransaction
  /\ LET all == Batch(db, buffer[t]) IN
     \/ all.ok /\ db' = all.db /\ Goes(t)
     \/ Throws(t) /\ UNCHANGED db
  /\ buffer' = [buffer EXCEPT ![t] = <<>>] /\ onTransaction' = FALSE
  /\ UNCHANGED isconnected

\* Without a transaction the commit returns.
commitNothing(t) ==
  Does(t, "commit") /\ ~onTransaction /\ Goes(t) /\ UNCHANGED <<db, isconnected, onTransaction, buffer>>

\* Mutant of rollbackTransaction: the collected commands stay.
rollbackKeepsBuffer(t) ==
  Does(t, "rollback") /\ Goes(t) /\ onTransaction' = FALSE /\ UNCHANGED <<db, isconnected, buffer>>

rollbackTransaction(t) ==
  /\ Does(t, "rollback") /\ Goes(t)
  /\ onTransaction' = FALSE
  /\ buffer' = IF onTransaction THEN [buffer EXCEPT ![t] = <<>>] ELSE buffer
  /\ UNCHANGED <<db, isconnected>>

throw(t) == Does(t, "throw") /\ Throws(t) /\ UNCHANGED <<db, isconnected, onTransaction, buffer>>

EngineStep(t) == \/ startTransaction(t) \/ execute(t) \/ commitTransaction(t) \/ commitNothing(t)
                 \/ rollbackTransaction(t) \/ throw(t)
=============================================================================
