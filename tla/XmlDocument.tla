---------------------------- MODULE XmlDocument ----------------------------
(***************************************************************************)
(* pparam::XParam::saveXmlDoc (src/xparam.cpp 78-116): the old document is *)
(* renamed to a name with the time of day, the new one is written in its   *)
(* place and the old one removed, or renamed back after an error: after a  *)
(* std::exception, which pparam::Exception is not.                         *)
(*                                                                         *)
(* A file is a name for a text; a stream stays on the text it has opened   *)
(* when the name goes to another one.                                      *)
(***************************************************************************)
EXTENDS Integers, FiniteSets

CONSTANTS
  Savers,
  MaxClock,     \* bound on the clock, in seconds
  Texts         \* texts of files, one more than can be in use at once

ASSUME ClockAssumption == MaxClock \in Nat \ {0}

\* The names with a time and the streams of the other savers do not use them up.
ASSUME TextsAssumption ==
  /\ Texts \subseteq Nat \ {0} /\ 1 \in Texts
  /\ IsFiniteSet(Texts) /\ IsFiniteSet(Savers) /\ Cardinality(Texts) >= MaxClock + Cardinality(Savers)

Doc   == 0                  \* the name of the document; other names are the times
Files == 0..MaxClock
NoText == 0

VARIABLES
  dir,      \* the text of every name
  text,     \* partial, whole, or mixed from two writers
  now,      \* the clock
  interrupted,  \* the process died or an exception left a save, and none has succeeded since
  sv        \* every saver: where it is, its time and its stream

documentVars == <<dir, text, now, interrupted, sv>>

Idle == [pc |-> "idle", time |-> 1, stream |-> NoText]

DocumentInit ==
  /\ dir = [n \in Files |-> IF n = Doc THEN 1 ELSE NoText]
  /\ text = [i \in Texts |-> IF i = 1 THEN "whole" ELSE "partial"]
  /\ now = 1 /\ interrupted = FALSE
  /\ sv = [s \in Savers |-> Idle]

Goto(s, pc) == sv' = [sv EXCEPT ![s].pc = pc]

\* Mutant of rename: the file keeps its old name as well.
renameKeeps(from, to) ==
  dir' = IF dir[from] = NoText THEN dir ELSE [dir EXCEPT ![to] = dir[from]]

\* Without a file of that name nothing happens.
rename(from, to) ==
  dir' = IF dir[from] = NoText THEN dir ELSE [dir EXCEPT ![to] = dir[from], ![from] = NoText]

SaveXmlDoc(s) ==
  /\ sv[s].pc = "idle"
  /\ sv' = [sv EXCEPT ![s] = [pc |-> "open", time |-> now, stream |-> NoText]]
  /\ rename(Doc, now)
  /\ UNCHANGED <<text, now, interrupted>>

\* Open truncates the file that has the name, or makes one.
Open(s) ==
  /\ sv[s].pc = "open"
  /\ LET unused == {j \in Texts : (\A n \in Files : dir[n] # j) /\ \A r \in Savers : sv[r].stream # j}
         i == IF dir[Doc] # NoText THEN dir[Doc] ELSE CHOOSE j \in unused : TRUE
     IN
       /\ dir' = [dir EXCEPT ![Doc] = i] /\ text' = [text EXCEPT ![i] = "partial"]
       /\ sv' = [sv EXCEPT ![s].pc = "write", ![s].stream = i]
  /\ UNCHANGED <<now, interrupted>>

\* Two writers of one text write over each other.
Write(s) ==
  /\ sv[s].pc = "write"
  /\ text' = [text EXCEPT ![sv[s].stream] = IF @ = "partial" THEN "whole" ELSE "mixed"]
  /\ Goto(s, "remove")
  /\ UNCHANGED <<dir, now, interrupted>>

\* A std::exception: the text cannot be made, the file not opened, or not
\* written.
Failed(s) == sv[s].pc \in {"open", "write"} /\ Goto(s, "restore") /\ UNCHANGED <<dir, text, now, interrupted>>

\* xml() of a client's parameter throws a pparam::Exception, which the handler
\* of saveXmlDoc does not catch: the old document keeps the name with the time.
Escaped(s) ==
  /\ sv[s].pc = "open" /\ interrupted' = TRUE
  /\ sv' = [sv EXCEPT ![s] = Idle]
  /\ UNCHANGED <<dir, text, now>>

RemoveOld(s) ==
  /\ sv[s].pc = "remove"
  /\ dir' = [dir EXCEPT ![sv[s].time] = NoText] /\ interrupted' = FALSE
  /\ text' = [i \in Texts |-> IF i = dir[sv[s].time] THEN "partial" ELSE text[i]]
  /\ sv' = [sv EXCEPT ![s] = Idle]
  /\ UNCHANGED now

\* Mutant of Restore: the old document keeps the name with the time.
RestoreNot(s) ==
  /\ sv[s].pc = "restore"
  /\ sv' = [sv EXCEPT ![s] = Idle]
  /\ UNCHANGED <<dir, text, now, interrupted>>

Restore(s) ==
  /\ sv[s].pc = "restore"
  /\ rename(sv[s].time, Doc)
  /\ sv' = [sv EXCEPT ![s] = Idle]
  /\ UNCHANGED <<text, now, interrupted>>

SaveStep(s) == Open(s) \/ Write(s) \/ Failed(s) \/ Escaped(s) \/ RemoveOld(s) \/ Restore(s)

Tick == now < MaxClock /\ now' = now + 1 /\ UNCHANGED <<dir, text, interrupted, sv>>

\* The process dies; it takes a second at least to start again.
Die ==
  /\ now < MaxClock /\ now' = now + 1
  /\ interrupted' = TRUE /\ sv' = [s \in Savers |-> Idle]
  /\ UNCHANGED <<dir, text>>

-----------------------------------------------------------------------------

Whole(n) == dir[n] # NoText /\ text[dir[n]] = "whole"

\* While nothing is being saved the document is in its place, whole, whether
\* the saves returned or threw; unless the process died in the middle of one or
\* a pparam::Exception of xml() left one, and none has succeeded since.
DocumentInPlace ==
  (\A s \in Savers : sv[s].pc = "idle") /\ ~interrupted => Whole(Doc)

\* And a whole document is always on the disk under some name, also when a save
\* was interrupted in that way, and the first one after that, too.
DocumentKept == DocumentInPlace /\ \E n \in Files : Whole(n)
=============================================================================
