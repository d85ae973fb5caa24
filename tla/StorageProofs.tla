---------------------------- MODULE StorageProofs ----------------------------
(***************************************************************************)
(* What holds of the database and of the document for every set of         *)
(* requests, every clock and all the texts there may be.  The types hold   *)
(* for any number of threads; what a request or a save leaves behind is    *)
(* proved for one thread: with two of them in one engine, or saving one    *)
(* document, the code loses it.                                            *)
(***************************************************************************)
EXTENDS Storage, SequenceTheorems, FiniteSetTheorems, WellFoundedInduction, TLAPS

OneThread == \E t : Threads = {t}

-----------------------------------------------------------------------------
(* The document: types and names.                                           *)

SaverType == [pc : {"idle", "open", "write", "remove", "restore"}, time : 1..MaxClock, stream : Texts \union {NoText}]

\* No text has two names, and no stream is open before Open.
DocumentTypes ==
  /\ dir \in [Files -> Texts \union {NoText}] /\ text \in [Texts -> {"partial", "whole", "mixed"}]
  /\ \A m, n \in Files : dir[m] = dir[n] /\ dir[m] # NoText => m = n
  /\ now \in 1..MaxClock /\ interrupted \in BOOLEAN
  /\ sv \in [Savers -> SaverType]
  /\ \A s \in Savers : sv[s].pc \in {"idle", "open"} => sv[s].stream = NoText

\* The texts that Open may give to a new file.
Unused == {j \in Texts : (\A n \in Files : dir[n] # j) /\ \A r \in Savers : sv[r].stream # j}

LEMMA FileFacts ==
  /\ Doc \in Files /\ 1..MaxClock \subseteq Files /\ NoText \notin Texts /\ 1 \in Texts /\ MaxClock \in Nat
  /\ \A n \in 1..MaxClock : n # Doc
  /\ \A n \in Files : n \in Int
BY ClockAssumption, TextsAssumption DEF Doc, Files, NoText

LEMMA ImageIsSmaller ==
  ASSUME NEW S, IsFiniteSet(S), NEW T, NEW f \in [S -> T], \A y \in T : \E x \in S : f[x] = y
  PROVE  IsFiniteSet(T) /\ Cardinality(T) <= Cardinality(S)
<1>1. f \in Surjection(S, T)
  BY DEF Surjection
<1> QED BY <1>1, FS_Surjection

\* A file can be opened: names and streams do not use up the texts.
LEMMA TextLeft ==
  ASSUME DocumentTypes, NEW s \in Savers, sv[s].pc = "open", dir[Doc] = NoText
  PROVE  Unused # {}
<1> SUFFICES ASSUME Unused = {} PROVE FALSE
  OBVIOUS
<1> DEFINE names == {dir[n] : n \in 1..MaxClock}
           streams == {sv[r].stream : r \in Savers \ {s}}
<1>1. Texts \subseteq names \union streams
  <2> SUFFICES ASSUME NEW j \in Texts PROVE j \in names \union streams
    OBVIOUS
  <2>1. j # NoText /\ sv[s].stream = NoText
    BY FileFacts DEF DocumentTypes
  <2>2. PICK n \in Files : (\E m \in Files : dir[m] = j) => dir[n] = j
    BY FileFacts
  <2>3. CASE dir[n] = j
    <3>1. n # Doc
      BY <2>1, <2>3
    <3>2. n \in 1..MaxClock
      BY <3>1, FileFacts DEF Doc, Files
    <3> QED BY <2>3, <3>2
  <2>4. CASE \E r \in Savers : sv[r].stream = j
    BY <2>1, <2>4
  <2> QED BY <2>2, <2>3, <2>4 DEF Unused
<1>2. IsFiniteSet(names) /\ Cardinality(names) <= MaxClock
  <2>1. IsFiniteSet(1..MaxClock) /\ Cardinality(1..MaxClock) = MaxClock
    BY FS_Interval, FileFacts, ClockAssumption
  <2>2. [n \in 1..MaxClock |-> dir[n]] \in [1..MaxClock -> names]
    OBVIOUS
  <2>3. \A y \in names : \E n \in 1..MaxClock : [m \in 1..MaxClock |-> dir[m]][n] = y
    OBVIOUS
  <2> HIDE DEF names
  <2>4. IsFiniteSet(names) /\ Cardinality(names) <= Cardinality(1..MaxClock)
    BY <2>1, <2>2, <2>3, ImageIsSmaller
  <2> QED BY <2>1, <2>4
<1>3. IsFiniteSet(streams) /\ Cardinality(streams) <= Cardinality(Savers) - 1
  <2>1. IsFiniteSet(Savers \ {s}) /\ Cardinality(Savers \ {s}) = Cardinality(Savers) - 1
    BY FS_RemoveElement, TextsAssumption
  <2>2. [r \in Savers \ {s} |-> sv[r].stream] \in [Savers \ {s} -> streams]
    OBVIOUS
  <2>3. \A y \in streams : \E r \in Savers \ {s} : [q \in Savers \ {s} |-> sv[q].stream][r] = y
    OBVIOUS
  <2> HIDE DEF streams
  <2>4. IsFiniteSet(streams) /\ Cardinality(streams) <= Cardinality(Savers \ {s})
    BY <2>1, <2>2, <2>3, ImageIsSmaller
  <2> QED BY <2>1, <2>4
<1> HIDE DEF names, streams
<1>4. IsFiniteSet(names \union streams) /\ Cardinality(names \union streams) <= Cardinality(names) + Cardinality(streams)
  <2>1. IsFiniteSet(names \intersect streams)
    BY <1>2, FS_Intersection
  <2>2. /\ Cardinality(names \intersect streams) \in Nat /\ Cardinality(names) \in Nat
        /\ Cardinality(streams) \in Nat
    BY <1>2, <1>3, <2>1, FS_CardinalityType
  <2>3. /\ IsFiniteSet(names \union streams)
        /\ Cardinality(names \union streams)
             = Cardinality(names) + Cardinality(streams) - Cardinality(names \intersect streams)
    BY <1>2, <1>3, FS_Union
  <2> QED BY <2>2, <2>3
<1>5. Cardinality(Texts) <= Cardinality(names \union streams)
  BY <1>1, <1>4, FS_Subset
<1>6. Cardinality(Texts) < MaxClock + Cardinality(Savers)
  BY <1>2, <1>3, <1>4, <1>5, FileFacts, TextsAssumption, FS_CardinalityType
<1> QED BY <1>6, TextsAssumption, FileFacts, FS_CardinalityType

\* What rename does to names: one of them goes.
LEMMA Renamed ==
  ASSUME DocumentTypes, NEW from \in Files, NEW to \in Files, from # to, rename(from, to)
  PROVE  /\ dir' \in [Files -> Texts \union {NoText}]
         /\ \A m, n \in Files : dir'[m] = dir'[n] /\ dir'[m] # NoText => m = n
         /\ dir'[from] = NoText
         /\ dir'[to] = (IF dir[from] = NoText THEN dir[to] ELSE dir[from])
         /\ \A n \in Files \ {from, to} : dir'[n] = dir[n]
<1>1. CASE dir[from] = NoText
  BY <1>1 DEF DocumentTypes, rename
<1>2. CASE dir[from] # NoText
  <2>1. dir' = [dir EXCEPT ![to] = dir[from], ![from] = NoText]
    BY <1>2 DEF rename
  <2>2. \A n \in Files : dir'[n] = IF n = from THEN NoText ELSE IF n = to THEN dir[from] ELSE dir[n]
    BY <2>1 DEF DocumentTypes
  <2>3. dir' \in [Files -> Texts \union {NoText}]
    BY <2>1 DEF DocumentTypes
  <2> QED BY <1>2, <2>2, <2>3 DEF DocumentTypes
<1> QED BY <1>1, <1>2

LEMMA OpenedText ==
  ASSUME DocumentTypes, NEW s \in Savers, Open(s)
  PROVE  \E i \in Texts :
           /\ IF dir[Doc] # NoText THEN i = dir[Doc] ELSE i \in Unused
           /\ dir' = [dir EXCEPT ![Doc] = i] /\ text' = [text EXCEPT ![i] = "partial"]
           /\ sv' = [sv EXCEPT ![s].pc = "write", ![s].stream = i]
<1> DEFINE i == IF dir[Doc] # NoText THEN dir[Doc] ELSE CHOOSE j \in Unused : TRUE
<1>1. dir[Doc] = NoText => i \in Unused
  BY TextLeft DEF Open
<1>2. i \in Texts
  BY <1>1, FileFacts DEF DocumentTypes, Unused
<1>3. /\ dir' = [dir EXCEPT ![Doc] = i] /\ text' = [text EXCEPT ![i] = "partial"]
      /\ sv' = [sv EXCEPT ![s].pc = "write", ![s].stream = i]
  BY DEF Open, Unused
<1> QED BY <1>1, <1>2, <1>3

LEMMA DocumentTypesInit ==
  ASSUME DocumentInit PROVE DocumentTypes
<1> USE FileFacts, ClockAssumption
<1>1. dir \in [Files -> Texts \union {NoText}] /\ text \in [Texts -> {"partial", "whole", "mixed"}]
  BY DEF DocumentInit
<1>2. \A m, n \in Files : dir[m] = dir[n] /\ dir[m] # NoText => m = n
  BY DEF DocumentInit
<1>3. sv \in [Savers -> SaverType] /\ \A s \in Savers : sv[s].stream = NoText
  BY DEF DocumentInit, Idle, SaverType
<1>4. now \in 1..MaxClock
  BY DEF DocumentInit
<1>5. interrupted \in BOOLEAN
  BY Zenon DEF DocumentInit
<1> QED BY <1>1, <1>2, <1>3, <1>4, <1>5 DEF DocumentTypes

LEMMA DocumentTypesSave ==
  ASSUME DocumentTypes, NEW s \in Savers, SaveXmlDoc(s) \/ SaveStep(s)
  PROVE  DocumentTypes'
<1> USE FileFacts
<1>0. sv[s] \in SaverType /\ sv[s].time \in 1..MaxClock /\ sv[s].stream \in Texts \union {NoText}
  BY DEF DocumentTypes, SaverType
<1>1. CASE SaveXmlDoc(s)
  <2>1. UNCHANGED <<text, now, interrupted>> /\ rename(Doc, now) /\ Doc # now /\ now \in Files
    BY <1>1 DEF SaveXmlDoc, DocumentTypes
  <2>2. sv' \in [Savers -> SaverType]
    BY <1>1 DEF SaveXmlDoc, DocumentTypes, SaverType
  <2>3. \A r \in Savers : sv'[r].pc \in {"idle", "open"} => sv'[r].stream = NoText
    BY <1>1 DEF SaveXmlDoc, DocumentTypes
  <2> QED BY <2>1, <2>2, <2>3, Renamed DEF DocumentTypes
<1>2. CASE Open(s)
  <2>1. PICK i \in Texts :
           /\ IF dir[Doc] # NoText THEN i = dir[Doc] ELSE i \in Unused
           /\ dir' = [dir EXCEPT ![Doc] = i] /\ text' = [text EXCEPT ![i] = "partial"]
           /\ sv' = [sv EXCEPT ![s].pc = "write", ![s].stream = i]
    BY <1>2, OpenedText
  <2>2. dir' \in [Files -> Texts \union {NoText}] /\ text' \in [Texts -> {"partial", "whole", "mixed"}]
    BY <2>1 DEF DocumentTypes
  <2>3. \A n \in Files \ {Doc} : dir[n] # i
    BY <2>1 DEF DocumentTypes, Unused
  <2>4. \A m, n \in Files : dir'[m] = dir'[n] /\ dir'[m] # NoText => m = n
    BY <2>1, <2>3 DEF DocumentTypes
  <2>5. sv' \in [Savers -> SaverType]
    BY <2>1 DEF DocumentTypes, SaverType
  <2>6. \A r \in Savers : sv'[r].pc \in {"idle", "open"} => sv'[r].stream = NoText
    BY <2>1 DEF DocumentTypes, SaverType
  <2>7. UNCHANGED <<now, interrupted>>
    BY <1>2 DEF Open
  <2> QED BY <2>2, <2>4, <2>5, <2>6, <2>7 DEF DocumentTypes
<1>3. CASE Write(s)
  <2>1. text' \in [Texts -> {"partial", "whole", "mixed"}]
    BY <1>3 DEF Write, DocumentTypes
  <2>2. sv' \in [Savers -> SaverType] /\ \A r \in Savers : sv'[r].pc \in {"idle", "open"} => sv'[r].stream = NoText
    BY <1>3, <1>0 DEF Write, Goto, DocumentTypes, SaverType
  <2> QED BY <1>3, <2>1, <2>2 DEF Write, DocumentTypes
<1>4. CASE Failed(s)
  <2>1. sv' \in [Savers -> SaverType] /\ \A r \in Savers : sv'[r].pc \in {"idle", "open"} => sv'[r].stream = NoText
    BY <1>4, <1>0 DEF Failed, Goto, DocumentTypes, SaverType
  <2> QED BY <1>4, <2>1 DEF Failed, DocumentTypes
<1>5. CASE RemoveOld(s)
  <2>1. sv' \in [Savers -> SaverType] /\ \A r \in Savers : sv'[r].pc \in {"idle", "open"} => sv'[r].stream = NoText
    BY <1>5, ClockAssumption DEF RemoveOld, Idle, DocumentTypes, SaverType
  <2>2. text' \in [Texts -> {"partial", "whole", "mixed"}]
    BY <1>5 DEF RemoveOld, DocumentTypes
  <2>3. dir' = [dir EXCEPT ![sv[s].time] = NoText] /\ interrupted' = FALSE /\ now' = now
    BY <1>5 DEF RemoveOld
  <2> QED BY <1>0, <2>1, <2>2, <2>3 DEF DocumentTypes
<1>6. CASE Restore(s)
  <2>1. rename(sv[s].time, Doc) /\ sv[s].time \in Files /\ sv[s].time # Doc /\ UNCHANGED <<text, now, interrupted>>
    BY <1>6, <1>0 DEF Restore
  <2>2. sv' \in [Savers -> SaverType] /\ \A r \in Savers : sv'[r].pc \in {"idle", "open"} => sv'[r].stream = NoText
    BY <1>6, ClockAssumption DEF Restore, Idle, DocumentTypes, SaverType
  <2> QED BY <2>1, <2>2, Renamed DEF DocumentTypes
<1>7. CASE Escaped(s)
  <2>1. sv' \in [Savers -> SaverType] /\ \A r \in Savers : sv'[r].pc \in {"idle", "open"} => sv'[r].stream = NoText
    BY <1>7, ClockAssumption DEF Escaped, Idle, DocumentTypes, SaverType
  <2> QED BY <1>7, <2>1 DEF Escaped, DocumentTypes
<1> QED BY <1>1, <1>2, <1>3, <1>4, <1>5, <1>6, <1>7 DEF SaveStep

LEMMA DocumentTypesOther ==
  ASSUME DocumentTypes, Tick \/ Die \/ UNCHANGED documentVars
  PROVE  DocumentTypes'
<1> USE FileFacts
<1>1. CASE Tick
  BY <1>1 DEF Tick, DocumentTypes
<1>2. CASE Die
  BY <1>2, ClockAssumption DEF Die, DocumentTypes, Idle, SaverType
<1>3. CASE UNCHANGED documentVars
  BY <1>3 DEF documentVars, DocumentTypes
<1> QED BY <1>1, <1>2, <1>3

-----------------------------------------------------------------------------
(* The document is kept.                                                    *)

\* What a save has done so far.  The name with its time is free when it begins,
\* or there is no document to be renamed: an exception left a save of the same
\* second.  Until it has written the new document an old one is under such a
\* name, the one that was the document unless a save was interrupted before.
SaveInv ==
  \A s \in Savers :
    /\ sv[s].pc = "idle" => /\ dir[now] = NoText \/ dir[Doc] = NoText
                            /\ \A n \in (now + 1)..MaxClock : dir[n] = NoText
    /\ sv[s].pc # "idle" => sv[s].time <= now /\ \A n \in (sv[s].time + 1)..MaxClock : dir[n] = NoText
    /\ sv[s].pc = "open" => dir[Doc] = NoText
    /\ sv[s].pc = "write" => sv[s].stream = dir[Doc] /\ dir[Doc] # NoText /\ text[dir[Doc]] = "partial"
    /\ sv[s].pc = "remove" => Whole(Doc)
    /\ sv[s].pc \in {"open", "write", "restore"} =>
         (\E n \in 1..MaxClock : Whole(n)) /\ (~interrupted => Whole(sv[s].time))

DocumentInv == DocumentTypes /\ SaveInv /\ DocumentKept

LEMMA DocumentInvInit ==
  ASSUME DocumentInit PROVE DocumentInv
<1> USE FileFacts, ClockAssumption
<1>1. DocumentTypes
  BY DocumentTypesInit
<1>2. Whole(Doc)
  <2>1. dir[Doc] = 1 /\ text[1] = "whole" /\ 1 # NoText
    BY DEF DocumentInit
  <2> QED BY <2>1 DEF Whole
<1>3. \A s \in Savers : sv[s].pc = "idle"
  BY DEF DocumentInit, Idle
<1>4. dir[now] = NoText /\ \A n \in (now + 1)..MaxClock : dir[n] = NoText
  BY DEF DocumentInit, Files, Doc
<1> QED BY <1>1, <1>2, <1>3, <1>4 DEF DocumentInv, SaveInv, DocumentKept, DocumentInPlace

LEMMA SaveXmlDocKeeps ==
  ASSUME OneThread, SameThreads, DocumentInv, NEW s \in Savers, SaveXmlDoc(s)
  PROVE  SaveInv' /\ DocumentKept'
<1> USE FileFacts
<1>1. /\ sv[s].pc = "idle" /\ UNCHANGED <<text, now, interrupted>> /\ rename(Doc, now) /\ DocumentTypes
      /\ sv'[s] = [pc |-> "open", time |-> now, stream |-> NoText]
      /\ Doc # now /\ now \in Files /\ now \in 1..MaxClock
  BY DEF SaveXmlDoc, DocumentInv, DocumentTypes
<1>2. \A n \in (now + 1)..MaxClock : dir[n] = NoText
  BY <1>1 DEF DocumentInv, SaveInv
<1>3. dir[now] = NoText \/ dir[Doc] = NoText
  BY <1>1 DEF DocumentInv, SaveInv
<1>4. /\ dir'[Doc] = NoText
      /\ dir'[now] = (IF dir[Doc] = NoText THEN dir[now] ELSE dir[Doc])
      /\ \A n \in Files \ {Doc, now} : dir'[n] = dir[n]
  BY <1>1, Renamed
<1>5. Whole(Doc) => Whole(now)'
  BY <1>1, <1>4 DEF Whole
<1>6. \A n \in Files \ {Doc} : Whole(n) => Whole(n)'
  BY <1>1, <1>3, <1>4 DEF Whole
<1>7. \E n \in 1..MaxClock : Whole(n)'
  <2>1. PICK n \in Files : Whole(n)
    BY DEF DocumentInv, DocumentKept
  <2>2. n # Doc => n \in 1..MaxClock
    BY DEF Files, Doc
  <2> QED BY <1>1, <1>5, <1>6, <2>1, <2>2
<1>8. ~interrupted => Whole(now)'
  <2>1. \A r \in Savers : sv[r].pc = "idle"
    BY <1>1 DEF OneThread, SameThreads
  <2> QED BY <1>5, <2>1 DEF DocumentInv, DocumentKept, DocumentInPlace
<1>9. SaveInv'
  <2>1. \A n \in (now + 1)..MaxClock : dir'[n] = NoText
    <3>1. \A n \in (now + 1)..MaxClock : n \in Files \ {Doc, now}
      BY <1>1 DEF Files, Doc
    <3> QED BY <1>2, <1>4, <3>1
  <2>2. now' = now /\ now <= now
    BY <1>1
  <2> QED BY <1>1, <1>4, <1>7, <1>8, <2>1, <2>2 DEF SaveInv, OneThread, SameThreads
<1>10. DocumentKept'
  BY <1>1, <1>7 DEF DocumentKept, DocumentInPlace
<1> QED BY <1>9, <1>10

LEMMA OpenKeeps ==
  ASSUME OneThread, SameThreads, DocumentInv, NEW s \in Savers, Open(s)
  PROVE  SaveInv' /\ DocumentKept'
<1> USE FileFacts
<1>1. /\ sv[s].pc = "open" /\ UNCHANGED <<now, interrupted>> /\ DocumentTypes /\ dir[Doc] = NoText
      /\ sv[s].time \in 1..MaxClock /\ sv[s].time <= now /\ \A n \in (sv[s].time + 1)..MaxClock : dir[n] = NoText
  BY DEF Open, DocumentInv, SaveInv, DocumentTypes, SaverType
<1>2. PICK i \in Unused :
           /\ dir' = [dir EXCEPT ![Doc] = i] /\ text' = [text EXCEPT ![i] = "partial"]
           /\ sv' = [sv EXCEPT ![s].pc = "write", ![s].stream = i]
  BY <1>1, OpenedText
<1>3. i \in Texts /\ i # NoText /\ \A n \in Files : dir[n] # i
  BY DEF Unused
<1>4. dir'[Doc] = i /\ text'[i] = "partial" /\ \A n \in Files \ {Doc} : dir'[n] = dir[n]
  BY <1>1, <1>2, <1>3 DEF DocumentTypes
<1>5. \A j \in Texts \ {i} : text'[j] = text[j]
  BY <1>1, <1>2, <1>3 DEF DocumentTypes
<1>6. \A n \in 1..MaxClock : Whole(n) => Whole(n)'
  BY <1>1, <1>3, <1>4, <1>5 DEF Whole, DocumentTypes
<1>7. sv'[s].pc = "write" /\ sv'[s].stream = i /\ sv'[s].time = sv[s].time
  BY <1>1, <1>2 DEF DocumentTypes, SaverType
<1>8. (\E n \in 1..MaxClock : Whole(n)') /\ ((~interrupted)' => Whole(sv[s].time)')
  <2>1. (\E n \in 1..MaxClock : Whole(n)) /\ (~interrupted => Whole(sv[s].time))
    BY <1>1 DEF DocumentInv, SaveInv
  <2>2. (\E n \in 1..MaxClock : Whole(n)') /\ (~interrupted => \E n \in 1..MaxClock : n = sv[s].time /\ Whole(n)')
    BY <1>1, <1>6, <2>1
  <2> QED BY <1>1, <1>7, <2>2 DEF Whole
<1>9. SaveInv'
  <2>1. \A n \in (sv[s].time + 1)..MaxClock : n \in Files \ {Doc} /\ dir'[n] = NoText
    BY <1>1, <1>4 DEF Files, Doc
  <2>2. sv'[s].stream = dir'[Doc] /\ dir'[Doc] # NoText /\ text'[dir'[Doc]] = "partial"
    BY <1>3, <1>4, <1>7
  <2>3. sv'[s].time <= now' /\ \A n \in (sv'[s].time + 1)..MaxClock : dir'[n] = NoText
    BY <1>1, <1>7, <2>1
  <2>4. \A r \in Savers : r = s
    BY DEF OneThread, SameThreads
  <2> QED BY <1>7, <1>8, <2>2, <2>3, <2>4 DEF SaveInv
<1>10. DocumentKept'
  BY <1>7, <1>8 DEF DocumentKept, DocumentInPlace
<1> QED BY <1>9, <1>10

LEMMA WriteKeeps ==
  ASSUME OneThread, SameThreads, DocumentInv, NEW s \in Savers, Write(s)
  PROVE  SaveInv' /\ DocumentKept'
<1> USE FileFacts
<1>1. /\ sv[s].pc = "write" /\ UNCHANGED <<dir, now, interrupted>> /\ DocumentTypes
      /\ sv[s].stream = dir[Doc] /\ dir[Doc] # NoText /\ text[dir[Doc]] = "partial" /\ dir[Doc] \in Texts
      /\ sv[s].time <= now /\ \A n \in (sv[s].time + 1)..MaxClock : dir[n] = NoText
  BY DEF Write, DocumentInv, SaveInv, DocumentTypes
<1>2. Whole(Doc)'
  BY <1>1 DEF Write, Whole, DocumentTypes
<1>3. sv'[s].pc = "remove" /\ sv'[s].time = sv[s].time
  BY <1>1 DEF Write, Goto, DocumentTypes, SaverType
<1> QED BY <1>1, <1>2, <1>3 DEF SaveInv, DocumentKept, DocumentInPlace, OneThread, SameThreads

LEMMA FailedKeeps ==
  ASSUME OneThread, SameThreads, DocumentInv, NEW s \in Savers, Failed(s)
  PROVE  SaveInv' /\ DocumentKept'
<1> USE FileFacts
<1>1. /\ sv[s].pc \in {"open", "write"} /\ UNCHANGED <<dir, text, now, interrupted>> /\ DocumentTypes
      /\ sv[s].time <= now /\ \A n \in (sv[s].time + 1)..MaxClock : dir[n] = NoText
  BY DEF Failed, DocumentInv, SaveInv
<1>2. sv'[s].pc = "restore" /\ sv'[s].time = sv[s].time
  BY <1>1 DEF Failed, Goto, DocumentTypes, SaverType
<1>3. \A n : Whole(n)' <=> Whole(n)
  BY <1>1 DEF Whole
<1>4. (\E n \in 1..MaxClock : Whole(n)) /\ (~interrupted => Whole(sv[s].time))
  BY <1>1 DEF DocumentInv, SaveInv
<1>5. (\E n \in 1..MaxClock : Whole(n)') /\ ((~interrupted)' => Whole(sv[s].time)')
  <2>1. (\E n \in 1..MaxClock : Whole(n)') /\ (~interrupted => \E n : n = sv[s].time /\ Whole(n)')
    BY <1>3, <1>4
  <2> QED BY <1>1, <1>2, <2>1 DEF Whole
<1>6. SaveInv'
  <2>1. sv'[s].time <= now' /\ \A n \in (sv'[s].time + 1)..MaxClock : dir'[n] = NoText
    BY <1>1, <1>2
  <2>2. \A r \in Savers : r = s
    BY DEF OneThread, SameThreads
  <2> QED BY <1>2, <1>5, <2>1, <2>2 DEF SaveInv
<1> QED BY <1>2, <1>5, <1>6 DEF DocumentKept, DocumentInPlace

LEMMA EscapedKeeps ==
  ASSUME OneThread, SameThreads, DocumentInv, NEW s \in Savers, Escaped(s)
  PROVE  SaveInv' /\ DocumentKept'
<1> USE FileFacts
<1>1. /\ sv[s].pc = "open" /\ UNCHANGED <<dir, text, now>> /\ interrupted' = TRUE /\ DocumentTypes
      /\ sv[s].time \in 1..MaxClock /\ sv[s].time <= now /\ dir[Doc] = NoText
      /\ \A n \in (sv[s].time + 1)..MaxClock : dir[n] = NoText
      /\ sv'[s] = Idle
  BY DEF Escaped, DocumentInv, SaveInv, DocumentTypes, SaverType
<1>2. \A n \in (now + 1)..MaxClock : dir'[n] = NoText
  <2>1. \A n \in (now + 1)..MaxClock : n \in (sv[s].time + 1)..MaxClock
    BY <1>1 DEF DocumentTypes
  <2> QED BY <1>1, <2>1
<1>3. \A r \in Savers : sv'[r].pc = "idle"
  BY <1>1 DEF Idle, OneThread, SameThreads
<1>4. SaveInv'
  BY <1>1, <1>2, <1>3 DEF SaveInv
<1>5. \E n \in Files : Whole(n)'
  BY <1>1 DEF DocumentInv, DocumentKept, Whole
<1> QED BY <1>1, <1>4, <1>5 DEF DocumentKept, DocumentInPlace

LEMMA RemoveOldKeeps ==
  ASSUME OneThread, SameThreads, DocumentInv, NEW s \in Savers, RemoveOld(s)
  PROVE  SaveInv' /\ DocumentKept'
<1> USE FileFacts
<1>1. /\ sv[s].pc = "remove" /\ now' = now /\ DocumentTypes /\ Whole(Doc)
      /\ sv[s].time \in 1..MaxClock /\ sv[s].time <= now /\ \A n \in (sv[s].time + 1)..MaxClock : dir[n] = NoText
      /\ sv'[s] = Idle
  BY DEF RemoveOld, DocumentInv, SaveInv, DocumentTypes, SaverType
<1>2. dir' = [dir EXCEPT ![sv[s].time] = NoText]
      /\ text' = [i \in Texts |-> IF i = dir[sv[s].time] THEN "partial" ELSE text[i]]
  BY DEF RemoveOld
<1>3. dir[Doc] # dir[sv[s].time]
  BY <1>1 DEF Whole, DocumentTypes
<1>4. dir'[Doc] = dir[Doc] /\ text'[dir[Doc]] = text[dir[Doc]]
  BY <1>1, <1>2, <1>3 DEF Whole, DocumentTypes
<1>5. Whole(Doc)'
  BY <1>1, <1>4 DEF Whole
<1>6. \A n \in now..MaxClock : n \in Files /\ dir'[n] = NoText
  BY <1>1, <1>2 DEF DocumentTypes, Files
<1>7. \A r \in Savers : sv'[r].pc = "idle"
  BY <1>1 DEF Idle, OneThread, SameThreads
<1>8. SaveInv'
  <2>1. now \in now..MaxClock /\ \A n \in (now + 1)..MaxClock : n \in now..MaxClock
    BY <1>1, FileFacts DEF DocumentTypes
  <2> QED BY <1>1, <1>6, <1>7, <2>1 DEF SaveInv
<1> QED BY <1>5, <1>8 DEF DocumentKept, DocumentInPlace

LEMMA RestoreKeeps ==
  ASSUME OneThread, SameThreads, DocumentInv, NEW s \in Savers, Restore(s)
  PROVE  SaveInv' /\ DocumentKept'
<1> USE FileFacts
<1> DEFINE time == sv[s].time
<1>1. /\ sv[s].pc = "restore" /\ UNCHANGED <<text, now, interrupted>> /\ DocumentTypes /\ rename(time, Doc)
      /\ time \in 1..MaxClock /\ time <= now /\ \A n \in (time + 1)..MaxClock : dir[n] = NoText
      /\ sv'[s] = Idle
  BY DEF Restore, DocumentInv, SaveInv, DocumentTypes, SaverType
<1>2. (\E n \in 1..MaxClock : Whole(n)) /\ (~interrupted => Whole(time))
  BY <1>1 DEF DocumentInv, SaveInv
<1> HIDE DEF time
<1>3. /\ dir'[time] = NoText /\ dir'[Doc] = (IF dir[time] = NoText THEN dir[Doc] ELSE dir[time])
      /\ \A n \in Files \ {time, Doc} : dir'[n] = dir[n]
  BY <1>1, Renamed
<1>4. Whole(time) => Whole(Doc)'
  BY <1>1, <1>3 DEF Whole
<1>5. \A n \in 1..MaxClock \ {time} : Whole(n) => Whole(n)'
  BY <1>1, <1>3 DEF Whole
<1>6. \A n \in now..MaxClock : dir'[n] = NoText
  <2> SUFFICES ASSUME NEW n \in now..MaxClock, n # time PROVE dir'[n] = NoText
    BY <1>3
  <2>1. n \in (time + 1)..MaxClock /\ n \in Files \ {time, Doc}
    BY <1>1 DEF DocumentTypes, Files, Doc
  <2> QED BY <1>1, <1>3, <2>1
<1>7. \A r \in Savers : sv'[r].pc = "idle"
  BY <1>1 DEF Idle, OneThread, SameThreads
<1>8. SaveInv'
  <2>1. now \in now..MaxClock /\ \A n \in (now + 1)..MaxClock : n \in now..MaxClock
    BY <1>1, FileFacts DEF DocumentTypes
  <2> QED BY <1>1, <1>6, <1>7, <2>1 DEF SaveInv
<1>9. (~interrupted)' => Whole(Doc)'
  BY <1>1, <1>2, <1>4
<1>10. \E n \in Files : Whole(n)'
  BY <1>2, <1>4, <1>5
<1> QED BY <1>8, <1>9, <1>10 DEF DocumentKept, DocumentInPlace

\* A crash at any step of a save: the text that is whole stays so.
LEMMA DieKeeps ==
  ASSUME DocumentInv, Die
  PROVE  SaveInv' /\ DocumentKept'
<1> USE FileFacts
<1>1. /\ UNCHANGED <<dir, text>> /\ interrupted' = TRUE /\ now' = now + 1 /\ now \in 1..MaxClock
      /\ sv' = [s \in Savers |-> Idle] /\ DocumentTypes
  BY DEF Die, DocumentInv, DocumentTypes
<1>2. \A s \in Savers : \A n \in (now + 1)..MaxClock : dir[n] = NoText
  <2> SUFFICES ASSUME NEW s \in Savers, NEW n \in (now + 1)..MaxClock PROVE dir[n] = NoText
    OBVIOUS
  <2>1. sv[s].time \in 1..MaxClock
    BY <1>1 DEF DocumentTypes, SaverType
  <2>2. sv[s].time <= now => n \in (sv[s].time + 1)..MaxClock
    BY <1>1, <2>1
  <2> QED BY <2>2 DEF DocumentInv, SaveInv
<1>3. SaveInv'
  <2>1. \A n \in (now' + 1)..MaxClock : n \in (now + 1)..MaxClock
    BY <1>1
  <2>2. now' \in (now + 1)..MaxClock
    BY <1>1, FileFacts DEF Die
  <2> QED BY <1>1, <1>2, <2>1, <2>2 DEF SaveInv, Idle
<1>4. DocumentKept'
  BY <1>1 DEF DocumentInv, DocumentKept, DocumentInPlace, Whole
<1> QED BY <1>3, <1>4

LEMMA TickKeeps ==
  ASSUME DocumentInv, Tick
  PROVE  SaveInv' /\ DocumentKept'
<1>1. UNCHANGED <<dir, text, interrupted, sv>> /\ now' = now + 1 /\ now \in 1..MaxClock /\ DocumentTypes
  BY DEF Tick, DocumentInv, DocumentTypes
<1>2. \A s \in Savers : sv[s].time \in Int
  BY <1>1, FileFacts DEF DocumentTypes, SaverType
<1>3. now' \in (now + 1)..MaxClock /\ \A n \in (now' + 1)..MaxClock : n \in (now + 1)..MaxClock
  BY <1>1, FileFacts DEF Tick
<1>4. \A s \in Savers : sv[s].time <= now => sv[s].time <= now + 1
  BY <1>1, <1>2
<1>5. \A n : Whole(n)' <=> Whole(n)
  BY <1>1 DEF Whole
<1>6. SaveInv'
  BY <1>1, <1>3, <1>4 DEF DocumentInv, SaveInv, Whole
<1>7. DocumentKept'
  BY <1>1, <1>5 DEF DocumentInv, DocumentKept, DocumentInPlace
<1> QED BY <1>6, <1>7

-----------------------------------------------------------------------------
(* What SQLite does with commands keeps the tables typed and the keys       *)
(* unique.                                                                  *)

Commands == {c \in EngineCall : IsCommand(c)}

Keyed(rows) == \A i, j \in DOMAIN rows :
                 rows[i].key # "" /\ rows[i].key = rows[j].key /\ rows[i].pkey = rows[j].pkey => i = j

IsDatabase(d) == d \in [DOMAIN d -> Table] /\ \A n \in DOMAIN d : Keyed(d[n].rows)

LEMMA NaturalsFrom0 ==
  ASSUME NEW S, 0 \in S, \A n \in Nat : n \in S => n + 1 \in S
  PROVE  Nat \subseteq S
<1> DEFINE rest == Nat \ S
<1>1. ASSUME rest # {} PROVE FALSE
  <2>1. PICK x \in rest : \A y \in rest : ~(<<y, x>> \in OpToRel(<, Nat))
    BY <1>1, NatLessThanWellFounded, WFMin
  <2>2. x \in Nat /\ x # 0 /\ x - 1 \in Nat
    OBVIOUS
  <2>3. x - 1 \in rest
    BY <2>2
  <2>4. <<x - 1, x>> \in OpToRel(<, Nat)
    BY <2>2 DEF OpToRel
  <2> QED BY <2>1, <2>3, <2>4
<1> QED BY <1>1

\* The rows kept up to row i, from those kept before it.
KeptRows(rows, out, i, last) == IF i = 0 THEN <<>> ELSE IF rows[i] \in out THEN last ELSE Append(last, rows[i])

IsKept(rows, out, n, f) == f = [i \in 0..n |-> KeptRows(rows, out, i, f[i - 1])]

LEMMA KeptExists ==
  ASSUME NEW rows, NEW out, NEW n \in Nat
  PROVE  \E f : IsKept(rows, out, n, f)
<1> DEFINE S == {m \in Nat : \E f : IsKept(rows, out, m, f)}
<1>1. 0 \in S
  <2>1. IsKept(rows, out, 0, [i \in 0..0 |-> <<>>])
    BY DEF IsKept, KeptRows
  <2> QED BY <2>1
<1>2. ASSUME NEW m \in Nat, m \in S PROVE m + 1 \in S
  <2>1. PICK f : IsKept(rows, out, m, f)
    BY <1>2
  <2> DEFINE g == [i \in 0..(m + 1) |-> IF i = m + 1 THEN KeptRows(rows, out, m + 1, f[m]) ELSE f[i]]
  <2>2. \A i \in 0..m : f[i] = KeptRows(rows, out, i, f[i - 1])
    BY <2>1 DEF IsKept
  <2>3. \A i \in 0..(m + 1) : g[i] = KeptRows(rows, out, i, g[i - 1])
    <3> SUFFICES ASSUME NEW i \in 0..(m + 1) PROVE g[i] = KeptRows(rows, out, i, g[i - 1])
      OBVIOUS
    <3>1. CASE i = 0
      BY <2>2, <3>1 DEF KeptRows
    <3>2. CASE i = m + 1
      BY <3>2
    <3>3. CASE i \in 1..m
      <4>1. g[i] = f[i] /\ g[i - 1] = f[i - 1]
        BY <3>3
      <4> QED BY <2>2, <3>3, <4>1
    <3> QED BY <3>1, <3>2, <3>3
  <2>4. g = [i \in 0..(m + 1) |-> KeptRows(rows, out, i, g[i - 1])]
    BY <2>3
  <2> HIDE DEF g
  <2>5. IsKept(rows, out, m + 1, g)
    BY <2>4 DEF IsKept
  <2> QED BY <2>5
<1> HIDE DEF S
<1>3. Nat \subseteq S
  BY <1>1, <1>2, NaturalsFrom0
<1> QED BY <1>3 DEF S

\* The rows that stay are rows there were, in their order.
LEMMA WithoutKeeps ==
  ASSUME NEW rows \in Seq(Row), Keyed(rows), NEW out
  PROVE  Without(rows, out) \in Seq(Row) /\ Keyed(Without(rows, out))
<1> DEFINE len == Len(rows)
           \* The rows of q are rows up to n.
           Part(q, n) == q \in Seq(Row) /\ Keyed(q) /\ \A a \in DOMAIN q : \E m \in 1..n : q[a] = rows[m]
           f == CHOOSE f : IsKept(rows, out, len, f)
           S == {n \in Nat : n <= len => Part(f[n], n)}
<1>1. Without(rows, out) = f[len]
  BY DEF Without, IsKept, KeptRows
<1>2. IsKept(rows, out, len, f)
  BY KeptExists
<1> HIDE DEF f
<1>3. \A i \in 0..len : f[i] = KeptRows(rows, out, i, f[i - 1])
  BY <1>2 DEF IsKept
<1>4. 0 \in S
  <2>1. f[0] = <<>>
    BY <1>3 DEF KeptRows
  <2>2. f[0] \in Seq(Row) /\ DOMAIN f[0] = {}
    BY <2>1
  <2> QED BY <2>2 DEF Keyed
<1>5. ASSUME NEW n \in Nat, n \in S PROVE n + 1 \in S
  <2> SUFFICES ASSUME n + 1 <= len PROVE Part(f[n + 1], n + 1)
    OBVIOUS
  <2> DEFINE q == f[n]
             row == rows[n + 1]
  <2>1. q \in Seq(Row) /\ Keyed(q) /\ \A a \in DOMAIN q : \E m \in 1..n : q[a] = rows[m]
    BY <1>5
  <2>2. f[n + 1] = IF row \in out THEN q ELSE Append(q, row)
    BY <1>3 DEF KeptRows
  <2>3. n + 1 \in DOMAIN rows /\ row \in Row /\ \A m \in 1..n : m \in DOMAIN rows /\ m # n + 1
    OBVIOUS
  <2>4. \A m \in 1..n : rows[m].key # "" => rows[m].key # row.key \/ rows[m].pkey # row.pkey
    BY <2>3 DEF Keyed
  <2> HIDE DEF q, row
  <2>5. CASE row \in out
    <3>1. \A a \in DOMAIN q : \E m \in 1..(n + 1) : q[a] = rows[m]
      BY <2>1
    <3> QED BY <2>1, <2>2, <2>5, <3>1
  <2>6. CASE row \notin out
    <3> DEFINE r == Append(q, row)
    <3>1. /\ r \in Seq(Row) /\ DOMAIN q = 1..Len(q) /\ DOMAIN r = 1..(Len(q) + 1) /\ Len(q) \in Nat
          /\ r[Len(q) + 1] = row /\ \A a \in 1..Len(q) : r[a] = q[a]
      BY <2>1, <2>3
    <3> HIDE DEF r
    <3>2. \A a \in DOMAIN r : \E m \in 1..(n + 1) : r[a] = rows[m]
      <4> SUFFICES ASSUME NEW a \in DOMAIN r PROVE \E m \in 1..(n + 1) : r[a] = rows[m]
        OBVIOUS
      <4>1. CASE a = Len(q) + 1
        BY <3>1, <4>1 DEF row
      <4>2. CASE a \in DOMAIN q
        <5>1. PICK m \in 1..n : q[a] = rows[m]
          BY <2>1, <4>2
        <5> QED BY <3>1, <4>2, <5>1
      <4> QED BY <3>1, <4>1, <4>2
    <3>3. \A a \in DOMAIN q : q[a].key # "" => q[a].key # row.key \/ q[a].pkey # row.pkey
      BY <2>1, <2>4
    <3>4. \A a \in DOMAIN r : a \in DOMAIN q \/ a = Len(q) + 1
      BY <3>1
    <3>5. Keyed(r)
      <4> SUFFICES ASSUME NEW a \in DOMAIN r, NEW b \in DOMAIN r,
                          r[a].key # "", r[a].key = r[b].key, r[a].pkey = r[b].pkey
                   PROVE  a = b
        BY DEF Keyed
      <4>1. CASE a \in DOMAIN q /\ b \in DOMAIN q
        BY <2>1, <3>1, <4>1 DEF Keyed
      <4>2. CASE a = Len(q) + 1 /\ b \in DOMAIN q
        BY <3>1, <3>3, <4>2
      <4>3. CASE b = Len(q) + 1 /\ a \in DOMAIN q
        BY <3>1, <3>3, <4>3
      <4>4. CASE a = b
        BY <4>4
      <4> QED BY <3>4, <4>1, <4>2, <4>3, <4>4, Zenon
    <3>6. f[n + 1] = r
      BY <2>2, <2>6 DEF r
    <3> QED BY <3>1, <3>2, <3>5, <3>6
  <2> QED BY <2>5, <2>6
<1> HIDE DEF S
<1>6. len \in S
  BY <1>4, <1>5, NaturalsFrom0
<1> QED BY <1>1, <1>6 DEF S

LEMMA CommandFacts ==
  ASSUME NEW c \in Commands
  PROVE  /\ c.sql \in {"insert", "update", "delete", "deleteByParent", "create", "drop", "vacuum"}
         /\ c.table \in STRING /\ c.key \in STRING /\ c.parent \in STRING /\ c.pkey \in STRING /\ c.vals \in Seq(Nat)
BY DEF Commands, EngineCall, IsCommand

LEMMA WithRowsKeeps ==
  ASSUME NEW d, IsDatabase(d), NEW c \in Commands, c.table \in DOMAIN d,
         NEW rows \in Seq(Row), Keyed(rows)
  PROVE  IsDatabase(WithRows(d, c, rows))
<1> DEFINE e == WithRows(d, c, rows)
<1>1. DOMAIN e = DOMAIN d /\ e = [n \in DOMAIN d |-> IF n = c.table THEN [d[n] EXCEPT !.rows = rows] ELSE d[n]]
  BY DEF WithRows, IsDatabase
<1>2. \A n \in DOMAIN d : d[n] \in Table /\ [d[n] EXCEPT !.rows = rows] \in Table
                           /\ [d[n] EXCEPT !.rows = rows].rows = rows
  BY DEF IsDatabase, Table
<1> HIDE DEF e
<1>3. \A n \in DOMAIN e : e[n] \in Table /\ Keyed(e[n].rows)
  BY <1>1, <1>2 DEF IsDatabase
<1>4. e = [n \in DOMAIN e |-> e[n]]
  BY <1>1
<1>5. e \in [DOMAIN e -> Table]
  BY <1>3, <1>4
<1> QED BY <1>3, <1>5 DEF e, IsDatabase

\* A command that succeeds leaves a database of typed rows with unique keys.
LEMMA EffectKeeps ==
  ASSUME NEW d, IsDatabase(d), NEW c \in Commands, Succeeds(d, c)
  PROVE  IsDatabase(Effect(d, c))
<1> USE CommandFacts
<1> DEFINE rows == Rows(d, c)
<1>0. c.sql \notin {"create", "drop", "vacuum"} => c.table \in DOMAIN d
  BY DEF Succeeds
<1>1. c.table \in DOMAIN d => rows \in Seq(Row) /\ Keyed(rows)
  BY DEF Rows, IsDatabase, Table
<1>2. CASE c.sql = "create"
  <2> DEFINE e == [n \in DOMAIN d \union {c.table} |-> IF n \in DOMAIN d THEN d[n] ELSE [parent |-> c.parent, rows |-> <<>>]]
  <2>1. \A n \in DOMAIN d : d[n] \in Table /\ Keyed(d[n].rows)
    BY DEF IsDatabase
  <2>2. [parent |-> c.parent, rows |-> <<>>] \in Table
    <3>1. <<>> \in Seq(Row)
      OBVIOUS
    <3> QED BY <3>1 DEF Table
  <2>3. Keyed(<<>>)
    <3>1. DOMAIN <<>> = {}
      OBVIOUS
    <3> QED BY <3>1, Zenon DEF Keyed
  <2>4. \A n \in DOMAIN e : e[n] \in Table /\ Keyed(e[n].rows)
    BY <2>1, <2>2, <2>3
  <2>5. e \in [DOMAIN e -> Table]
    BY <2>4
  <2>6. Effect(d, c) = e
    BY <1>2 DEF Effect
  <2> QED BY <2>4, <2>5, <2>6 DEF IsDatabase
<1>3. CASE c.sql = "vacuum"
  BY <1>3 DEF Effect
<1>4. CASE c.sql = "drop"
  <2>1. Effect(d, c) = [n \in DOMAIN d \ {c.table} |-> d[n]]
    BY <1>4 DEF Effect
  <2> QED BY <2>1 DEF IsDatabase
<1>5. CASE c.sql = "insert"
  <2> DEFINE row == [key |-> c.key, pkey |-> c.pkey, vals |-> c.vals]
             q == Append(rows, row)
  <2>1. Effect(d, c) = WithRows(d, c, q)
    BY <1>5 DEF Effect
  <2>2. c.key = "" \/ \A i \in DOMAIN rows : rows[i].key # c.key \/ rows[i].pkey # c.pkey
    BY <1>5 DEF Succeeds, Meets, Rows
  <2>3. rows \in Seq(Row) /\ Keyed(rows) /\ row \in Row
    BY <1>0, <1>1, <1>5 DEF Row
  <2>4. row.key = c.key /\ row.pkey = c.pkey
    OBVIOUS
  <2> HIDE DEF rows, row
  <2>5. /\ q \in Seq(Row) /\ DOMAIN rows = 1..Len(rows) /\ DOMAIN q = 1..(Len(rows) + 1) /\ Len(rows) \in Nat
        /\ q[Len(rows) + 1] = row /\ \A i \in DOMAIN rows : q[i] = rows[i]
    BY <2>3
  <2> HIDE DEF q
  <2>6. \A i \in DOMAIN q : i \in DOMAIN rows \/ i = Len(rows) + 1
    BY <2>5
  <2>7. Keyed(q)
    <3> SUFFICES ASSUME NEW i \in DOMAIN q, NEW j \in DOMAIN q,
                        q[i].key # "", q[i].key = q[j].key, q[i].pkey = q[j].pkey
                 PROVE  i = j
      BY DEF Keyed
    <3>1. CASE i \in DOMAIN rows /\ j \in DOMAIN rows
      BY <2>3, <2>5, <3>1 DEF Keyed
    <3>2. CASE i = Len(rows) + 1 /\ j \in DOMAIN rows
      BY <2>2, <2>4, <2>5, <3>2
    <3>3. CASE j = Len(rows) + 1 /\ i \in DOMAIN rows
      BY <2>2, <2>4, <2>5, <3>3
    <3>4. CASE i = j
      BY <3>4
    <3> QED BY <2>6, <3>1, <3>2, <3>3, <3>4, Zenon
  <2> QED BY <1>0, <1>5, <2>1, <2>5, <2>7, WithRowsKeeps
<1>6. CASE c.sql = "update"
  <2> DEFINE q == [i \in DOMAIN rows |-> IF Meets(c, rows[i]) THEN [rows[i] EXCEPT !.vals = c.vals] ELSE rows[i]]
  <2>1. Effect(d, c) = WithRows(d, c, q)
    BY <1>6 DEF Effect
  <2>2. rows \in Seq(Row) /\ Keyed(rows) /\ c.table \in DOMAIN d
    BY <1>0, <1>1, <1>6
  <2> HIDE DEF rows
  <2>3. \A i \in DOMAIN rows : q[i] \in Row /\ q[i].key = rows[i].key /\ q[i].pkey = rows[i].pkey
    <3> SUFFICES ASSUME NEW i \in DOMAIN rows
                 PROVE  q[i] \in Row /\ q[i].key = rows[i].key /\ q[i].pkey = rows[i].pkey
      OBVIOUS
    <3> DEFINE row == rows[i]
    <3>1. row \in Row /\ c.vals \in Seq(Nat)
      BY <2>2
    <3>2. q[i] = IF Meets(c, row) THEN [row EXCEPT !.vals = c.vals] ELSE row
      OBVIOUS
    <3> HIDE DEF row, q
    <3>3. [row EXCEPT !.vals = c.vals] \in Row /\ [row EXCEPT !.vals = c.vals].key = row.key
          /\ [row EXCEPT !.vals = c.vals].pkey = row.pkey
      BY <3>1 DEF Row
    <3>4. q[i] \in Row /\ q[i].key = row.key /\ q[i].pkey = row.pkey
      BY <3>1, <3>2, <3>3
    <3> QED BY <3>4 DEF row
  <2>4. q \in Seq(Row) /\ DOMAIN q = DOMAIN rows
    BY <2>2, <2>3
  <2> HIDE DEF q
  <2>5. Keyed(q)
    BY <2>2, <2>3, <2>4 DEF Keyed
  <2> QED BY <2>1, <2>2, <2>4, <2>5, WithRowsKeeps
<1>7. CASE c.sql \in {"delete", "deleteByParent"}
  <2>1. \E out : Effect(d, c) = WithRows(d, c, Without(rows, out))
    <3>1. CASE c.sql = "delete"
      <4>1. Effect(d, c) = WithRows(d, c, Without(rows, {r \in Row : Meets(c, r)}))
        BY <3>1 DEF Effect
      <4> QED BY <4>1
    <3>2. CASE c.sql = "deleteByParent"
      <4>1. Effect(d, c) = WithRows(d, c, Without(rows, {r \in Row : r.pkey = c.pkey}))
        BY <3>2 DEF Effect
      <4> QED BY <4>1
    <3> QED BY <1>7, <3>1, <3>2
  <2> QED BY <1>0, <1>1, <1>7, <2>1, WithoutKeeps, WithRowsKeeps
<1> QED BY <1>2, <1>3, <1>4, <1>5, <1>6, <1>7

\* What a batch has done after command i, from what it had before it.
BatchStep(d, cmds, i, last) ==
  IF i = 0 THEN [ok |-> TRUE, db |-> d]
  ELSE IF last.ok /\ Succeeds(last.db, cmds[i])
       THEN [ok |-> TRUE, db |-> Effect(last.db, cmds[i])] ELSE [ok |-> FALSE, db |-> last.db]

IsBatch(d, cmds, n, f) == f = [i \in 0..n |-> BatchStep(d, cmds, i, f[i - 1])]

LEMMA BatchNext ==
  ASSUME NEW d, NEW cmds, NEW i \in Nat \ {0}, NEW last, NEW next, next = BatchStep(d, cmds, i, last)
  PROVE  next.db = last.db \/ (Succeeds(last.db, cmds[i]) /\ next.db = Effect(last.db, cmds[i]))
<1>1. CASE last.ok /\ Succeeds(last.db, cmds[i])
  <2>1. next = [ok |-> TRUE, db |-> Effect(last.db, cmds[i])]
    BY <1>1 DEF BatchStep
  <2> QED BY <1>1, <2>1
<1>2. CASE ~(last.ok /\ Succeeds(last.db, cmds[i]))
  <2>1. next = [ok |-> FALSE, db |-> last.db]
    BY <1>2 DEF BatchStep
  <2> QED BY <2>1
<1> QED BY <1>1, <1>2

LEMMA BatchExists ==
  ASSUME NEW d, NEW cmds, NEW n \in Nat
  PROVE  \E f : IsBatch(d, cmds, n, f)
<1> DEFINE S == {m \in Nat : \E f : IsBatch(d, cmds, m, f)}
<1>1. 0 \in S
  <2>1. IsBatch(d, cmds, 0, [i \in 0..0 |-> [ok |-> TRUE, db |-> d]])
    BY DEF IsBatch, BatchStep
  <2> QED BY <2>1
<1>2. ASSUME NEW m \in Nat, m \in S PROVE m + 1 \in S
  <2>1. PICK f : IsBatch(d, cmds, m, f)
    BY <1>2
  <2> DEFINE g == [i \in 0..(m + 1) |-> IF i = m + 1 THEN BatchStep(d, cmds, m + 1, f[m]) ELSE f[i]]
  <2>2. \A i \in 0..m : f[i] = BatchStep(d, cmds, i, f[i - 1])
    BY <2>1 DEF IsBatch
  <2>3. \A i \in 0..(m + 1) : g[i] = BatchStep(d, cmds, i, g[i - 1])
    <3> SUFFICES ASSUME NEW i \in 0..(m + 1) PROVE g[i] = BatchStep(d, cmds, i, g[i - 1])
      OBVIOUS
    <3>1. CASE i = 0
      <4>1. g[0] = f[0] /\ f[0] = BatchStep(d, cmds, 0, f[0 - 1])
        BY <2>2
      <4>2. BatchStep(d, cmds, 0, f[0 - 1]) = BatchStep(d, cmds, 0, g[0 - 1])
        <5> HIDE DEF g
        <5> QED BY DEF BatchStep
      <4> QED BY <3>1, <4>1, <4>2, Zenon
    <3>2. CASE i = m + 1
      BY <3>2
    <3>3. CASE i \in 1..m
      <4>1. g[i] = f[i] /\ g[i - 1] = f[i - 1]
        BY <3>3
      <4> QED BY <2>2, <3>3, <4>1
    <3> QED BY <3>1, <3>2, <3>3
  <2>4. g = [i \in 0..(m + 1) |-> BatchStep(d, cmds, i, g[i - 1])]
    BY <2>3
  <2> HIDE DEF g
  <2>5. IsBatch(d, cmds, m + 1, g)
    BY <2>4 DEF IsBatch
  <2> QED BY <2>5
<1> HIDE DEF S
<1>3. Nat \subseteq S
  BY <1>1, <1>2, NaturalsFrom0
<1> QED BY <1>3 DEF S

LEMMA BatchKeeps ==
  ASSUME NEW d, IsDatabase(d), NEW cmds \in Seq(Commands)
  PROVE  IsDatabase(Batch(d, cmds).db)
<1> DEFINE len == Len(cmds)
           f == CHOOSE f : IsBatch(d, cmds, len, f)
           S == {n \in Nat : n <= len => IsDatabase(f[n].db)}
<1>1. Batch(d, cmds) = f[len]
  BY DEF Batch, IsBatch, BatchStep
<1>2. IsBatch(d, cmds, len, f)
  <2>1. len \in Nat
    OBVIOUS
  <2>2. \E g : IsBatch(d, cmds, len, g)
    BY <2>1, BatchExists, Zenon
  <2> QED BY <2>2, Zenon
<1> HIDE DEF f
<1>3. \A i \in 0..len : f[i] = BatchStep(d, cmds, i, f[i - 1])
  BY <1>2 DEF IsBatch
<1>4. 0 \in S
  <2>1. f[0] = BatchStep(d, cmds, 0, f[0 - 1])
    BY <1>3
  <2>2. f[0] = [ok |-> TRUE, db |-> d]
    BY <2>1 DEF BatchStep
  <2> QED BY <2>2
<1>5. ASSUME NEW n \in Nat, n \in S PROVE n + 1 \in S
  <2> SUFFICES ASSUME n + 1 <= len PROVE IsDatabase(f[n + 1].db)
    OBVIOUS
  <2>1. cmds[n + 1] \in Commands
    OBVIOUS
  <2>2. IsDatabase(f[n].db)
    BY <1>5
  <2>3. f[n + 1] = BatchStep(d, cmds, n + 1, f[n])
    BY <1>3
  <2>4. \/ f[n + 1].db = f[n].db
        \/ Succeeds(f[n].db, cmds[n + 1]) /\ f[n + 1].db = Effect(f[n].db, cmds[n + 1])
    <3>1. n + 1 \in Nat \ {0}
      OBVIOUS
    <3> QED BY <2>3, <3>1, BatchNext
  <2> QED BY <2>1, <2>2, <2>4, EffectKeeps
<1> HIDE DEF S
<1>6. len \in S
  BY <1>4, <1>5, NaturalsFrom0
<1> QED BY <1>1, <1>6 DEF S

-----------------------------------------------------------------------------
(* The engine: what a thread still has to call, and what it has collected.  *)

IsJob(j) == j = [request |-> j.request, left |-> j.left, before |-> j.before, thrown |-> j.thrown]

CallsOf(t) == job[t].request.calls

\* Call i is the next of thread t.
At(t, i) == i \in 1..Len(CallsOf(t)) /\ job[t].left = SubSeq(CallsOf(t), i, Len(CallsOf(t)))

EngineTypes ==
  /\ IsDatabase(db)
  /\ isconnected \in BOOLEAN /\ onTransaction \in BOOLEAN
  /\ buffer \in [Threads -> Seq(Commands)]
  /\ DOMAIN job = Threads /\ job = [t \in Threads |-> job[t]]
  /\ \A t \in Threads :
       IsJob(job[t]) /\ (Working(t) => job[t].request \in Requests /\ \E i \in Nat : At(t, i))

\* Within a transaction the buffer holds the commands since its start.
Collected(t, i) ==
  LET calls == CallsOf(t) IN
  IF i > 1 /\ (calls[i - 1] = Start \/ IsCommand(calls[i - 1]))
  THEN onTransaction /\ \E s \in 1..(i - 1) :
         /\ calls[s] = Start /\ \A j \in (s + 1)..(i - 1) : IsCommand(calls[j])
         /\ buffer[t] = SubSeq(calls, s + 1, i - 1)
  ELSE ~onTransaction /\ buffer[t] = <<>>

\* Nothing of one transaction is in the tables before its end.
EngineInv ==
  \A t \in Threads :
    IF Working(t)
    THEN /\ \E i \in 1..Len(CallsOf(t)) : At(t, i) /\ Collected(t, i)
         /\ OneTransaction(CallsOf(t)) => db = job[t].before
    ELSE ~onTransaction /\ buffer[t] = <<>>

LEMMA CallKinds ==
  ASSUME NEW c \in EngineCall
  PROVE  /\ c.do \in {"start", "commit", "rollback", "throw", "execute"}
         /\ c = Start <=> c.do = "start"
         /\ c = Commit <=> c.do = "commit"
         /\ c = Rollback <=> c.do = "rollback"
         /\ c = Throw <=> c.do = "throw"
         /\ IsCommand(c) <=> c.do = "execute"
         /\ IsCommand(c) => c \in Commands
<1>1. CASE c \in [do : {"start", "commit", "rollback", "throw"}]
  BY <1>1 DEF Start, Commit, Rollback, Throw, IsCommand, Commands
<1>2. CASE c.do = "execute"
  <2>1. c # Start /\ c # Commit /\ c # Rollback /\ c # Throw
    BY <1>2 DEF Start, Commit, Rollback, Throw
  <2> QED BY <1>2, <2>1 DEF IsCommand, Commands
<1> QED BY <1>1, <1>2 DEF EngineCall

\* Where a thread is in its request.
LEMMA CallFacts ==
  ASSUME EngineTypes, NEW t \in Threads, NEW i, At(t, i), Working(t)
  PROVE  /\ CallsOf(t) \in Seq(EngineCall) /\ InTransactions(CallsOf(t))
         /\ job[t].request.param.kind # "mixes" => OneTransaction(CallsOf(t))
         /\ i \in 1..Len(CallsOf(t)) /\ DOMAIN CallsOf(t) = 1..Len(CallsOf(t)) /\ Len(CallsOf(t)) \in Nat
         /\ Head(job[t].left) = CallsOf(t)[i]
         /\ Tail(job[t].left) = SubSeq(CallsOf(t), i + 1, Len(CallsOf(t)))
         /\ Len(job[t].left) = Len(CallsOf(t)) - i + 1
<1> DEFINE calls == CallsOf(t)
<1>1. calls \in Seq(EngineCall) /\ InTransactions(calls) /\ (job[t].request.param.kind # "mixes" => OneTransaction(calls))
  BY RequestAssumption DEF EngineTypes, CallsOf
<1>2. i \in 1..Len(calls) /\ job[t].left = SubSeq(calls, i, Len(calls)) /\ Len(calls) \in i..Len(calls)
  BY <1>1 DEF At
<1> HIDE DEF calls
<1>3. Head(job[t].left) = calls[i] /\ Tail(job[t].left) = SubSeq(calls, i + 1, Len(calls))
  BY <1>1, <1>2, HeadTailOfSubSeq
<1>4. Len(job[t].left) = Len(calls) - i + 1
  <2>1. \A k \in i..Len(calls) : calls[k] \in EngineCall
    BY <1>1, <1>2
  <2> QED BY <1>1, <1>2, <2>1, SubSeqProperties
<1>5. DOMAIN calls = 1..Len(calls) /\ Len(calls) \in Nat
  BY <1>1
<1> QED BY <1>1, <1>2, <1>3, <1>4, <1>5 DEF calls

\* A call that returns leaves the rest of the request, or ends it.
LEMMA GoesOn ==
  ASSUME EngineTypes, NEW t \in Threads, NEW i, At(t, i), Working(t), Goes(t)
  PROVE  /\ \A u \in Threads \ {t} : job'[u] = job[u]
         /\ DOMAIN job' = Threads /\ job' = [u \in Threads |-> job'[u]] /\ IsJob(job'[t])
         /\ i = Len(CallsOf(t)) => job'[t] = NoJob(FALSE)
         /\ i # Len(CallsOf(t)) =>
              /\ job'[t].request = job[t].request /\ job'[t].before = job[t].before
              /\ At(t, i + 1)' /\ Working(t)'
<1> DEFINE calls == CallsOf(t)
           rest  == Tail(job[t].left)
           next  == IF rest = <<>> THEN NoJob(FALSE) ELSE [job[t] EXCEPT !.left = rest]
<1>0. /\ calls \in Seq(EngineCall) /\ i \in 1..Len(calls) /\ Len(calls) \in Nat
      /\ rest = SubSeq(calls, i + 1, Len(calls))
  BY CallFacts
<1>1. job' = [job EXCEPT ![t] = next]
  BY DEF Goes
<1>2. job'[t] = next /\ DOMAIN job' = Threads /\ \A u \in Threads \ {t} : job'[u] = job[u]
  BY <1>1 DEF EngineTypes
<1>3. job' = [u \in Threads |-> job'[u]]
  BY <1>1 DEF EngineTypes
<1>4. CASE i = Len(calls)
  <2>1. job'[t] = NoJob(FALSE)
    <3>1. rest = <<>>
      BY <1>0, <1>4, SubSeqEmpty
    <3> QED BY <1>2, <3>1
  <2> QED BY <1>2, <1>3, <1>4, <2>1 DEF IsJob, NoJob
<1>5. CASE i # Len(calls)
  <2>1. rest # <<>>
    <3> DEFINE len == Len(calls)
    <3> HIDE DEF rest, calls, len
    <3>1. i + 1 \in Int /\ len \in Int /\ i + 1 <= len /\ \A k \in (i + 1)..len : calls[k] \in EngineCall
      BY <1>0, <1>5 DEF len
    <3>2. SubSeq(calls, i + 1, len) \in Seq(EngineCall) /\ Len(SubSeq(calls, i + 1, len)) = len - (i + 1) + 1
      BY <3>1, SubSeqProperties
    <3>3. SubSeq(calls, i + 1, len) # <<>>
      <4>1. Len(SubSeq(calls, i + 1, len)) # Len(<<>>)
        <5>1. i \in Int
          BY <1>0
        <5>2. len - (i + 1) + 1 # 0
          BY <3>1, <5>1
        <5> QED BY <3>2, <5>2
      <4> QED BY <4>1
    <3> QED BY <1>0, <3>3 DEF len
  <2>2. job[t] = [request |-> job[t].request, left |-> job[t].left, before |-> job[t].before, thrown |-> job[t].thrown]
    BY DEF EngineTypes, IsJob
  <2>3. next = [request |-> job[t].request, left |-> rest, before |-> job[t].before, thrown |-> job[t].thrown]
    BY <2>1, <2>2
  <2> HIDE DEF next, rest
  <2>4. job'[t].request = job[t].request /\ job'[t].before = job[t].before /\ job'[t].left = rest /\ IsJob(job'[t])
    BY <1>2, <2>3 DEF IsJob
  <2>5. job'[t].left = SubSeq(calls, i + 1, Len(calls)) /\ i + 1 \in 1..Len(calls)
    BY <1>0, <1>5, <2>4
  <2>6. CallsOf(t)' = calls
    BY <2>4 DEF CallsOf
  <2>7. At(t, i + 1)'
    BY <2>5, <2>6 DEF At
  <2>8. Working(t)'
    BY <2>1, <2>4 DEF Working
  <2> QED BY <1>2, <1>3, <1>5, <2>4, <2>7, <2>8
<1> QED BY <1>4, <1>5

\* A step of thread t leaves the jobs of the others alone.
LEMMA TypesAfter ==
  ASSUME EngineTypes, NEW t \in Threads,
         \A u \in Threads \ {t} : job'[u] = job[u],
         DOMAIN job' = Threads, job' = [u \in Threads |-> job'[u]], IsJob(job'[t]),
         Working(t)' => job'[t].request \in Requests /\ \E i \in Nat : At(t, i)',
         IsDatabase(db)', isconnected' \in BOOLEAN, onTransaction' \in BOOLEAN,
         buffer' \in [Threads -> Seq(Commands)]
  PROVE  EngineTypes'
<1>1. ASSUME NEW u \in Threads
      PROVE  IsJob(job'[u]) /\ (Working(u)' => job'[u].request \in Requests /\ \E i \in Nat : At(u, i)')
  <2>1. CASE u = t
    BY <2>1
  <2>2. CASE u # t
    <3>1. IsJob(job[u]) /\ (Working(u) => job[u].request \in Requests /\ \E i \in Nat : At(u, i))
      BY DEF EngineTypes
    <3>2. job'[u] = job[u]
      BY <2>2
    <3> QED BY <3>1, <3>2 DEF Working, At, CallsOf
  <2> QED BY <2>1, <2>2
<1> QED BY <1>1, Zenon DEF EngineTypes

LEMMA ThreadEnds ==
  ASSUME EngineTypes, NEW t \in Threads, NEW h, job' = [job EXCEPT ![t] = NoJob(h)]
  PROVE  /\ \A u \in Threads \ {t} : job'[u] = job[u]
         /\ DOMAIN job' = Threads /\ job' = [u \in Threads |-> job'[u]] /\ IsJob(job'[t])
         /\ job'[t] = NoJob(h) /\ ~Working(t)'
<1>1. job'[t] = NoJob(h) /\ DOMAIN job' = Threads /\ \A u \in Threads \ {t} : job'[u] = job[u]
  BY DEF EngineTypes
<1>2. IsJob(job'[t]) /\ ~Working(t)'
  BY <1>1 DEF IsJob, NoJob, Working
<1>3. job' = [u \in Threads |-> job'[u]]
  BY DEF EngineTypes
<1> QED BY <1>1, <1>2, <1>3

LEMMA EngineTypesInit ==
  ASSUME EngineInit PROVE EngineTypes
<1>1. IsDatabase(db)
  BY DEF EngineInit, NoTables, IsDatabase
<1>2. isconnected \in BOOLEAN /\ onTransaction \in BOOLEAN
  BY Zenon DEF EngineInit
<1>3. buffer \in [Threads -> Seq(Commands)]
  BY DEF EngineInit
<1>4. DOMAIN job = Threads /\ job = [t \in Threads |-> job[t]] /\ \A t \in Threads : job[t] = NoJob(FALSE)
  BY DEF EngineInit
<1>5. \A t \in Threads : IsJob(job[t]) /\ ~Working(t)
  BY <1>4 DEF IsJob, NoJob, Working
<1> QED BY <1>1, <1>2, <1>3, <1>4, <1>5, Zenon DEF EngineTypes

LEMMA EngineTypesBegin ==
  ASSUME EngineTypes, NEW t \in Threads, Begin(t)
  PROVE  /\ EngineTypes' /\ Working(t)' /\ At(t, 1)' /\ job'[t].before = db
         /\ \A u \in Threads \ {t} : job'[u] = job[u]
<1>1. PICK r \in Requests :
         /\ r.calls # <<>>
         /\ job' = [job EXCEPT ![t] = [request |-> r, left |-> r.calls, before |-> db, thrown |-> FALSE]]
  BY DEF Begin
<1>2. /\ \A u \in Threads \ {t} : job'[u] = job[u]
      /\ DOMAIN job' = Threads /\ job'[t] = [request |-> r, left |-> r.calls, before |-> db, thrown |-> FALSE]
  BY <1>1 DEF EngineTypes
<1>3. job' = [u \in Threads |-> job'[u]]
  BY <1>1 DEF EngineTypes
<1>4. IsJob(job'[t]) /\ job'[t].request = r /\ job'[t].left = r.calls /\ job'[t].before = db
  BY <1>2 DEF IsJob
<1>5. r.calls \in Seq(EngineCall)
  BY RequestAssumption
<1>6. Working(t)' /\ At(t, 1)'
  <2>1. SubSeq(r.calls, 1, Len(r.calls)) = r.calls
    BY <1>5, SubSeqFull
  <2>2. 1 \in 1..Len(r.calls)
    BY <1>1, <1>5
  <2> QED BY <1>1, <1>4, <2>1, <2>2 DEF Working, At, CallsOf
<1>7. UNCHANGED <<db, isconnected, onTransaction, buffer>>
  BY DEF Begin
<1>8. EngineTypes'
  <2>1. IsDatabase(db)' /\ buffer' \in [Threads -> Seq(Commands)]
    BY <1>7 DEF EngineTypes, IsDatabase
  <2>2. isconnected' \in BOOLEAN /\ onTransaction' \in BOOLEAN
    BY <1>7, Zenon DEF EngineTypes
  <2>3. 1 \in Nat
    OBVIOUS
  <2> QED BY <1>2, <1>3, <1>4, <1>6, <2>1, <2>2, <2>3, TypesAfter
<1> QED BY <1>2, <1>4, <1>6, <1>8

\* What a call does to the tables, the flag and the buffer of its thread.
LEMMA CallTypes ==
  ASSUME EngineTypes, NEW t \in Threads, EngineStep(t)
  PROVE  /\ IsDatabase(db)' /\ isconnected' \in BOOLEAN /\ onTransaction' \in BOOLEAN
         /\ buffer' \in [Threads -> Seq(Commands)]
         /\ Goes(t) \/ Throws(t)
<1>0. IsDatabase(db) /\ buffer \in [Threads -> Seq(Commands)] /\ <<>> \in Seq(Commands)
  BY DEF EngineTypes
<1>1. isconnected' = isconnected /\ isconnected \in BOOLEAN /\ onTransaction \in BOOLEAN
  BY DEF EngineTypes, EngineStep, startTransaction, execute, commitTransaction, commitNothing, rollbackTransaction, throw
<1>2. CASE startTransaction(t) \/ commitNothing(t) \/ throw(t)
  <2>1. db' = db /\ buffer' = buffer
    BY <1>2 DEF startTransaction, commitNothing, throw
  <2>2. onTransaction' \in BOOLEAN
    BY <1>1, <1>2, Zenon DEF startTransaction, commitNothing, throw
  <2>3. Goes(t) \/ Throws(t)
    BY <1>2 DEF startTransaction, commitNothing, throw
  <2> QED BY <1>0, <1>1, <2>1, <2>2, <2>3, Zenon DEF IsDatabase
<1>3. CASE execute(t)
  <2>1. PICK i \in Nat : At(t, i)
    BY <1>3 DEF execute, Does, EngineTypes
  <2> DEFINE c == Head(job[t].left)
  <2>2. c \in EngineCall /\ c.do = "execute"
    <3>1. Working(t) /\ c.do = "execute"
      BY <1>3 DEF execute, Does
    <3>2. c = CallsOf(t)[i] /\ i \in 1..Len(CallsOf(t)) /\ CallsOf(t) \in Seq(EngineCall)
      BY <2>1, <3>1, CallFacts
    <3> QED BY <3>1, <3>2
  <2>3. c \in Commands
    BY <2>2, CallKinds
  <2>4. /\ onTransaction' = onTransaction
        /\ Goes(t) \/ Throws(t)
        /\ buffer' = buffer \/ buffer' = [buffer EXCEPT ![t] = Append(buffer[t], c)]
        /\ db' = db \/ (Succeeds(db, c) /\ db' = Effect(db, c))
    BY <1>3 DEF execute
  <2> HIDE DEF c
  <2>5. buffer' \in [Threads -> Seq(Commands)]
    <3>1. Append(buffer[t], c) \in Seq(Commands)
      BY <1>0, <2>3
    <3> QED BY <1>0, <2>4, <3>1
  <2>6. IsDatabase(db')
    BY <1>0, <2>3, <2>4, EffectKeeps
  <2>7. onTransaction' \in BOOLEAN
    BY <1>1, <2>4, Zenon
  <2> QED BY <1>1, <2>4, <2>5, <2>6, <2>7, Zenon DEF IsDatabase
<1>4. CASE commitTransaction(t)
  <2>1. /\ onTransaction' = FALSE
        /\ Goes(t) \/ Throws(t)
        /\ buffer' = [buffer EXCEPT ![t] = <<>>]
        /\ db' = db \/ db' = Batch(db, buffer[t]).db
    <3>1. onTransaction' = FALSE /\ buffer' = [buffer EXCEPT ![t] = <<>>]
      BY <1>4, Zenon DEF commitTransaction
    <3>2. (db' = Batch(db, buffer[t]).db /\ Goes(t)) \/ (Throws(t) /\ UNCHANGED db)
      BY <1>4, Zenon DEF commitTransaction
    <3> QED BY <3>1, <3>2, Zenon
  <2>2. buffer' \in [Threads -> Seq(Commands)]
    BY <1>0, <2>1
  <2>3. buffer[t] \in Seq(Commands)
    BY <1>0
  <2>4. IsDatabase(Batch(db, buffer[t]).db)
    BY <1>0, <2>3, BatchKeeps
  <2>5. IsDatabase(db')
    BY <1>0, <2>1, <2>4
  <2>6. onTransaction' \in BOOLEAN
    BY <2>1, Zenon
  <2> QED BY <1>1, <2>1, <2>2, <2>5, <2>6, Zenon DEF IsDatabase
<1>5. CASE rollbackTransaction(t)
  <2>1. db' = db /\ onTransaction' = FALSE /\ (buffer' = buffer \/ buffer' = [buffer EXCEPT ![t] = <<>>]) /\ Goes(t)
    BY <1>5 DEF rollbackTransaction
  <2>2. buffer' \in [Threads -> Seq(Commands)]
    BY <1>0, <2>1
  <2>3. onTransaction' \in BOOLEAN
    BY <2>1, Zenon
  <2> QED BY <1>0, <1>1, <2>1, <2>2, <2>3, Zenon DEF IsDatabase
<1> QED BY <1>2, <1>3, <1>4, <1>5 DEF EngineStep

LEMMA EngineTypesStep ==
  ASSUME EngineTypes, NEW t \in Threads, EngineStep(t)
  PROVE  EngineTypes'
<1>1. Working(t)
  BY DEF EngineStep, startTransaction, execute, commitTransaction, commitNothing, rollbackTransaction, throw, Does
<1>2. CASE Throws(t)
  <2>1. job' = [job EXCEPT ![t] = NoJob(TRUE)]
    BY <1>2 DEF Throws
  <2>2. /\ \A u \in Threads \ {t} : job'[u] = job[u]
        /\ DOMAIN job' = Threads /\ job' = [u \in Threads |-> job'[u]] /\ IsJob(job'[t])
        /\ ~Working(t)'
    BY <2>1, ThreadEnds
  <2> QED BY <2>2, CallTypes, TypesAfter
<1>3. CASE Goes(t)
  <2>1. PICK i \in Nat : At(t, i)
    BY <1>1 DEF EngineTypes
  <2>2. /\ \A u \in Threads \ {t} : job'[u] = job[u]
        /\ DOMAIN job' = Threads /\ job' = [u \in Threads |-> job'[u]] /\ IsJob(job'[t])
        /\ i = Len(CallsOf(t)) => job'[t] = NoJob(FALSE)
        /\ i # Len(CallsOf(t)) => job'[t].request = job[t].request /\ At(t, i + 1)'
    BY <1>1, <1>3, <2>1, GoesOn
  <2>3. Working(t)' => job'[t].request \in Requests /\ \E k \in Nat : At(t, k)'
    <3>1. CASE i = Len(CallsOf(t))
      BY <2>2, <3>1 DEF NoJob, Working
    <3>2. CASE i # Len(CallsOf(t))
      <4>1. i + 1 \in Nat
        OBVIOUS
      <4>2. job[t].request \in Requests
        BY <1>1 DEF EngineTypes
      <4> QED BY <2>2, <3>2, <4>1, <4>2
    <3> QED BY <3>1, <3>2
  <2> QED BY <2>2, <2>3, CallTypes, TypesAfter
<1> QED BY <1>2, <1>3, CallTypes

LEMMA EngineTypesOther ==
  ASSUME EngineTypes, connect \/ disconnect \/ UNCHANGED engineVars
  PROVE  EngineTypes'
<1>1. UNCHANGED <<db, buffer, job>>
  BY DEF connect, disconnect, engineVars
<1>2. isconnected' \in BOOLEAN /\ onTransaction' \in BOOLEAN
  BY Zenon DEF connect, disconnect, engineVars, EngineTypes
<1> QED BY <1>1, <1>2 DEF EngineTypes, IsDatabase, IsJob, Working, At, CallsOf

LEMMA EngineTypesCrash ==
  ASSUME EngineTypes, Crash
  PROVE  EngineTypes' /\ \A t \in Threads : ~Working(t)'
<1>1. /\ db' = db /\ buffer' = [t \in Threads |-> <<>>] /\ job' = [t \in Threads |-> NoJob(FALSE)]
  BY DEF Crash
<1>2. isconnected' \in BOOLEAN /\ onTransaction' \in BOOLEAN
  BY Zenon DEF Crash
<1>3. IsDatabase(db)' /\ buffer' \in [Threads -> Seq(Commands)]
  BY <1>1 DEF EngineTypes, IsDatabase
<1>4. DOMAIN job' = Threads /\ job' = [t \in Threads |-> job'[t]]
  BY <1>1
<1>5. \A t \in Threads : IsJob(job'[t]) /\ ~Working(t)'
  BY <1>1 DEF IsJob, NoJob, Working
<1> QED BY <1>2, <1>3, <1>4, <1>5, Zenon DEF EngineTypes

-----------------------------------------------------------------------------
(* The types hold for any number of threads.                                *)

Types == EngineTypes /\ DocumentTypes

LEMMA TypesInit ==
  ASSUME Init PROVE Types
BY EngineTypesInit, DocumentTypesInit DEF Init, Types

LEMMA TypesNext ==
  ASSUME SameThreads, Types, [Next]_vars PROVE Types'
<1> USE DEF Types
<1>1. CASE EngineNext /\ UNCHANGED documentVars
  <2>1. EngineTypes'
    BY <1>1, EngineTypesOther, EngineTypesStep, EngineTypesBegin DEF EngineNext
  <2> QED BY <1>1, <2>1, DocumentTypesOther
<1>2. CASE DocumentNext /\ UNCHANGED engineVars
  <2>1. DocumentTypes'
    BY <1>2, DocumentTypesSave, DocumentTypesOther DEF DocumentNext, SameThreads
  <2> QED BY <1>2, <2>1, EngineTypesOther
<1>3. CASE Crash
  BY <1>3, EngineTypesCrash, DocumentTypesOther DEF Crash
<1>4. CASE UNCHANGED vars
  BY <1>4, EngineTypesOther, DocumentTypesOther DEF vars
<1> QED BY <1>1, <1>2, <1>3, <1>4 DEF Next

LEMMA TypesAreTypes ==
  ASSUME Types PROVE TypeOK
<1>1. db \in [DOMAIN db -> Table] /\ DOMAIN buffer = Threads /\ DOMAIN job = Threads
  BY DEF Types, EngineTypes, IsDatabase
<1>2. \A n \in DOMAIN db : Keyed(db[n].rows)
  BY DEF Types, EngineTypes, IsDatabase
<1>3. isconnected \in BOOLEAN /\ onTransaction \in BOOLEAN
  BY DEF Types, EngineTypes
<1> QED BY <1>1, <1>2, <1>3, Zenon DEF TypeOK, Keyed, Types, DocumentTypes

\* In every reachable state the tables have typed rows and unique keys
\* (execute and commitTransaction, src/xdbengine.cpp:48-122), and no file has
\* the text of another (saveXmlDoc, src/xparam.cpp:78-116): for any threads,
\* requests, clock and texts, also while threads collect commands side by side.
THEOREM StorageTypes == Spec => []TypeOK
<1>1. Init => Types
  BY TypesInit
<1>2. Types /\ [Next]_vars => Types'
  BY TypesNext, SameThreads
<1>3. Types => TypeOK
  BY TypesAreTypes
<1> QED BY <1>1, <1>2, <1>3, PTL DEF Spec

-----------------------------------------------------------------------------
(* One thread: a request is one transaction after the other.                *)

Opens(c) == c = Start \/ IsCommand(c)

\* What holds when a call has returned, of the transaction it is in.
LEMMA Advance ==
  ASSUME OneThread, EngineTypes, NEW t \in Threads, NEW i, At(t, i), Working(t), Goes(t),
         NEW calls, calls = CallsOf(t),
         i = Len(calls) \/ ~Opens(calls[i]) => ~onTransaction' /\ buffer'[t] = <<>>,
         i # Len(calls) /\ Opens(calls[i]) =>
           onTransaction' /\ \E s \in 1..i :
             /\ calls[s] = Start /\ \A j \in (s + 1)..i : IsCommand(calls[j])
             /\ buffer'[t] = SubSeq(calls, s + 1, i),
         i # Len(calls) /\ OneTransaction(calls) => db' = job[t].before
  PROVE  EngineInv'
<1>1. /\ i = Len(calls) => job'[t] = NoJob(FALSE)
      /\ i # Len(calls) =>
           /\ job'[t].request = job[t].request /\ job'[t].before = job[t].before
           /\ At(t, i + 1)' /\ Working(t)'
  BY GoesOn
<1>2. i \in 1..Len(calls) /\ Len(calls) \in Nat
  BY CallFacts
<1>3. \A u \in Threads : u = t
  BY DEF OneThread
<1>4. CASE i = Len(calls)
  <2>1. ~Working(t)'
    BY <1>1, <1>4 DEF NoJob, Working
  <2>2. ~onTransaction' /\ buffer'[t] = <<>>
    BY <1>4
  <2> QED BY <1>3, <2>1, <2>2 DEF EngineInv
<1>5. CASE i # Len(calls)
  <2>1. CallsOf(t)' = calls
    BY <1>1, <1>5 DEF CallsOf
  <2>2. i + 1 \in 1..Len(calls) /\ i + 1 > 1 /\ (i + 1) - 1 = i
    BY <1>2, <1>5
  <2>3. Collected(t, i + 1)'
    <3>1. CASE Opens(calls[i])
      <4>1. onTransaction' /\ \E s \in 1..i :
              /\ calls[s] = Start /\ \A j \in (s + 1)..i : IsCommand(calls[j])
              /\ buffer'[t] = SubSeq(calls, s + 1, i)
        BY <1>5, <3>1
      <4> QED BY <2>1, <2>2, <3>1, <4>1 DEF Collected, Opens
    <3>2. CASE ~Opens(calls[i])
      BY <2>1, <2>2, <3>2 DEF Collected, Opens
    <3> QED BY <3>1, <3>2
  <2>4. OneTransaction(CallsOf(t))' => db' = job'[t].before
    BY <1>1, <1>5, <2>1 DEF OneTransaction
  <2>5. Working(t)' /\ \E k \in 1..Len(CallsOf(t)') : At(t, k)' /\ Collected(t, k)'
    BY <1>1, <1>5, <2>1, <2>2, <2>3
  <2> QED BY <1>3, <2>4, <2>5 DEF EngineInv
<1> QED BY <1>4, <1>5

LEMMA Stopped ==
  ASSUME OneThread, EngineTypes, NEW t \in Threads, Throws(t), ~onTransaction', buffer'[t] = <<>>
  PROVE  EngineInv'
<1>1. ~Working(t)'
  BY ThreadEnds DEF Throws
<1>2. \A u \in Threads : u = t
  BY DEF OneThread
<1> QED BY <1>1, <1>2 DEF EngineInv

\* The transaction a commit ends is the one that was collected.
LEMMA CommitFacts ==
  ASSUME EngineTypes, NEW t \in Threads, NEW i, At(t, i), Collected(t, i), commitTransaction(t),
         NEW calls, calls = CallsOf(t)
  PROVE  \E s \in DOMAIN calls :
           /\ i \in DOMAIN calls /\ Transaction(calls, s, i)
           /\ buffer[t] = SubSeq(calls, s + 1, i - 1)
           /\ OneTransaction(calls) => s = 1 /\ i = Len(calls)
<1>1. Working(t) /\ onTransaction /\ Head(job[t].left).do = "commit"
  BY DEF commitTransaction, Does
<1>2. /\ calls \in Seq(EngineCall) /\ i \in 1..Len(calls) /\ DOMAIN calls = 1..Len(calls) /\ Len(calls) \in Nat
      /\ Head(job[t].left) = calls[i]
  BY <1>1, CallFacts
<1>3. calls[i] = Commit
  BY <1>1, <1>2, CallKinds
<1>4. PICK s \in 1..(i - 1) :
         /\ calls[s] = Start /\ \A j \in (s + 1)..(i - 1) : IsCommand(calls[j])
         /\ buffer[t] = SubSeq(calls, s + 1, i - 1)
  BY <1>1 DEF Collected
<1>5. s \in DOMAIN calls /\ s < i
  BY <1>2
<1> QED BY <1>2, <1>3, <1>4, <1>5 DEF Transaction, OneTransaction

LEMMA EngineInvStep ==
  ASSUME OneThread, EngineTypes, EngineInv, NEW t \in Threads, EngineStep(t)
  PROVE  EngineInv'
<1>1. Working(t)
  BY DEF EngineStep, startTransaction, execute, commitTransaction, commitNothing, rollbackTransaction, throw, Does
<1>2. PICK i : At(t, i) /\ Collected(t, i) /\ (OneTransaction(CallsOf(t)) => db = job[t].before)
  BY <1>1 DEF EngineInv
<1> DEFINE calls == CallsOf(t)
           c == calls[i]
<1>3. /\ calls \in Seq(EngineCall) /\ InTransactions(calls)
      /\ i \in 1..Len(calls) /\ DOMAIN calls = 1..Len(calls) /\ Len(calls) \in Nat
      /\ Head(job[t].left) = c
  BY <1>1, <1>2, CallFacts
<1>4. c \in EngineCall /\ \A k \in 1..Len(calls) : calls[k] \in EngineCall
  BY <1>3
<1>5. buffer \in [Threads -> Seq(Commands)]
  BY DEF EngineTypes
<1>6. IF i > 1 /\ Opens(calls[i - 1])
      THEN onTransaction /\ \E s \in 1..(i - 1) :
             /\ calls[s] = Start /\ \A j \in (s + 1)..(i - 1) : IsCommand(calls[j])
             /\ buffer[t] = SubSeq(calls, s + 1, i - 1)
      ELSE ~onTransaction /\ buffer[t] = <<>>
  BY <1>2 DEF Collected, Opens
<1> HIDE DEF calls, c
<1>7. CASE startTransaction(t)
  <2>1. c = Start /\ Goes(t) /\ onTransaction' = TRUE /\ buffer' = buffer /\ db' = db
    BY <1>3, <1>4, <1>7, CallKinds DEF startTransaction, Does
  <2>2. i < Len(calls) /\ (i = 1 \/ calls[i - 1] \in {Start, Commit})
    BY <1>3, <2>1 DEF InTransactions, c
  <2>3. buffer[t] = <<>>
    <3>1. CASE i = 1 \/ calls[i - 1] = Commit
      <4>1. i > 1 => ~Opens(calls[i - 1])
        <5> SUFFICES ASSUME i > 1 PROVE ~Opens(calls[i - 1])
          OBVIOUS
        <5>1. calls[i - 1] = Commit /\ calls[i - 1] \in EngineCall
          BY <1>3, <1>4, <3>1
        <5> QED BY <5>1, CallKinds DEF Opens
      <4> QED BY <1>6, <4>1
    <3>2. CASE i > 1 /\ calls[i - 1] = Start
      <4>1. PICK s \in 1..(i - 1) :
              /\ \A j \in (s + 1)..(i - 1) : IsCommand(calls[j])
              /\ buffer[t] = SubSeq(calls, s + 1, i - 1)
        BY <1>6, <3>2 DEF Opens
      <4>2. ~IsCommand(calls[i - 1])
        BY <3>2 DEF IsCommand, Start
      <4>3. s + 1 > i - 1
        BY <1>3, <3>2, <4>1, <4>2
      <4> QED BY <1>3, <4>1, <4>3, SubSeqEmpty
    <3> QED BY <1>3, <2>2, <3>1, <3>2
  <2>4. SubSeq(calls, i + 1, i) = <<>>
    BY <1>3, SubSeqEmpty
  <2>5. \E s \in 1..i :
          /\ calls[s] = Start /\ \A j \in (s + 1)..i : IsCommand(calls[j])
          /\ buffer'[t] = SubSeq(calls, s + 1, i)
    <3>1. i \in 1..i /\ calls[i] = Start /\ \A j \in (i + 1)..i : IsCommand(calls[j])
      BY <1>3, <2>1 DEF c
    <3> QED BY <2>1, <2>3, <2>4, <3>1
  <2>6. i # Len(calls) /\ Opens(c) /\ onTransaction'
    <3>1. i < Len(calls) /\ i \in 1..Len(calls) /\ Len(calls) \in Nat
      BY <1>3, <2>2, Zenon
    <3>2. i # Len(calls)
      BY <3>1
    <3> QED BY <2>1, <3>2, Zenon DEF Opens
  <2>7. OneTransaction(CallsOf(t)) => db' = job[t].before
    BY <1>2, <2>1
  <2> QED BY <1>1, <1>2, <2>1, <2>5, <2>6, <2>7, Advance DEF c, calls
<1>8. CASE execute(t)
  <2>1. IsCommand(c)
    BY <1>3, <1>8 DEF execute, Does, IsCommand
  <2>2. \/ calls = <<vacuum>>
        \/ i \in 2..(Len(calls) - 1) /\ Opens(calls[i - 1])
    BY <1>3, <2>1 DEF InTransactions, Opens, c
  <2>3. CASE calls = <<vacuum>>
    <3>1. i = 1 /\ i = Len(calls) /\ ~onTransaction /\ buffer[t] = <<>>
      BY <1>3, <1>6, <2>3
    <3>2. buffer' = buffer /\ onTransaction' = onTransaction /\ (Goes(t) \/ Throws(t))
      BY <1>8, <3>1 DEF execute
    <3> QED BY <1>1, <1>2, <3>1, <3>2, Advance, Stopped DEF calls
  <2>4. CASE i \in 2..(Len(calls) - 1) /\ Opens(calls[i - 1])
    <3>1. onTransaction
      BY <1>3, <1>6, <2>4
    <3>2. PICK s \in 1..(i - 1) :
             /\ calls[s] = Start /\ \A j \in (s + 1)..(i - 1) : IsCommand(calls[j])
             /\ buffer[t] = SubSeq(calls, s + 1, i - 1)
      BY <1>3, <1>6, <2>4
    <3>3. buffer' = [buffer EXCEPT ![t] = Append(buffer[t], c)] /\ Goes(t) /\ db' = db /\ onTransaction' = onTransaction
      BY <1>3, <1>8, <3>1 DEF execute
    <3>4. buffer'[t] = SubSeq(calls, s + 1, i)
      <4>1. buffer'[t] = Append(SubSeq(calls, s + 1, i - 1), c)
        BY <1>5, <3>2, <3>3
      <4>2. SubSeq(calls, s + 1, i) = SubSeq(calls, s + 1, i - 1) \o <<c>>
        <5>1. s + 1 \in 1..Len(calls) /\ i \in (s + 1)..Len(calls)
          BY <1>3, <2>4
        <5> QED BY <1>3, <5>1, SubSeqRecursiveSecond DEF c
      <4>3. SubSeq(calls, s + 1, i - 1) \in Seq(Commands) /\ c \in Commands
        BY <1>4, <1>5, <2>1, <3>2, CallKinds
      <4> QED BY <4>1, <4>2, <4>3, AppendIsConcat
    <3>5. s \in 1..i /\ \A j \in (s + 1)..i : IsCommand(calls[j])
      BY <1>3, <2>1, <3>2 DEF c
    <3>6. i # Len(calls)
      <4>1. i \in 2..(Len(calls) - 1) /\ Len(calls) \in Nat
        BY <1>3, <2>4, Zenon
      <4> QED BY <4>1
    <3>7. onTransaction' /\ \E r \in 1..i :
             /\ calls[r] = Start /\ \A j \in (r + 1)..i : IsCommand(calls[j])
             /\ buffer'[t] = SubSeq(calls, r + 1, i)
      BY <3>1, <3>2, <3>3, <3>4, <3>5
    <3> QED BY <1>1, <1>2, <2>1, <3>3, <3>6, <3>7, Advance DEF Opens, c, calls
  <2> QED BY <2>2, <2>3, <2>4
<1>9. CASE commitTransaction(t)
  <2>1. ~onTransaction' /\ buffer'[t] = <<>> /\ (Goes(t) \/ Throws(t))
    <3>1. ~onTransaction' /\ buffer' = [buffer EXCEPT ![t] = <<>>]
      BY <1>9, Zenon DEF commitTransaction
    <3>2. Goes(t) \/ Throws(t)
      BY <1>9, Zenon DEF commitTransaction
    <3> QED BY <1>5, <3>1, <3>2
  <2>2. ~Opens(c)
    BY <1>3, <1>4, <1>9, CallKinds DEF commitTransaction, Does, Opens
  <2>3. OneTransaction(calls) => i = Len(calls)
    BY <1>2, <1>9, CommitFacts DEF calls
  <2> QED BY <1>1, <1>2, <2>1, <2>2, <2>3, Advance, Stopped DEF c, calls
<1>10. CASE commitNothing(t)
  <2>1. c = Commit /\ Goes(t) /\ ~onTransaction' /\ ~onTransaction /\ buffer' = buffer /\ db' = db
    BY <1>3, <1>4, <1>10, CallKinds DEF commitNothing, Does
  <2>2. ~Opens(c)
    BY <1>4, <2>1, CallKinds DEF Opens
  <2>3. buffer'[t] = <<>>
    BY <1>6, <2>1
  <2> QED BY <1>1, <1>2, <2>1, <2>2, <2>3, Advance DEF c, calls
<1>11. CASE rollbackTransaction(t)
  <2>1. c.do = "rollback" /\ Goes(t) /\ ~onTransaction' /\ db' = db
    BY <1>3, <1>11 DEF rollbackTransaction, Does
  <2>2. ~Opens(c)
    BY <1>4, <2>1, CallKinds DEF Opens
  <2>3. buffer'[t] = <<>>
    BY <1>5, <1>6, <1>11 DEF rollbackTransaction
  <2> QED BY <1>1, <1>2, <2>1, <2>2, <2>3, Advance DEF c, calls
<1>12. CASE throw(t)
  <2>1. c = Throw /\ Throws(t) /\ onTransaction' = onTransaction /\ buffer' = buffer
    BY <1>3, <1>4, <1>12, CallKinds DEF throw, Does
  <2>2. i > 1 /\ calls[i - 1] = Rollback
    BY <1>3, <2>1 DEF InTransactions, c
  <2>3. ~Opens(calls[i - 1])
    <3>1. calls[i - 1] \in EngineCall
      BY <1>3, <1>4, <2>2
    <3> QED BY <2>2, <3>1, CallKinds DEF Opens
  <2> QED BY <1>6, <2>1, <2>3, Stopped
<1> QED BY <1>7, <1>8, <1>9, <1>10, <1>11, <1>12 DEF EngineStep

LEMMA EngineInvInit ==
  ASSUME EngineInit PROVE EngineInv
<1>1. ~onTransaction /\ \A t \in Threads : buffer[t] = <<>> /\ job[t] = NoJob(FALSE)
  BY DEF EngineInit
<1>2. \A t \in Threads : ~Working(t)
  BY <1>1 DEF NoJob, Working
<1> QED BY <1>1, <1>2 DEF EngineInv

LEMMA EngineInvBegin ==
  ASSUME OneThread, EngineTypes, EngineInv, NEW t \in Threads, Begin(t)
  PROVE  EngineInv'
<1>1. ~Working(t) /\ UNCHANGED <<db, onTransaction, buffer>>
  BY DEF Begin
<1>2. Working(t)' /\ At(t, 1)' /\ job'[t].before = db
  BY EngineTypesBegin
<1>3. Collected(t, 1)'
  BY <1>1 DEF EngineInv, Collected
<1>4. 1 \in 1..Len(CallsOf(t)')
  BY <1>2 DEF At
<1>5. \A u \in Threads : u = t
  BY DEF OneThread
<1> QED BY <1>1, <1>2, <1>3, <1>4, <1>5 DEF EngineInv

LEMMA EngineInvOther ==
  ASSUME EngineTypes, EngineInv, connect \/ disconnect \/ UNCHANGED engineVars
  PROVE  EngineInv'
<1>1. UNCHANGED <<db, buffer, job>>
  BY DEF connect, disconnect, engineVars
<1>2. CASE disconnect
  BY <1>1, <1>2 DEF disconnect, EngineInv, Working
<1>3. CASE connect \/ UNCHANGED engineVars
  <2>1. onTransaction' = onTransaction
    BY <1>3 DEF connect, engineVars
  <2> QED BY <1>1, <2>1 DEF EngineInv, Working, At, Collected, CallsOf
<1> QED BY <1>2, <1>3

LEMMA EngineInvCrash ==
  ASSUME EngineTypes, Crash
  PROVE  EngineInv'
<1>1. ~onTransaction' /\ \A t \in Threads : buffer'[t] = <<>>
  BY DEF Crash
<1> QED BY <1>1, EngineTypesCrash DEF EngineInv

\* The inductive invariant of a program with one thread.
IInv == Types /\ EngineInv /\ SaveInv /\ DocumentKept

LEMMA IInvInit ==
  ASSUME Init PROVE IInv
BY TypesInit, EngineInvInit, DocumentInvInit DEF Init, IInv, DocumentInv

LEMMA SaveStepKeeps ==
  ASSUME OneThread, SameThreads, DocumentInv, NEW s \in Savers, SaveXmlDoc(s) \/ SaveStep(s)
  PROVE  SaveInv' /\ DocumentKept'
BY SaveXmlDocKeeps, OpenKeeps, WriteKeeps, FailedKeeps, EscapedKeeps, RemoveOldKeeps, RestoreKeeps DEF SaveStep

LEMMA DocumentStays ==
  ASSUME DocumentInv, UNCHANGED documentVars
  PROVE  SaveInv' /\ DocumentKept'
BY DEF documentVars, DocumentInv, SaveInv, DocumentKept, DocumentInPlace, Whole

LEMMA IInvNext ==
  ASSUME OneThread, SameThreads, IInv, [Next]_vars PROVE IInv'
<1>1. Types' /\ EngineTypes /\ EngineInv /\ DocumentInv
  BY TypesNext DEF IInv, Types, DocumentInv
<1>2. CASE EngineNext /\ UNCHANGED documentVars
  <2>1. EngineInv'
    BY <1>1, <1>2, EngineInvOther, EngineInvStep, EngineInvBegin DEF EngineNext
  <2> QED BY <1>1, <1>2, <2>1, DocumentStays DEF IInv
<1>3. CASE DocumentNext /\ UNCHANGED engineVars
  <2>1. SaveInv' /\ DocumentKept'
    BY <1>1, <1>3, SaveStepKeeps, TickKeeps DEF DocumentNext, SameThreads
  <2> QED BY <1>1, <1>3, <2>1, EngineInvOther DEF IInv
<1>4. CASE Crash
  BY <1>1, <1>4, EngineInvCrash, DieKeeps DEF Crash, IInv
<1>5. CASE UNCHANGED vars
  BY <1>1, <1>5, EngineInvOther, DocumentStays DEF vars, IInv
<1> QED BY <1>2, <1>3, <1>4, <1>5 DEF Next

LEMMA Inductive ==
  ASSUME OneThread PROVE Spec => []IInv
<1>1. Init => IInv
  BY IInvInit
<1>2. IInv /\ [Next]_vars => IInv'
  BY IInvNext, SameThreads
<1> QED BY <1>1, <1>2, PTL DEF Spec

\* With one thread nothing of a call is left in the engine when it has
\* returned or thrown (startTransaction, commitTransaction and
\* rollbackTransaction, src/xdbengine.cpp:78-139), whatever the requests, as
\* long as their calls are InTransactions.
THEOREM StorageClean == ASSUME OneThread PROVE Spec => []EngineClean
<1>1. IInv => EngineClean
  <2> SUFFICES ASSUME IInv, \A t \in Threads : ~Working(t)
               PROVE  ~onTransaction /\ \A t \in Threads : buffer[t] = <<>>
    BY DEF EngineClean
  <2> QED BY DEF IInv, EngineInv, OneThread
<1> QED BY <1>1, Inductive, PTL

\* With one thread a whole document is on the disk in every reachable state,
\* and in its place while nothing is being saved, unless the process died in a
\* save or a pparam::Exception of xml() left one (saveXmlDoc,
\* src/xparam.cpp:78-116): however often that happens and whatever it left
\* behind before.
THEOREM StorageDocumentKept == ASSUME OneThread PROVE Spec => []DocumentKept
<1>1. IInv => DocumentKept
  BY DEF IInv
<1> QED BY <1>1, Inductive, PTL

\* A step that changes the tables is the commit of a whole transaction.
LEMMA ChangesAtCommit ==
  ASSUME OneThread, IInv, [Next]_vars PROVE StoresWhole
<1> SUFFICES ASSUME db' # db
             PROVE  \E t \in Threads :
                      \E s, i \in DOMAIN CallsOf(t) :
                        /\ Transaction(CallsOf(t), s, i)
                        /\ Batch(db, SubSeq(CallsOf(t), s + 1, i - 1)).ok
                        /\ db' = Batch(db, SubSeq(CallsOf(t), s + 1, i - 1)).db
                        /\ job[t].request.param.kind # "mixes" =>
                             db = job[t].before /\ s = 1 /\ i = Len(CallsOf(t))
  BY Zenon DEF StoresWhole, CallsOf
<1>1. PICK t \in Threads : execute(t) \/ commitTransaction(t)
  <2>1. EngineNext
    BY DEF Next, Crash, vars, engineVars
  <2>2. PICK t \in Threads : EngineStep(t) \/ Begin(t)
    BY <2>1 DEF EngineNext, connect, disconnect
  <2>3. ~Begin(t) /\ ~startTransaction(t) /\ ~commitNothing(t) /\ ~rollbackTransaction(t) /\ ~throw(t)
    BY DEF Begin, startTransaction, commitNothing, rollbackTransaction, throw
  <2> QED BY <2>2, <2>3 DEF EngineStep
<1>2. EngineTypes /\ Working(t)
  BY <1>1 DEF IInv, Types, execute, commitTransaction, Does
<1>3. PICK i : At(t, i) /\ Collected(t, i) /\ (OneTransaction(CallsOf(t)) => db = job[t].before)
  BY <1>2 DEF IInv, EngineInv
<1> DEFINE calls == CallsOf(t)
<1>4. /\ calls \in Seq(EngineCall) /\ InTransactions(calls)
      /\ job[t].request.param.kind # "mixes" => OneTransaction(calls)
      /\ i \in 1..Len(calls) /\ DOMAIN calls = 1..Len(calls) /\ Len(calls) \in Nat
      /\ Head(job[t].left) = calls[i]
  BY <1>2, <1>3, CallFacts
<1>5. CASE execute(t)
  <2>1. IsCommand(calls[i]) /\ ~onTransaction /\ db' = Effect(db, calls[i])
    BY <1>4, <1>5 DEF execute, Does, IsCommand
  <2>2. ~(i \in 2..(Len(calls) - 1) /\ Opens(calls[i - 1]))
    BY <1>3, <1>4, <2>1 DEF Collected, Opens
  <2>3. calls = <<vacuum>>
    BY <1>4, <2>1, <2>2 DEF InTransactions, Opens
  <2>4. calls[i] = vacuum
    BY <1>4, <2>3
  <2>5. Effect(db, vacuum) = db
    BY DEF Effect, vacuum, Command
  <2> QED BY <2>1, <2>4, <2>5
<1>6. CASE commitTransaction(t)
  <2>1. PICK s \in DOMAIN calls :
           /\ i \in DOMAIN calls /\ Transaction(calls, s, i)
           /\ buffer[t] = SubSeq(calls, s + 1, i - 1)
           /\ OneTransaction(calls) => s = 1 /\ i = Len(calls)
    BY <1>2, <1>3, <1>6, CommitFacts
  <2>2. Batch(db, buffer[t]).ok /\ db' = Batch(db, buffer[t]).db
    BY <1>6, Zenon DEF commitTransaction
  <2> QED BY <1>3, <1>4, <2>1, <2>2
<1> QED BY <1>1, <1>5, <1>6

\* With one thread what a request stores is stored by one commit, as a whole:
\* commitTransaction (src/xdbengine.cpp:86-122) and the database functions of
\* include/xparam.tcc:196-376 and 609-759.
THEOREM StorageAllOrNothing == ASSUME OneThread PROVE Spec => AllOrNothing
<1>1. IInv /\ [Next]_vars => [StoresWhole]_vars
  BY ChangesAtCommit
<1> QED BY <1>1, Inductive, PTL DEF Spec, AllOrNothing
=============================================================================
