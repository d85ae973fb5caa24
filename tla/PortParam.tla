----------------------------- MODULE PortParam -----------------------------
(***************************************************************************)
(* pparam::PortParam (src/sparam.cpp): the automaton that reads a port or  *)
(* a range of ports.  A text is a sequence of characters: "!", ":", any    *)
(* other character Other, or a digit.                                      *)
(***************************************************************************)
EXTENDS Integers, Sequences

CONSTANTS Bang, Colon, Other

INVALID_PORT == -1
MIN_PORT     == 0
MAX_PORT     == 65535

Digit == 0..9

ASSUME CharactersAssumption == {Bang, Colon, Other} \cap Digit = {} /\ Bang # Colon

Port == [notSign : BOOLEAN, portRange : BOOLEAN, from : INVALID_PORT..MAX_PORT,
         to : INVALID_PORT..MAX_PORT, portString : Seq(Digit \union {Bang, Colon, Other})]

NewPort == [notSign |-> FALSE, portRange |-> FALSE, from |-> INVALID_PORT, to |-> INVALID_PORT,
            portString |-> <<>>]

Start == [state |-> 0, notSign |-> FALSE, from |-> MIN_PORT, to |-> INVALID_PORT, setZero |-> TRUE]

Fail(s) == [s EXCEPT !.state = 4]
AddFrom(s, c) == [s EXCEPT !.state = 2, !.from = (@ * 10) + c]

\* Mutant of Read: an open range "N:" does not get the largest port.
ReadNoMax(s, c) ==
  CASE s.state = 0 /\ c = Bang           -> [s EXCEPT !.state = 1, !.notSign = TRUE]
    [] s.state \in 0..1 /\ c = Colon      -> [s EXCEPT !.state = 3]
    [] s.state \in 0..2 /\ c \in Digit  -> AddFrom(s, c)
    [] s.state = 2 /\ c = Colon           -> [s EXCEPT !.state = 3]
    [] s.state = 3 /\ c \in Digit       -> [s EXCEPT !.to = (IF s.setZero THEN MIN_PORT ELSE @) * 10 + c,
                                                     !.setZero = FALSE]
    [] OTHER                            -> Fail(s)

\* One character; state 4 only fails.
Read(s, c) ==
  CASE s.state = 0 /\ c = Bang           -> [s EXCEPT !.state = 1, !.notSign = TRUE]
    [] s.state \in 0..1 /\ c = Colon      -> [s EXCEPT !.state = 3]
    [] s.state \in 0..2 /\ c \in Digit  -> AddFrom(s, c)
    [] s.state = 2 /\ c = Colon           -> [s EXCEPT !.state = 3, !.to = MAX_PORT]
    [] s.state = 3 /\ c \in Digit       -> [s EXCEPT !.to = (IF s.setZero THEN MIN_PORT ELSE @) * 10 + c,
                                                     !.setZero = FALSE]
    [] OTHER                            -> Fail(s)

\* The automaton after the whole text.
Reading(text) ==
  LET s[n \in 0..Len(text)] == IF n = 0 THEN Start ELSE Read(s[n - 1], text[n]) IN s[Len(text)]

\* operator=(string): what was read, when the text ends in state 2 or 3 and
\* its numbers are ports in ascending order.
Accepted(text) ==
  LET s == Reading(text)
  IN /\ s.state \in {2, 3} /\ s.from \in MIN_PORT..MAX_PORT
     /\ s.state = 3 => s.to \in MIN_PORT..MAX_PORT /\ s.to > s.from

setPort(p, text) ==
  LET s == Reading(text)
  IN IF ~Accepted(text) THEN p
     ELSE [notSign |-> s.notSign, from |-> s.from, to |-> s.to, portString |-> text,
           portRange |-> s.to # INVALID_PORT]

\* operator=(unsigned int).
setPortNumber(p, n, digits) ==
  IF n > MAX_PORT THEN p
  ELSE [notSign |-> FALSE, from |-> n, to |-> INVALID_PORT, portString |-> digits, portRange |-> FALSE]

\* The copy constructor leaves portRange unset, operator=(PortParam) as it was.
Copies(q) == {[q EXCEPT !.portRange = b] : b \in BOOLEAN}
copyPort(p, q) == [q EXCEPT !.portRange = p.portRange]

-----------------------------------------------------------------------------
(* The documented grammar, "[!][[N]:]N OR [!]N[:[N]]", to compare with.     *)

Digits(text, i, j) == \A k \in i..j : text[k] \in Digit

\* The number that the digits from i to j write, 0 when there are none.
Number(text, i, j) ==
  LET n[k \in 0..Len(text)] == IF k < i \/ text[k] \notin Digit THEN 0 ELSE (10 * n[k - 1]) + text[k] IN n[j]

\* The ports a text stands for, {} when it stands for none.
Denotes(text) ==
  LET end    == Len(text)
      begin  == IF text # <<>> /\ Head(text) = Bang THEN 2 ELSE 1
      colons == {k \in begin..end : text[k] = Colon}
  IN IF colons = {}
     THEN IF begin <= end /\ Digits(text, begin, end) /\ Number(text, begin, end) <= MAX_PORT
          THEN {Number(text, begin, end)} ELSE {}
     ELSE LET colon == CHOOSE k \in colons : TRUE
              first == Number(text, begin, colon - 1)
              last  == IF colon = end THEN MAX_PORT ELSE Number(text, colon + 1, end)
          IN IF /\ begin < end /\ Digits(text, begin, colon - 1) /\ Digits(text, colon + 1, end)
                /\ last <= MAX_PORT /\ first < last
             THEN first..last ELSE {}
=============================================================================
