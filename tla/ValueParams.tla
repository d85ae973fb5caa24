---------------------------- MODULE ValueParams ----------------------------
(***************************************************************************)
(* One value parameter of src/sparam.cpp and everything its client may     *)
(* call on it: a date and time, an IPv4 or IPv6 address, a range of        *)
(* addresses, a port, a security identifier.  The conversions are in       *)
(* DateTimeParam, IPParam, PortParam and SIDParam.                         *)
(***************************************************************************)
EXTENDS DateTimeParam, IPParam, PortParam, SIDParam

CONSTANTS
  Clocks,       \* the dates and times a client begins with
  Minutes,      \* amounts it adds
  LastYear,     \* bound on the years
  Times, Dates, \* other operands
  Texts,        \* what it assigns to addresses
  AddressTexts, \* what it gives to setAddressFrom and setAddressTo
  Netmasks,     \* what it sets as netmask
  WordLists,    \* eight words of an IPv6 address
  Chars,        \* characters of a port text
  MaxChars,     \* bound on the first text; later ones have at most two
  MaxIDs        \* bound on the ids of a security identifier

\* A client sets dates and times that are on the calendar and the clock.
ASSUME ClocksAssumption ==
  /\ \A c \in Clocks : c \in [date : Date, time : Time] /\ isValidDateTime(c)
  /\ \A t \in Times : t \in Time /\ isValidTime(t)
  /\ \A d \in Dates : d \in Date /\ isValidDate(d)
  /\ Minutes \subseteq Nat \ {0}

\* setAddress(int, ..., int) stores any number as one of the last four words.
ASSUME TextsAssumption ==
  /\ Texts \union AddressTexts \subseteq Text
  /\ Netmasks \subseteq Seq(Int \union {Blank, Letters})
  /\ \A w \in WordLists : w \in [1..8 -> Int] /\ \A i \in 5..8 : w[i] \in Word

\* A text this short writes no number that is too large for 32 bits.
ASSUME CharsAssumption == Chars \subseteq Digit \union {Bang, Colon, Other} /\ MaxChars \in 0..9

Kinds == {"clock", "v4", "v6", "range", "port", "sid"}

VARIABLES kind, val

vars == <<kind, val>>

NewRange == [from |-> NewIPx, to |-> NewIPx, _not |-> FALSE]
NewSID   == [authority |-> 5, ids |-> <<>>]

Init == /\ kind \in Kinds
        /\ CASE kind = "clock" -> val \in Clocks
             [] kind = "v4"    -> val = NewIPv4
             [] kind = "v6"    -> val = NewIPv6
             [] kind = "range" -> val = NewRange
             [] kind = "port"  -> val = NewPort
             [] kind = "sid"   -> val = NewSID

Change(k, v) == kind = k /\ val' = v /\ UNCHANGED kind

-----------------------------------------------------------------------------
(* Dates and times.                                                         *)

AddMinute(n) ==
  kind = "clock" /\ val.date.year < LastYear /\ Change("clock", addMinute(val, n))

-----------------------------------------------------------------------------
(* Addresses.                                                               *)

Reset4        == Change("v4", NewIPv4)
Assign4(t)    == Change("v4", set4(val, t))
SetNetmask4(m) ==
  Change("v4", IF setNetmask4(m) = NotAMask THEN val
               ELSE [val EXCEPT !.netmask = setNetmask4(m), !.containNetmask = TRUE])

Reset6        == Change("v6", NewIPv6)
Assign6(t)    == Change("v6", set6(val, t))
AssignIPv4(t) == Reads4(t) /\ Change("v6", Mapped(set4(NewIPv4, t)))
SetWords(w)   == Change("v6", IF setAddressWords(w) = Rejected THEN val ELSE [val EXCEPT !.address = w])

-----------------------------------------------------------------------------
(* Ranges.  "Emptying" the end of a range assigns the empty text to it.     *)

EmptyText == [sep |-> ".", parts |-> <<Blank>>, mask |-> NoMask]

Emptied(x) == assign(x, EmptyText)

HasFrom == val.from.version # "none" /\ Present(val.from)

\* Mutant of WithFrom: the end keeps its version.
WithFromKeepsTo(from) == [val EXCEPT !.from = from]

\* setFrom, setAddressFrom after `from` was stored.
WithFrom(from) ==
  [val EXCEPT !.from = from, !.to = IF from.version = @.version THEN @ ELSE Emptied(@)]

\* setTo, setAddressTo after `to` was stored.
WithTo(to) ==
  [val EXCEPT !.to = IF val.from.version = to.version THEN to ELSE Emptied(to)]

\* A text that is no address throws before the versions are compared.
SetFrom(t) ==
  Change("range", IF Readable(t) THEN WithFrom(assign(val.from, t))
                  ELSE [val EXCEPT !.from = assign(@, t)])

SetTo(t) == kind = "range" /\ HasFrom /\
  Change("range", IF Readable(t) THEN WithTo(assign(val.to, t))
                  ELSE [val EXCEPT !.to = assign(@, t)])

\* The text with a mask is an address, but not one for setAddress of IPv4
\* and IPv6, which throws when it is already stored.
SetAddressFrom(t) ==
  Change("range", IF Readable(t) /\ t.mask = NoMask THEN WithFrom(setAddressX(val.from, t))
                  ELSE [val EXCEPT !.from = setAddressX(@, t)])

SetAddressTo(t) == kind = "range" /\ HasFrom /\
  Change("range", IF Readable(t) /\ t.mask = NoMask THEN WithTo(setAddressX(val.to, t))
                  ELSE [val EXCEPT !.to = setAddressX(@, t)])

\* setTo(XParam) with an IPv4 or IPv6 parameter that was given the text t.
SetToObject(t) ==
  /\ kind = "range" /\ Present(val.to)
  /\ \E version \in {v \in {"v4", "v6"} : IF v = "v4" THEN Reads4(t) ELSE Readable(t)} :
       Change("range", [val EXCEPT !.to = setObjectX(@, version, t)])

\* setNetmaskTo; an end without an address would be read through NULL.
SetNetmaskTo(m) ==
  /\ kind = "range" /\ Present(val.to)
  /\ Change("range", [val EXCEPT !.to = setNetmaskX(@, m)])

-----------------------------------------------------------------------------
(* Ports and security identifiers.                                          *)

\* Texts of n characters; long ones only for a new port.
AssignPort(n) ==
  /\ kind = "port" /\ (val = NewPort \/ n <= 2)
  /\ \E text \in [1..n -> Chars] : Change("port", setPort(val, text))
AssignNumber(n)  == Change("port", setPortNumber(val, n, <<n>>))
\* Assignment of another port, also one that was never set.
AssignPortParam(n) ==
  /\ kind = "port" /\ val # NewPort
  /\ \E text \in [1..n -> Chars] : Change("port", copyPort(val, setPort(NewPort, text)))
CopyPort         == kind = "port" /\ \E q \in Copies(val) : Change("port", q)

AddID(i) == kind = "sid" /\ Len(val.ids) < MaxIDs /\ Change("sid", [val EXCEPT !.ids = Append(@, i)])
AssignHex == Change("sid", hexToStr(strToHex(val)))

Next ==
  \/ \E n \in Minutes : AddMinute(n)
  \/ Reset4 \/ Reset6
  \/ \E t \in Texts : Assign4(t) \/ Assign6(t) \/ AssignIPv4(t) \/ SetFrom(t) \/ SetTo(t) \/ SetToObject(t)
  \/ \E t \in AddressTexts : SetAddressFrom(t) \/ SetAddressTo(t)
  \/ \E m \in Netmasks : SetNetmask4(m)
  \/ \E w \in WordLists : SetWords(w)
  \/ \E m \in {24, 96} : SetNetmaskTo(m)
  \/ \E n \in 0..MaxChars : AssignPort(n)
  \/ \E n \in Chars \cap Digit : AssignNumber(n)
  \/ \E n \in 0..2 : AssignPortParam(n)
  \/ CopyPort
  \/ \E i \in SubIDs : AddID(i)
  \/ AssignHex

Spec == Init /\ [][Next]_vars

-----------------------------------------------------------------------------
(* Properties.                                                              *)

Values(k) == CASE k = "clock" -> [date : Date, time : Time]
               [] k = "v4" -> IPv4 [] k = "v6" -> IPv6 [] k = "port" -> Port
               [] k = "range" -> [from : IPx, to : IPx, _not : BOOLEAN]
               [] k = "sid" -> SID

\* Every assignment, accepted or rejected, leaves a value of the fields'
\* ranges: bytes, words, prefixes, ports, a date and time on the calendar.
TypeOK == kind \in Kinds /\ val \in Values(kind) /\ (kind = "clock" => isValidDateTime(val))

\* DateTime::addMinute moves the clock by exactly the minutes given, over
\* midnight, the end of a month and of a year, and `<` sees it move; years
\* whose February differs from that of the year 1900 later, where mktime()
\* is sent, excepted.
ClockExact ==
  [][\A n \in Minutes :
       AddMinute(n) /\ (\A y \in val.date.year..val'.date.year : isLeapYear(y) = isLeapYear(y + 1900))
       => TrueMinutes(val') = TrueMinutes(val) + n /\ DateTimeLess(val, val')]_vars

\* The seconds of a sum and of a difference of times of day.
TimesExact(t, u) ==
  /\ secondsOfTime(TimePlus(t, u)) + (86400 * TimeAddDays(t, u)) = secondsOfTime(t) + secondsOfTime(u)
  /\ TimeMinus(t, u) \in 0..86400
  /\ (secondsOfTime(t) + TimeMinus(t, u)) % 86400 = secondsOfTime(u)

\* The days between two dates, and their order.
DatesExact(d, e) ==
  /\ DateMinus(d, e) = TrueDays(d) - TrueDays(e)
  /\ DateLess(e, d) <=> DateMinus(d, e) > 0

\* TimeParam::add and operator+ lose no second to a carry; operator- gives the
\* seconds that lead from one time of day to the other, and the days between
\* two dates of one year, whose order `<` agrees with.
DifferencesExact ==
  kind = "clock" =>
    /\ \A u \in Times : TimesExact(val.time, u)
    /\ \A e \in Dates : e.year = val.date.year => DatesExact(val.date, e)

\* A netmask written as four bytes is read as the same prefix, the prefix of
\* all 32 bits excepted; a mask is accepted only when its bits are a prefix;
\* and the network test gives the same answer for addresses and the IPv6
\* addresses they are mapped to.
MaskReadsBack ==
  kind = "v4" =>
    /\ val.netmask < 32 => setNetmask4(getNetmaskExtended(val)) = val.netmask
    /\ \A m \in Netmasks : Len(m) = 4 /\ setNetmask4(m) # NotAMask =>
         \A i, j \in 0..31 : i < j /\ i \in Bits(m) => j \in Bits(m)
    /\ val.containNetmask =>
         \A t \in AddressTexts : Reads4(t) =>
           (available4(val, setAddress4(t)) <=> available6(Mapped(val), Mapped(set4(NewIPv4, t)).address))

\* The text IPv6Param writes is one it reads, as the same address.  The text
\* of an address whose first run of zeros is just its first or last word is
\* not: it has nine parts.
LoneEdgeZero(words) ==
  \/ words[1] = 0 /\ words[2] # 0
  \/ words[8] = 0 /\ \A i \in 1..7 : words[i] # 0

AddressReadsBack ==
  kind = "v6" =>
    setAddress6([sep |-> ":", parts |-> getAddress6(val.address), mask |-> NoMask])
      = IF LoneEdgeZero(val.address) THEN Rejected ELSE val.address

\* The end of a range has the version of its beginning; only when that is
\* IPv6 may it be an IPv4 address, the one that stands for "emptied" or an
\* object assigned over it.
VersionsFit(r) ==
  \/ r.to.version \in {"none", r.from.version}
  \/ r.to.version = "v4" /\ r.from.version = "v6"

\* A text with a mask given to setAddressFrom or setAddressTo.
GivesMask(t) == t.mask # NoMask /\ (SetAddressFrom(t) \/ SetAddressTo(t))

\* Whatever a range was before, once one of its ends was given an address in
\* text its versions fit, also when setTo and setAddressTo refuse the version;
\* and no other operation, throwing or not, takes that away, but for
\* setAddressFrom and setAddressTo of an address with a mask: they store it
\* with its version and throw before the versions are compared.
RangeVersions ==
  [][kind = "range" /\ ~VersionsFit(val') =>
       /\ \A t \in Texts : Readable(t) => ~SetFrom(t) /\ ~SetTo(t)
       /\ \A t \in AddressTexts : Readable(t) /\ t.mask = NoMask => ~SetAddressFrom(t) /\ ~SetAddressTo(t)
       /\ VersionsFit(val) => \E t \in AddressTexts : Readable(t) /\ GivesMask(t)]_vars

\* A port accepts exactly the texts of the documented grammar, and stands for
\* the ports they denote.
PortDenotes ==
  kind = "port" /\ val.portString # <<>> =>
    /\ Denotes(val.portString) = IF val.to = INVALID_PORT THEN {val.from} ELSE val.from..val.to
    /\ val.notSign <=> Head(val.portString) = Bang
    /\ \A n \in 0..2 : \A text \in [1..n -> Chars] : Accepted(text) <=> Denotes(text) # {}

\* A security identifier of at most nine ids is the same after it was
\* written in hexadecimal and read again.
SIDReadsBack == kind = "sid" /\ Len(val.ids) <= 9 => hexToStr(strToHex(val)) = val
=============================================================================
