------------------------------ MODULE IPParam ------------------------------
(***************************************************************************)
(* pparam::IPv4Param, IPv6Param and IPxParam (src/sparam.cpp): reading     *)
(* addresses and netmasks from text, writing them, and the network test.   *)
(*                                                                         *)
(* A text is the sequence of its parts between the separators "." or ":",  *)
(* and a mask behind "/" or "\".  A part is a number, Blank (nothing       *)
(* between two separators) or Letters (a character the reader refuses).    *)
(* Numbers are 32 bits wide and written in two's complement, so that       *)
(* 4294967040 is -256.                                                     *)
(***************************************************************************)
EXTENDS Integers, SequencesExt

CONSTANTS Blank, Letters, Null    \* Null: a pointer to no address

ASSUME BlankAssumption == Blank \notin Int /\ Letters \notin Int /\ Blank # Letters

NoMask == <<>>

Byte == 0..255
MaxWord == 65535
Word == 0..MaxWord

Text == [sep : {".", ":"}, parts : Seq(Int \union {Blank, Letters}),
         mask : Seq(Int \union {Blank, Letters})]

\* An address; haveNetmask() tells whether the netmask was ever given.
IPv4 == [address : [1..4 -> Byte], netmask : 0..32, containNetmask : BOOLEAN]
IPv6 == [address : [1..8 -> Word], netmask : 0..128, containNetmask : BOOLEAN]

NewIPv4 == [address |-> <<0, 0, 0, 0>>, netmask |-> 32, containNetmask |-> FALSE]
NewIPv6 == [address |-> <<0, 0, 0, 0, 0, 0, 0, 0>>, netmask |-> 128, containNetmask |-> FALSE]

\* What a reader returns that throws.
Rejected == <<>>
NotAMask == -1

\* "address/mask" with nothing on one side.
HalfEmpty(t) == t.mask # NoMask /\ <<Blank>> \in {t.parts, t.mask}

-----------------------------------------------------------------------------
(* Netmasks of IPv4: a prefix length, 32 bits, or four bytes.  The empty    *)
(* text is the number 0, for IPv4 and IPv6.                                 *)

compactToParts(n) == [i \in 1..4 |-> (n \div 2^(8 * (4 - i))) % 256]

Bits(bytes) == {i \in 0..31 : (bytes[4 - (i \div 8)] \div 2^(i % 8)) % 2 = 1}

\* What bit e of byte i is worth.
BitOf(bits, i, e) == IF (8 * (4 - i)) + e \in bits THEN 2^e ELSE 0

BytesOf(bits) ==
  [i \in 1..4 |-> BitOf(bits, i, 0) + BitOf(bits, i, 1) + BitOf(bits, i, 2) + BitOf(bits, i, 3)
                   + BitOf(bits, i, 4) + BitOf(bits, i, 5) + BitOf(bits, i, 6) + BitOf(bits, i, 7)]

\* Mutant of convertCompactNetmaskToSimple: the prefix is one too long.
convertLongPrefix(bits) ==
  LET clear == (0..31) \ bits
      threshold == IF clear = {} THEN 0 ELSE Max(clear)
  IN IF bits \cap (0..(threshold - 1)) # {} THEN NotAMask ELSE 32 - threshold

\* The highest clear bit ends the prefix; no bit below it may be set.
convertCompactNetmaskToSimple(bits) ==
  LET clear == (0..31) \ bits
      threshold == IF clear = {} THEN 0 ELSE Max(clear)
  IN IF bits \cap (0..(threshold - 1)) # {} THEN NotAMask ELSE 31 - threshold

\* n low bits, shifted to the top.
convertSimpleNetmaskToCompact(n) == {i + (32 - n) : i \in 0..(n - 1)}

getNetmaskExtended(ip) == BytesOf(convertSimpleNetmaskToCompact(ip.netmask))

setNetmask4(m) ==
  CASE m = <<Blank>>                                  -> 0
    [] Len(m) = 1 /\ m[1] \in 0..32                   -> m[1]
    [] Len(m) = 1 /\ m[1] \in Int \ (0..32)           -> convertCompactNetmaskToSimple(Bits(compactToParts(m[1])))
    [] Len(m) = 4 /\ \A i \in 1..4 : m[i] \in Byte  -> convertCompactNetmaskToSimple(Bits(m))
    [] OTHER                                          -> NotAMask

-----------------------------------------------------------------------------
(* IPv4 addresses.  The empty text is the number 0.                         *)

setAddress4(t) ==
  CASE t.parts = <<Blank>>                            -> compactToParts(0)
    [] Len(t.parts) = 1 /\ t.parts[1] \in Int        -> compactToParts(t.parts[1])
    [] /\ t.sep = "." /\ Len(t.parts) = 4
       /\ \A i \in 1..4 : t.parts[i] \in Byte      -> t.parts
    [] OTHER                                          -> Rejected

Reads4(t) == /\ ~HalfEmpty(t) /\ setAddress4(t) # Rejected
             /\ t.mask = NoMask \/ setNetmask4(t.mask) # NotAMask

\* set(string): the address is stored before the mask is read.
set4(ip, t) ==
  IF HalfEmpty(t) \/ setAddress4(t) = Rejected THEN ip
  ELSE IF ~Reads4(t) \/ t.mask = NoMask THEN [ip EXCEPT !.address = setAddress4(t)]
  ELSE [address |-> setAddress4(t), netmask |-> setNetmask4(t.mask), containNetmask |-> TRUE]

\* checkNetworkAvailability: the given text has to be an address.
available4(ip, bytes) ==
  LET mask == convertSimpleNetmaskToCompact(ip.netmask)
  IN ip.containNetmask /\ Bits(bytes) \cap mask = Bits(ip.address) \cap mask

-----------------------------------------------------------------------------
(* IPv6 addresses.                                                          *)

\* Mutant of getAddress6: the run of zeros reaches one word too far.
getAddressLongRun(words) ==
  IF 0 \notin ToSet(words) THEN words
  ELSE LET start == SelectInSeq(words, LAMBDA w : w = 0)
           later == {i \in (start + 1)..8 : words[i] # 0}
           end   == IF later = {} THEN 8 ELSE Min(later)
       IN (IF start = 1 THEN <<Blank>> ELSE SubSeq(words, 1, start - 1)) \o <<Blank>>
          \o (IF end = 8 THEN <<Blank>> ELSE SubSeq(words, end + 1, 8))

\* getAddress: the first run of zero words is written "::".
getAddress6(words) ==
  IF 0 \notin ToSet(words) THEN words
  ELSE LET start == SelectInSeq(words, LAMBDA w : w = 0)
           later == {i \in (start + 1)..8 : words[i] # 0}
           end   == IF later = {} THEN 8 ELSE Min(later) - 1
       IN (IF start = 1 THEN <<Blank>> ELSE SubSeq(words, 1, start - 1)) \o <<Blank>>
          \o (IF end = 8 THEN <<Blank>> ELSE SubSeq(words, end + 1, 8))

\* setAddress(string).  The count of parts is checked with the blank ones.
setAddress6(t) ==
  LET n     == Len(t.parts)
      parts == [i \in 1..n |-> IF i \in {1, n} /\ t.parts[i] = Blank THEN 0 ELSE t.parts[i]]
      empty == {i \in 1..n : parts[i] = Blank}
  IN IF \/ t.sep = "." \/ n \notin 3..8
        \/ \E i, j \in empty : i # j
        \/ \E i \in (1..n) \ empty : parts[i] \notin Word
        \/ empty = {} /\ n < 8
     THEN Rejected
     ELSE IF empty = {} THEN parts
     ELSE LET e == CHOOSE i \in empty : TRUE
          IN SubSeq(parts, 1, e - 1) \o [i \in 1..(9 - n) |-> 0] \o SubSeq(parts, e + 1, n)

\* setAddress(int, ..., int): only the first four words are checked.
setAddressWords(words) == IF \A i \in 1..4 : words[i] \in Word THEN words ELSE Rejected

setNetmask6(m) ==
  CASE m = <<Blank>>                  -> 0
    [] Len(m) = 1 /\ m[1] \in 0..128 -> m[1]
    [] OTHER                          -> NotAMask

Reads6(t) == /\ ~HalfEmpty(t) /\ setAddress6(t) # Rejected
             /\ t.mask = NoMask \/ setNetmask6(t.mask) # NotAMask

\* set(IPv4Param): 0xffff goes into the fifth word, the netmask is counted from 96.
Mapped(ip) ==
  [address |-> <<0, 0, 0, 0, 65535, 0, (ip.address[1] * 256) + ip.address[2],
                 (ip.address[3] * 256) + ip.address[4]>>,
   netmask |-> 96 + ip.netmask, containNetmask |-> TRUE]

\* set(string): what is not an IPv6 text is tried as an IPv4 one.
set6(ip, t) ==
  CASE Reads6(t) /\ t.mask # NoMask ->
         [address |-> setAddress6(t), netmask |-> setNetmask6(t.mask), containNetmask |-> TRUE]
    [] ~Reads6(t) /\ Reads4(t) -> Mapped(set4(NewIPv4, t))
    [] ~Reads4(t) /\ (HalfEmpty(t) \/ setAddress6(t) = Rejected) -> ip
    [] OTHER -> [ip EXCEPT !.address = setAddress6(t)]

\* The n leading bits of eight words, as checkNetworkAvailability counts them off.
leadingBits(words, n) ==
  [i \in 1..8 |-> IF n >= 16 * i THEN words[i]
                  ELSE IF n <= 16 * (i - 1) THEN 0
                  ELSE words[i] - (words[i] % 2^(16 * i - n))]

available6(ip, words) ==
  ip.containNetmask /\ leadingBits(words, ip.netmask) = leadingBits(ip.address, ip.netmask)

-----------------------------------------------------------------------------
(* IPxParam: one of the two, behind a pointer each.                         *)

IPx == [version : {"none", "v4", "v6"}, ipv4 : IPv4 \union {Null}, ipv6 : IPv6 \union {Null}]

ASSUME NullAssumption == Null \notin IPv4 \union IPv6

NewIPx == [version |-> "none", ipv4 |-> Null, ipv6 |-> Null]

Present(x) == x.version # "none" /\ (IF x.version = "v4" THEN x.ipv4 ELSE x.ipv6) # Null

\* operator=(string): both addresses are deleted before the text is read.
assign(x, t) ==
  CASE Reads4(t) -> [version |-> "v4", ipv4 |-> set4(NewIPv4, t), ipv6 |-> Null]
    [] ~Reads4(t) /\ Reads6(t) -> [version |-> "v6", ipv4 |-> Null, ipv6 |-> set6(NewIPv6, t)]
    [] OTHER -> [x EXCEPT !.ipv4 = Null, !.ipv6 = Null]

Readable(t) == Reads4(t) \/ Reads6(t)

\* setAddress(string): the address of the other version stays behind.
setAddressX(x, t) ==
  CASE Reads4(t) -> [x EXCEPT !.version = "v4", !.ipv4 = set4(NewIPv4, t)]
    [] ~Reads4(t) /\ Reads6(t) -> [x EXCEPT !.version = "v6", !.ipv6 = set6(NewIPv6, t)]
    [] OTHER -> x

\* set(XParam): the object replaces the address of the version there is now;
\* one of another version throws.
setObjectX(x, version, t) ==
  CASE version = x.version /\ version = "v4" -> [x EXCEPT !.ipv4 = set4(NewIPv4, t)]
    [] version = x.version /\ version = "v6" -> [x EXCEPT !.ipv6 = set6(NewIPv6, t)]
    [] OTHER                                 -> x

setNetmaskX(x, m) ==
  CASE x.version = "v4" /\ m <= 32  -> [x EXCEPT !.ipv4.netmask = m, !.ipv4.containNetmask = TRUE]
    [] x.version = "v6" /\ m <= 128 -> [x EXCEPT !.ipv6.netmask = m, !.ipv6.containNetmask = TRUE]
    [] OTHER -> x
=============================================================================
