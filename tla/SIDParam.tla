----------------------------- MODULE SIDParam ------------------------------
(***************************************************************************)
(* pparam::SIDParam and its ConvertSID (src/sparam.cpp): a security        *)
(* identifier as text, S-1-authority-id-...-id, and as hexadecimal digits: *)
(* a version, two digits with the number of ids, the authority, and each   *)
(* id with its bytes in the opposite order.                                *)
(***************************************************************************)
EXTENDS Integers, SequencesExt

CONSTANT SubIDs           \* ids, as four bytes with the highest one first

ASSUME SubIDsAssumption == SubIDs \subseteq [1..4 -> 0..255]

SID == [authority : Nat, ids : Seq(SubIDs)]

\* Two hexadecimal digits, as decimalToHex writes them.
decimalToHex2(n) == <<(n \div 16) % 16, n % 16>>

\* atoi() on two hexadecimal digits: it stops at the first that is no decimal one.
atoi(digits) == CASE digits[1] > 9 -> 0
                  [] digits[1] <= 9 /\ digits[2] > 9 -> digits[1]
                  [] OTHER -> (digits[1] * 10) + digits[2]

toBigOrLittleEndian(bytes) == Reverse(bytes)

\* Mutant of strToHex: the ids are written as they are.
strToHexBigEndian(sid) ==
  [count |-> decimalToHex2(Len(sid.ids)), authority |-> sid.authority, ids |-> sid.ids]

strToHex(sid) ==
  [count |-> decimalToHex2(Len(sid.ids)), authority |-> sid.authority,
   ids   |-> [i \in DOMAIN sid.ids |-> toBigOrLittleEndian(sid.ids[i])]]

\* The number of ids is read as a decimal number.
hexToStr(hex) ==
  [authority |-> hex.authority,
   ids |-> [i \in 1..atoi(hex.count) |-> toBigOrLittleEndian(hex.ids[i])]]
=============================================================================
