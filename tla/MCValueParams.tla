--------------------------- MODULE MCValueParams ---------------------------
(* The instances of ValueParams that are checked.                            *)
EXTENDS ValueParams

D(y, m, d) == [year |-> y, month |-> m, day |-> d]
T(h, m, s) == [hour |-> h, minute |-> m, second |-> s]

\* Before the end of February of a leap year and of another one, before the
\* end of a year, and around a February 29th that addMinute() skips.
MCClocks == {[date |-> D(2023, 12, 30), time |-> T(23, 50, 0)],
             [date |-> D(2024, 2, 27), time |-> T(0, 0, 59)],
             [date |-> D(2023, 2, 27), time |-> T(23, 59, 1)],
             [date |-> D(2000, 2, 27), time |-> T(23, 10, 0)], [date |-> D(2000, 2, 29), time |-> T(12, 0, 0)]}
MCMinutes == {90, 1440, 40 * 1440}
MCLastYear == 2025
MCTimes == {T(0, 0, 0), T(23, 59, 59), T(0, 9, 1), T(12, 0, 30)}
MCDates == {D(2023, 12, 31), D(2024, 2, 29), D(2024, 3, 1), D(2024, 12, 31), D(2025, 7, 4), D(2000, 1, 1)}

Dotted(p, m) == [sep |-> ".", parts |-> p, mask |-> m]
Colons(p, m) == [sep |-> ":", parts |-> p, mask |-> m]

\* 10.1.2.255, 167772160, the empty text, a byte too large, too few parts,
\* letters, "::1", "1:2" and two blank parts in one address.
Unmasked == {Dotted(<<10, 1, 2, 255>>, NoMask), Dotted(<<167772160>>, NoMask), Dotted(<<Blank>>, NoMask),
             Dotted(<<10, 1, 2, 256>>, NoMask), Dotted(<<10, 1, 2>>, NoMask), Dotted(<<Letters>>, NoMask),
             Colons(<<Blank, Blank, 1>>, NoMask), Colons(<<1, 2>>, NoMask),
             Colons(<<1, Blank, 2, Blank, 3>>, NoMask)}

\* 255.0.0.1/0 and "::1/64".
Masked == {Dotted(<<255, 0, 0, 1>>, <<0>>), Colons(<<Blank, Blank, 1>>, <<64>>)}

MCAddressTexts == Unmasked \union Masked

\* 255.0.0.1/255.255.0.0, 167772160/-256, a mask with a hole, no mask behind
\* the slash and "1::2:3/200".
MCTexts == MCAddressTexts \union
  {Dotted(<<255, 0, 0, 1>>, <<255, 255, 0, 0>>), Dotted(<<167772160>>, <<-256>>),
   Dotted(<<10, 1, 2, 255>>, <<255, 0, 255, 0>>), Dotted(<<10, 1, 2, 255>>, <<Blank>>),
   Colons(<<1, Blank, 2, 3>>, <<200>>)}

MCNetmasks == {<<n>> : n \in 0..33} \union {<<Blank>>, <<-1>>, <<Letters>>, <<256, 0, 0, 0>>, <<255, 255>>}
              \union {<<a, b, c, d>> : a, b, c, d \in {0, 128, 255}}

MCWordLists == [1..8 -> {0, 1}] \union {<<65536, 0, 0, 0, 0, 0, 0, 0>>}

MCSubIDs == {<<0, 0, 0, 21>>, <<215, 253, 239, 87>>}
=============================================================================
