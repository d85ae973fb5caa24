CONSTANTS
  Blank = Blank
  Letters = Letters
  Null = Null
  Bang = Bang
  Colon = Colon
  Other = Other
  SubIDs <- MCSubIDs
  Clocks <- MCClocks
  Minutes <- MCMinutes
  LastYear <- MCLastYear
  Times <- MCTimes
  Dates <- MCDates
  Texts <- MCTexts
  AddressTexts <- MCAddressTexts
  Netmasks <- MCNetmasks
  WordLists <- MCWordLists
  Chars = {Bang, Colon, Other, 3, 5, 6}
  MaxChars = 6
  MaxIDs = 10
SPECIFICATION Spec
INVARIANTS TypeOK DifferencesExact MaskReadsBack AddressReadsBack PortDenotes SIDReadsBack
PROPERTIES ClockExact RangeVersions
CHECK_DEADLOCK FALSE
