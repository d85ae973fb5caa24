SPECIFICATION Spec
CONSTANTS
  Threads = {t1}
  Savers = {t1}
  Requests <- MCRequests
  MaxClock = 3
  Texts = {1, 2, 3, 4}
INVARIANTS TypeOK EngineClean DocumentKept
PROPERTIES AllOrNothing SaveReadsBack
