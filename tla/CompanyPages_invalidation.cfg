SPECIFICATION PagesSpec
CONSTANTS
  Sources = {"financials", "prices"}
  Derived = {}
  Pages = {"financials"}
  Strict = FALSE
  Listed = TRUE
  HasSegments = TRUE
  AuxIo = TRUE
  SixK = FALSE
  MaxVersion = 2
  MaxOthers = 1
  MaxFaults = 0
INVARIANT CommitInvalidates
