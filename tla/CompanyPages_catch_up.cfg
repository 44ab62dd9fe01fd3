SPECIFICATION FairPagesSpec
CONSTANTS
  Sources = {"financials", "earnings"}
  Derived = {"earnings_models", "charts_dashboard"}
  Pages = {"financials", "earnings", "charts"}
  Strict = FALSE
  Listed = TRUE
  HasSegments = TRUE
  AuxIo = TRUE
  SixK = FALSE
  MaxVersion = 2
  MaxOthers = 1
  MaxFaults = 0
INVARIANTS PagesTypeOK
PROPERTIES PagesCatchUp ForcedJobsStop
