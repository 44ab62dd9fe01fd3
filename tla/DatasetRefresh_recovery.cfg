SPECIFICATION FairSpec
CONSTANTS
  Sources = {"financials", "prices", "filings"}
  Derived = {"company_research_brief", "charts_dashboard"}
  Strict = FALSE
  Listed = TRUE
  HasSegments = TRUE
  AuxIo = TRUE
  SixK = FALSE
  MaxVersion = 2
  MaxOthers = 1
  MaxFaults = 1
INVARIANTS TypeOK RowsMatchHash HashIsHonest GapsAreHonest
PROPERTY Converges
