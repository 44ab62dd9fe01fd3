SPECIFICATION Spec
CONSTANTS
  Sources = {"financials", "prices"}
  Derived = {"derived_metrics", "capital_structure"}
  Strict = FALSE
  Listed = TRUE
  HasSegments = TRUE
  AuxIo = TRUE
  SixK = FALSE
  MaxVersion = 2
  MaxOthers = 0
  MaxFaults = 0
INVARIANT CompletedIsCurrent
