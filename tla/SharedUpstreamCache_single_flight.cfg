SPECIFICATION Spec
CONSTANTS
  Inner = {t1, t2}
  Outer = u1
  Procs = {"p1", "p2"}
  Threads <- MCThreads
  Proc <- MCProc
  Keys = {"chart"}
  Index = "index"
  Sizes = {2, 3}
  IndexSize = 1
  MaxEntries = 2
  MaxBytes = 2
  NoOne = NoOne
  Leaked = Leaked
  MaxFaults = 1
  MaxOverruns = 1
SYMMETRY Symmetry
INVARIANTS TypeOK WithinLimits FetchesBounded
