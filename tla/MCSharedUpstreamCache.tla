----------------------- MODULE MCSharedUpstreamCache -----------------------
(***************************************************************************)
(* Small instances of SharedUpstreamCache for TLC: many threads in one     *)
(* process and one in another.                                             *)
(***************************************************************************)
EXTENDS SharedUpstreamCache
LOCAL INSTANCE TLC

CONSTANTS Inner,     \* the threads of process p1
          Outer      \* the thread of process p2

MCThreads == Inner \cup {Outer}
MCProc(t) == IF t = Outer THEN "p2" ELSE "p1"
Symmetry == Permutations(Inner)
============================================================================
