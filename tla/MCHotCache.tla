----------------------------- MODULE MCHotCache -----------------------------
(***************************************************************************)
(* Small instances of HotCache for TLC: two requests of one process and    *)
(* one of another, and a process (the refresh worker) that serves none.    *)
(***************************************************************************)
EXTENDS HotCache, TLC

CONSTANTS a1, a2, b1,      \* requests
          a, b, w          \* processes

MCRequests == {a1, a2, b1}
MCProcs == {a, b, w}
MCServers == {a, b}
MCProcOf == (a1 :> a) @@ (a2 :> a) @@ (b1 :> b)
Twins == Permutations({a1, a2})
=============================================================================
