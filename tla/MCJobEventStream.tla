-------------------------- MODULE MCJobEventStream --------------------------
(***************************************************************************)
(* Small instances of JobEventStream for TLC.                              *)
(***************************************************************************)
EXTENDS JobEventStream
=============================================================================
