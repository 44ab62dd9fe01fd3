-------------------------- MODULE MCDatasetRefresh --------------------------
(***************************************************************************)
(* Small instances of DatasetRefresh for TLC.                              *)
(***************************************************************************)
EXTENDS DatasetRefresh
=============================================================================
