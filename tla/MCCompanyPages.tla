--------------------------- MODULE MCCompanyPages ---------------------------
(***************************************************************************)
(* Small instances of CompanyPages for TLC.                                *)
(***************************************************************************)
EXTENDS CompanyPages
=============================================================================
