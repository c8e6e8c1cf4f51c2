--------------------------- MODULE MCFetchEvents ---------------------------
(***************************************************************************)
(* Small instances of FetchEvents: every range inside 0..MaxBlock.         *)
(***************************************************************************)
EXTENDS FetchEvents
============================================================================
