----------------------------- MODULE MCIndexer -----------------------------
(***************************************************************************)
(* Small instances of Indexer: two jobs, or three of which two share their *)
(* watch key, with events before, at and after the block of deployment.    *)
(***************************************************************************)
EXTENDS Indexer, TLC

CONSTANTS j1, j2, j3, k1, k2

MCJob == {j1, j2, j3}
MCKeyOf == j1 :> k1 @@ j2 :> k2 @@ j3 :> k2
MCEventsOf == j1 :> {2, 5} @@ j2 :> {4} @@ j3 :> {}

TwoJobs == {j1, j2}
TwoKeys == j1 :> k1 @@ j2 :> k2
TwoEvents == j1 :> {2, 5} @@ j2 :> {4}
============================================================================
