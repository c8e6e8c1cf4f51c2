-------------------------- MODULE MCHistoricCache --------------------------
(***************************************************************************)
(* Small instances of HistoricCache: three jobs, two of them in one group. *)
(***************************************************************************)
EXTENDS HistoricCache, TLC

CONSTANTS j1, j2, j3

MCJob == {j1, j2, j3}
MCGroupOf == j1 :> "transfer" @@ j2 :> "transfer" @@ j3 :> "deposit"
MCBlockOf == j1 :> 2 @@ j2 :> 3 @@ j3 :> 0
MCEventsOf == j1 :> {1, 2} @@ j2 :> {0, 3} @@ j3 :> {0}
============================================================================
