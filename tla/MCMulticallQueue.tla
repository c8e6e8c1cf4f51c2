-------------------------- MODULE MCMulticallQueue --------------------------
(***************************************************************************)
(* Small instances of MulticallQueue: calls at the latest block and at an  *)
(* old one.                                                                *)
(***************************************************************************)
EXTENDS MulticallQueue, TLC

CONSTANTS c1, c2, c3, c4, c5, latest, old

MCCall == {c1, c2, c3, c4, c5}
MCTag == {latest, old}
MCTagOf == c1 :> latest @@ c2 :> latest @@ c3 :> latest @@ c4 :> old @@ c5 :> old
============================================================================
