---------------------------- MODULE MCPositions ----------------------------
(***************************************************************************)
(* A small instance of Positions: two queries, the first with two adapters *)
(* on two chains.  The position in p comes with a wrapped token, which     *)
(* unwraps to x and leads back to p; r has a price of its own.             *)
(***************************************************************************)
EXTENDS Positions, TLC

CONSTANTS t1, t2, t3, q1, q2, a1, a2, c1, c2, p, r, w, x

MCTask == {t1, t2, t3}
MCQueryOf == t1 :> q1 @@ t2 :> q1 @@ t3 :> q2
MCAdapterOf == t1 :> a1 @@ t2 :> a2 @@ t3 :> a1
MCChainOf == a1 :> c1 @@ a2 :> c2
MCHeld == a1 :> {p} @@ a2 :> {r}
MCToken == {p, r, w, x}
MCGiven == [k \in MCToken |-> IF k = p THEN {w} ELSE {}]
MCClaimable == [k \in MCToken |-> {}]
MCWanted == q1 :> None @@ q2 :> {p}
MCAtBlock == {<<q1, c2>>}
MCUnderlying == w :> {p, x}
============================================================================
