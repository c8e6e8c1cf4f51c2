-------------------------- MODULE MCProviderCache --------------------------
(***************************************************************************)
(* Small instances of ProviderCache: three calls of one request and one of *)
(* another.                                                                *)
(***************************************************************************)
EXTENDS ProviderCache, TLC

CONSTANTS c1, c2, c3, k1, k2

MCCaller == {c1, c2, c3}
MCKey == {k1, k2}
MCKeyOf == c1 :> k1 @@ c2 :> k1 @@ c3 :> k1
============================================================================
