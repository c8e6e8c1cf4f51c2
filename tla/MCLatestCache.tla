--------------------------- MODULE MCLatestCache ---------------------------
(***************************************************************************)
(* Small instances of LatestCache: the row of a busy block is its number.  *)
(***************************************************************************)
EXTENDS LatestCache

MCRow == 0..LastBlock

\* Every block has a row of its own, but for the multiples of four, which have
\* none: a batch may hold rows in any of its positions, and a single block may
\* advance the scan without a write.
MCRowsOf == [b \in 0..LastBlock |-> IF b % 4 = 0 THEN {} ELSE {b}]
============================================================================
