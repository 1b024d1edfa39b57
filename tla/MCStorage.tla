------------------------------ MODULE MCStorage ------------------------------
(***************************************************************************)
(* A ring of four blocks that two sessions fill, as it is found at a       *)
(* start, for TLC.                                                         *)
(***************************************************************************)
EXTENDS LargeCircularSessionsStorage

CONSTANTS w, r1   \* model values, the writing and a reading thread

FullRing == {<<1,1,2,2>>}
=============================================================================
