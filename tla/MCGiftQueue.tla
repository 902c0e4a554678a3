------------------------------ MODULE MCGiftQueue -----------------------------
(* GiftQueue for TLC: two special gifts and three ordinary ones, with two  *)
(* weights.                                                                *)
EXTENDS GiftQueue

CONSTANTS b1, b2, s1, s2, s3
MCWeight == [g \in Gift |-> IF g \in {b1, s1, s3} THEN 1 ELSE 2]
=============================================================================
