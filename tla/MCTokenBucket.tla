---------------------------- MODULE MCTokenBucket ----------------------------
(***************************************************************************)
(* TokenBucket for TLC.                                                    *)
(***************************************************************************)
EXTENDS TokenBucket, TLC

CONSTANTS p1, p2, b1, b2

TwoPumps   == {p1, p2}
OnePump    == {p1}
TwoBuckets == {b1, b2}
==============================================================================
