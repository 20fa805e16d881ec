-------------------------- MODULE MCVideoDecimator --------------------------
(* The limiter at the rates a video has, one call at a time, and at one  *)
(* rate with every overlap of calls.                                       *)
EXTENDS VideoDecimator

UsualRates == {15, 25, 30}
UsualTargets == 0 .. 30
(* A jump from 13 to 19 of 20 in the middle of a call makes the overshoot  *)
(* negative; 3 of 20 drops frames in runs.                                 *)
RaceRates == {20}
RaceTargets == {3, 13, 19}
=============================================================================
