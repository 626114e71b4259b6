------------------------- MODULE MCFixedSlidingWindow --------------------------
(* Small instances of FixedSlidingWindow for TLC.                          *)
EXTENDS FixedSlidingWindow, TLC

(* Past a turned reclaim the properties of the run claim nothing.          *)
MCNotTurned == ~turned

MCSymmetry == Permutations(Thread)

===============================================================================
