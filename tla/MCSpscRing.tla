----------------------------- MODULE MCSpscRing -----------------------------
(* A small instance of SpscRing for TLC: usize has three bits, so that the *)
(* indices wrap around many times in a run.                                *)
EXTENDS SpscRing

CONSTANTS a, b

MCValues == {a, b}
MCModulus == 8
=============================================================================
