------------------------------- MODULE MCHwRng ------------------------------
(***************************************************************************)
(* hwrng for TLC, with a message size of two bytes: r1 never has more than *)
(* that outstanding, r2 asks for more, and for more than a size_t of four  *)
(* values can count.                                                       *)
(***************************************************************************)
EXTENDS HwRng

CONSTANTS r1, r2

MCWindow == [c \in Chan |-> IF c = r1 THEN 2 ELSE 5]
\* Nothing, less than a message, a message, and more.
MCLens == 0..3
=============================================================================
