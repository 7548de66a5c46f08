---------------------------- MODULE MCHwKeyToken ----------------------------
(***************************************************************************)
(* Access tokens for TLC: three-byte handles and three byte values, so     *)
(* that all draws and all requests can be enumerated.  The fake source's   *)
(* counter then passes zero up to twice in the bytes of one draw, as often *)
(* as it may for a token to be filled at once.                             *)
(***************************************************************************)
EXTENDS HwKeyToken

CONSTANTS s1, s2

SmallPayloads == UNION {[1..n -> Byte] : n \in 0..MaxPayload}

\* The clients of hwrng move the counter to any position.
OneByte == {1}
=============================================================================
