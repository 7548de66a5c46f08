---------------------------- MODULE KeyboxUnwrap ----------------------------
(***************************************************************************)
(* keybox_unwrap of hwcrypto/keybox/keybox.c on sequences of bytes: the    *)
(* last byte is the XOR of the others, and the others are masked.  A byte  *)
(* is the set of the bits that are 1 in it, so that XOR is the symmetric   *)
(* difference and 0 is the empty set.                                      *)
(***************************************************************************)
EXTENDS Integers, Sequences, FiniteSets

Bit == 0..7
Byte == SUBSET Bit

\* The operator ^ on bytes.
Xor(a, b) == (a \ b) \cup (b \ a)

\* The masking byte, 0x42.
Mask == {1, 6}
Masked(b) == Xor(b, Mask)

\* A result without plaintext.
Failed(s) == [status |-> s, plaintext |-> <<>>]

\* The loop over the first n bytes: checksum ^= wrapped_keybox[i].
XorLoop(w, n) ==
    LET checksum[i \in 0..n] ==
            IF i = 0 THEN {} ELSE Xor(checksum[i - 1], w[i])
    IN  checksum[n]

\* Mutant: the loop stops one byte early.
Checksum_off_by_one(w) == XorLoop(w, IF Len(w) < 2 THEN 0 ELSE Len(w) - 2)

\* What the validation compares with the last byte: all bytes but that one.
Checksum(w) == XorLoop(w, Len(w) - 1)

\* keybox_unwrap with an output buffer of bufLen bytes.
keybox_unwrap(w, bufLen) ==
    IF Len(w) < 1 \/ bufLen < Len(w) - 1
    THEN Failed("INVALID_REQUEST")
    ELSE IF Checksum(w) # w[Len(w)]
    THEN Failed("UNWRAP_FAIL")
    ELSE [status |-> "SUCCESS",
          plaintext |-> [i \in 1..(Len(w) - 1) |-> Masked(w[i])]]

-----------------------------------------------------------------------------
(* The reference: what a producer of wrapped keyboxes computes, stated     *)
(* without a loop.                                                         *)

\* The bits that are 1 in an odd number of the bytes of s.
Parity(s) == {b \in Bit : Cardinality({k \in DOMAIN s : b \in s[k]}) % 2 = 1}

WrapReference(p) ==
    LET masked == [i \in DOMAIN p |-> Masked(p[i])]
    IN  Append(masked, Parity(masked))

\* The bytes w are the wrapping of some plaintext.
IsWrapping(w) ==
    w # <<>> /\ WrapReference([i \in 1..(Len(w) - 1) |-> Masked(w[i])]) = w

\* The bytes w are those of a wrapped keybox of which one was changed.
IsTampered(w) ==
    \E i \in DOMAIN w : \E b \in Byte \ {w[i]} : IsWrapping([w EXCEPT ![i] = b])
=============================================================================
