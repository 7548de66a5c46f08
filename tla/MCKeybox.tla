------------------------------ MODULE MCKeybox ------------------------------
(***************************************************************************)
(* The hwcrypto application with its keybox service for TLC: wrapped       *)
(* keyboxes, the same with one byte changed, and requests whose length or  *)
(* header is wrong.  Sessions share nothing, so that one is enough.        *)
(***************************************************************************)
EXTENDS HwCryptoMain

CONSTANTS k1

Unwrap(n, b) == [cmd |-> "UNWRAP", header |-> TRUE, len |-> n, body |-> b]

\* The bytes 0, 1 and 255, as sets of bits.
x00 == {}
x01 == {0}
xFF == Bit

\* Keyboxes of up to two bytes, and what they are wrapped as.
Plaintexts == {<<>>, <<Mask>>, <<x00>>, <<xFF, Mask>>}
Wrapped == {WrapReference(p) : p \in Plaintexts}

\* A wrapped keybox with one byte changed.
Tampered == UNION {{[w EXCEPT ![i] = b] : i \in DOMAIN w, b \in {x00, x01, xFF}}
                       \ {w} : w \in Wrapped}

MCMessages ==
    {Unwrap(Len(w), w) : w \in Wrapped \cup Tampered}
    \cup {Unwrap(3, <<xFF, xFF>>), Unwrap(2, <<xFF, x00, xFF>>), Unwrap(0, <<>>),
          Unwrap(LenMod - HeaderSize, <<>>),
          [cmd |-> "UNWRAP", header |-> FALSE, len |-> 0, body |-> <<>>],
          [cmd |-> "OTHER"], [cmd |-> "SHORT"]}

\* A client that asks for one keybox and leaves.
HangUpMessages == {Unwrap(2, <<xFF, xFF>>)}
=============================================================================
