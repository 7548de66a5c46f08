------------------------------- MODULE MCHwAes ------------------------------
(***************************************************************************)
(* hwaes and hwkey for TLC: handles that race with their owner's session   *)
(* among requests of every kind, and, without any session, every           *)
(* combination of arguments.                                               *)
(***************************************************************************)
EXTENDS HwAes, HwKeyFakeProvider

CONSTANTS c1, c2, t1

Get(x) == [cmd |-> "GET_KEYSLOT", id |-> x]

MCUuid == {"hwaes_unittest", "hwaes"}
MCAllowed == allowed_clients \cap MCUuid
MCKeySlots == KeysOf(MCUuid)
\* get_unittest_key32_opaque gives 32 bytes.
MCKeyLen == [s \in 1..Len(MCKeySlots) |-> 32]
MCRequests ==
    {Get("hwaes.unittest.opaque_handle"), Get(t1),
     [cmd |-> "DERIVE", kdf |-> 0, ikm |-> 1],
     [cmd |-> "OTHER"], [cmd |-> "SHORT"]}

\* A decryption with the key behind t1.
Decrypt == [padding |-> "NO_PADDING", mode |-> "CBC", encrypt |-> FALSE,
            key_type |-> "OPAQUE_HANDLE", key |-> 32, handle |-> t1,
            too_long |-> FALSE, terminated |-> TRUE, text_in |-> 32,
            text_out |-> 32, iv |-> 16, aad |-> 0, tag_in |-> 0,
            tag_out |-> 0, authentic |-> FALSE]

\* With a handle; with another's slot name for one; without termination.
HandleOps == {Decrypt,
              [Decrypt EXCEPT !.handle = "hwaes.unittest.opaque_handle"],
              [Decrypt EXCEPT !.terminated = FALSE]}

\* Every combination of lengths around the limits, with a key in the clear.
AllOps == [padding : {"NO_PADDING", "OTHER"}, mode : {"CBC", "GCM", "OTHER"},
           encrypt : BOOLEAN, key_type : {"PLAINTEXT"},
           key : {0, 16, 17, 32}, handle : {t1}, too_long : {FALSE},
           terminated : {TRUE}, text_in : {0, 15, 16, 32},
           text_out : {0, 15, 16}, iv : {0, 12, 16}, aad : {0, 1},
           tag_in : {0, 16}, tag_out : {0, 16}, authentic : BOOLEAN]
=============================================================================
