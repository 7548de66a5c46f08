------------------------------- MODULE MCHwKey ------------------------------
(***************************************************************************)
(* hwkey with the fake provider's tables, for TLC: the application that    *)
(* owns an opaque slot, the service that may redeem its handle (hwaes),    *)
(* the unit test, which owns two slots and may read one of them itself,    *)
(* and an application that is not on the list of clients.                  *)
(***************************************************************************)
EXTENDS HwKey, HwKeyFakeProvider

CONSTANTS c1, c2, t1, t2

Clients(U) == allowed_clients \cap U
Get(x) == [cmd |-> "GET_KEYSLOT", id |-> x]

\* Two sessions, every kind of slot, handles that can collide.
SafetyUuid == {"hwaes_unittest", "hwaes", "hwcrypto_unittest", "stranger"}
SafetyAllowed == Clients(SafetyUuid)
SafetyKeySlots == KeysOf(SafetyUuid)
SafetyRequests ==
    {Get("unittest.opaque_handle"), Get("unittest.opaque_handle_noaccess"),
     Get("unittest.key32"), Get("hwaes.unittest.opaque_handle"),
     Get(t1), Get(t2)}
=============================================================================
