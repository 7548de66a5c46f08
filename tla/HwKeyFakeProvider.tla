------------------------- MODULE HwKeyFakeProvider -------------------------
(***************************************************************************)
(* The tables of hwcrypto/hwkey_srv_fake_provider.c, in the build with     *)
(* WITH_HWCRYPTO_UNITTEST and with apploader signing and encryption keys.  *)
(* Identities are named after the variables that hold them.                *)
(***************************************************************************)
EXTENDS Sequences

\* allowed_clients[], which hwkey_client_allowed searches.
allowed_clients ==
    {"ss", "km", "hwaes", "gatekeeper", "apploader", "hwcrypto_unittest",
     "hwaes_unittest", "hwbcc", "hwbcc_unittest"}

\* A slot whose handler copies, decrypts or derives the key itself.
Direct(u, id, errs) ==
    [key_id |-> id, uuid |-> u, handler |-> "direct", allowed |-> {},
     errors |-> errs]

\* A slot whose handler is get_key_handle: readers are the allowed_uuids of
\* its hwkey_opaque_handle_data, errs what its retriever can return.
Opaque(u, id, readers, errs) ==
    [key_id |-> id, uuid |-> u, handler |-> "get_key_handle",
     allowed |-> readers, errors |-> errs]

\* get_unittest_key32 and get_apploader_key only copy: they cannot fail.
CopyErrors == {}
\* get_rpmb_ss_auth_key: any EVP call may fail.
RpmbErrors == {"GENERIC"}
\* get_km_kak_key through derive_key_v1; key_data is never too short for it.
KakErrors == {"GENERIC"}
\* get_apploader_sign_unlocked_key while app loading is locked.
UnlockedErrors == {"NOT_FOUND"}
\* hwkey_get_derived_key: any EVP call may fail; the encrypted keys have an IV
\* and a ciphertext that fits key_data.
DerivedErrors == {"GENERIC"}

\* _keys[], in its order.
keys == <<
    Direct("ss", "storage_auth.rpmb", RpmbErrors),
    Direct("km", "keymint.kak", KakErrors),
    Direct("apploader", "apploader.sign.key.0", CopyErrors),
    Direct("apploader", "apploader.sign.key.1", UnlockedErrors),
    Opaque("apploader", "apploader.encrypt.key.0", {"hwaes"}, CopyErrors),
    Opaque("apploader", "apploader.encrypt.key.1", {"hwaes"}, CopyErrors),
    Direct("hwcrypto_unittest", "unittest.key32", CopyErrors),
    Direct("hwcrypto_unittest", "unittest.derived_key32", DerivedErrors),
    Opaque("hwcrypto_unittest", "unittest.opaque_handle",
           {"hwcrypto_unittest"}, CopyErrors),
    Opaque("hwcrypto_unittest", "unittest.opaque_handle2",
           {"hwcrypto_unittest"}, CopyErrors),
    Opaque("hwcrypto_unittest", "unittest.opaque_handle_noaccess",
           {}, CopyErrors),
    Opaque("hwcrypto_unittest", "unittest.opaque_derived",
           {"hwcrypto_unittest"}, DerivedErrors),
    Opaque("hwaes_unittest", "hwaes.unittest.opaque_handle",
           {"hwaes"}, CopyErrors)
>>

\* The part of the table that belongs to the applications U.
KeysOf(U) == SelectSeq(keys, LAMBDA k : k.uuid \in U)
=============================================================================
