----------------------------- MODULE HwKeyToken -----------------------------
(***************************************************************************)
(* Access tokens of hwkey_srv.c, byte by byte: how get_key_handle makes    *)
(* one from random bytes, what hwkey_chan_handle_msg leaves in the global  *)
(* req_data, and how get_opaque_key compares a request with the tokens.    *)
(* HwKey treats tokens as values; this module shows that the comparison    *)
(* may be read that way, and what the random source must provide for it.   *)
(*                                                                         *)
(* The service is one thread, so while get_key_handle draws again nothing  *)
(* else happens.  Its loops are taken step by step: a draw, a byte, the    *)
(* end of a round.                                                         *)
(***************************************************************************)
EXTENDS Integers, Sequences

CONSTANTS
    Slot,        \* opaque key slots
    HandleSize,  \* HWKEY_OPAQUE_HANDLE_SIZE
    MaxPayload,  \* HWKEY_MAX_PAYLOAD_SIZE
    ByteMod,     \* 256: how many values a byte has
    Payloads,    \* what the clients send, sequences of bytes
    RngRequests  \* how many bytes the clients of hwrng draw at a time

Byte == 0..(ByteMod - 1)

ASSUME SizeAssumption ==
    /\ HandleSize \in Nat \ {0} /\ MaxPayload \in Nat
    /\ HandleSize <= MaxPayload /\ ByteMod \in Nat \ {0}
ASSUME PayloadsAssumption ==
    /\ \A p \in Payloads : p \in Seq(Byte) /\ Len(p) <= MaxPayload
    /\ RngRequests \subseteq Nat

\* get_key_handle draws two bytes more than a handle has.
RandomSize == HandleSize + 2

VARIABLES
    source,    \* of random bytes: the "fake" one of this repository or "any"
    counter,   \* of the fake source, modulo the number of byte values
    token,     \* of the slots in opaque_handles
    filling,   \* the slots for which get_key_handle is in its loop
    at,        \* there: at "draw", or in the inner loop, at "copy"
    i,         \* of the inner loop, counted from 0
    token_offset,
    req_data,  \* the request buffer, with room for a terminator
    found      \* by the last request: <<payload, the slots get_opaque_key found
               \* for it>>, or <<>>

loop == <<at, i, token_offset>>
vars == <<source, counter, token, filling, loop, req_data, found>>

Zeros(n) == [k \in 1..n |-> 0]

Init ==
    /\ source \in {"fake", "any"}
    /\ counter = 1 % ByteMod
    /\ token = [s \in {} |-> <<>>]
    /\ filling = {} /\ at = "draw" /\ i = 0 /\ token_offset = 0
    /\ req_data = Zeros(MaxPayload + 1)
    /\ found = <<>>

-----------------------------------------------------------------------------

\* hwrng_dev_get_rng_data for n bytes.  The fake one counts; any other source
\* fails or answers anything.
Draw(n) == counter' = IF source = "fake" THEN (counter + n) % ByteMod ELSE counter
MayFail == source # "fake"

\* What random_buf[i] may be after a draw.  Each byte is looked at once, so
\* one that may be anything is chosen then.
random_buf == IF source = "fake" THEN {(counter - RandomSize + i) % ByteMod}
                                 ELSE Byte

\* s with p written over its beginning.
Overwrite(s, p) == [k \in DOMAIN s |-> IF k <= Len(p) THEN p[k] ELSE s[k]]

\* is_empty_token, and with it the early return of get_key_handle: a slot
\* with a token gets no other.
GetKeyHandle(s) ==
    /\ filling = {} /\ s \notin DOMAIN token
    /\ token' = [x \in DOMAIN token \cup {s} |->
                    IF x = s THEN Zeros(HandleSize) ELSE token[x]]
    /\ filling' = {s}
    /\ found' = <<>>
    /\ UNCHANGED <<counter, loop, req_data>>

\* The slots without the entry of s.
Without(s) == [x \in DOMAIN token \ {s} |-> token[x]]

\* The top of the outer loop.
GetKeyHandleDraws(s) ==
    /\ s \in filling /\ at = "draw"
    /\ Draw(RandomSize)
    /\ \/ /\ MayFail
          /\ token' = Without(s) /\ filling' = {}
          /\ UNCHANGED loop
       \/ /\ at' = "copy" /\ i' = 0 /\ token_offset' = 0
          /\ UNCHANGED <<token, filling>>
    /\ UNCHANGED <<req_data, found>>

\* Mutant: the loop fills the byte of the terminator too.
MoreToCopy_off_by_one == i < RandomSize /\ token_offset < HandleSize

\* The condition of the inner loop.
MoreToCopy == i < RandomSize /\ token_offset < HandleSize - 1

\* The body of the inner loop.
GetKeyHandleCopies(s) ==
    /\ s \in filling /\ at = "copy" /\ MoreToCopy
    /\ \E b \in random_buf :
          \/ b = 0 /\ UNCHANGED <<token, token_offset>>
          \/ /\ b # 0
             /\ token' = [token EXCEPT ![s][token_offset + 1] = b]
             /\ token_offset' = token_offset + 1
    /\ i' = i + 1
    /\ UNCHANGED <<counter, filling, at, req_data, found>>

\* Mutant: waits for one byte more than the inner loop ever writes.
Filled_off_by_one == token_offset = HandleSize

\* When the outer loop ends.
Filled == token_offset = HandleSize - 1

\* After the inner loop: get_key_handle returns, or draws again.
GetKeyHandleRoundEnds(s) ==
    /\ s \in filling /\ at = "copy" /\ ~MoreToCopy
    /\ filling' = IF Filled THEN {} ELSE filling
    /\ at' = "draw" /\ i' = 0 /\ token_offset' = 0
    /\ UNCHANGED <<counter, token, req_data, found>>

\* Mutant: the request is not terminated.
Receive_unterminated(p) == Overwrite(req_data, p)

\* tipc_recv_hdr_payload into req_data, and the forced terminator.
Receive(p) == [Overwrite(req_data, p) EXCEPT ![Len(p) + 1] = 0]

\* A GET_KEYSLOT request that names no slot: get_opaque_key compares
\* HandleSize bytes of the buffer, whatever the length of the request.
GetOpaqueKey(p) ==
    /\ filling = {}
    /\ req_data' = Receive(p)
    /\ found' = <<p, {s \in DOMAIN token :
                         \A k \in 1..HandleSize : token[s][k] = req_data'[k]}>>
    /\ UNCHANGED <<counter, token, filling, loop>>

\* A DERIVE request: its payload is not terminated, and wiped afterwards.
Derive(p) ==
    /\ filling = {}
    /\ req_data' = Overwrite(req_data, Zeros(Len(p)))
    /\ found' = <<>>
    /\ UNCHANGED <<counter, token, filling, loop>>

\* A command that is not known: its payload stays as it came.
Unsupported(p) ==
    /\ filling = {}
    /\ req_data' = Overwrite(req_data, p)
    /\ found' = <<>>
    /\ UNCHANGED <<counter, token, filling, loop>>

\* The session that owns the handle is closed.
Close(s) ==
    /\ filling = {} /\ s \in DOMAIN token
    /\ token' = Without(s)
    /\ found' = <<>>
    /\ UNCHANGED <<counter, filling, loop, req_data>>

\* The hwrng service, in the same process, draws from the same source.
HwrngRequest(n) ==
    /\ filling = {}
    /\ Draw(n)
    /\ UNCHANGED <<token, filling, loop, req_data, found>>

GetKeyHandleStep(s) ==
    \/ GetKeyHandleDraws(s) \/ GetKeyHandleCopies(s) \/ GetKeyHandleRoundEnds(s)

Next ==
    /\ UNCHANGED source
    /\ \/ \E s \in Slot : GetKeyHandle(s) \/ GetKeyHandleStep(s) \/ Close(s)
       \/ \E p \in Payloads : GetOpaqueKey(p) \/ Derive(p) \/ Unsupported(p)
       \/ \E n \in RngRequests : HwrngRequest(n)

Spec == Init /\ [][Next]_vars

\* get_key_handle goes on until it returns.
FairSpec == Spec /\ \A s \in Slot : WF_vars(GetKeyHandleStep(s) /\ UNCHANGED source)

-----------------------------------------------------------------------------
(* Properties.                                                             *)

\* "a null-terminated opaque handle with no interior null bytes": what
\* is_empty_token, get_key_handle and get_opaque_key assert about each token
\* in the list, after any number of rounds that fell short.
TokensAreStrings ==
    \A s \in DOMAIN token \ filling : \A k \in 1..HandleSize :
        token[s][k] = 0 <=> k = HandleSize

\* The text that p holds, up to its first zero or to its end, has n bytes.
TextLength(p, n) == /\ \A k \in 1..n : p[k] # 0
                    /\ n < Len(p) => p[n + 1] = 0

SameText(p, q) ==
    \E n \in 0..Len(p) :
        /\ n <= Len(q) /\ TextLength(p, n) /\ TextLength(q, n)
        /\ \A k \in 1..n : p[k] = q[k]

\* A request finds exactly the handles whose text it carries.  The comparison
\* reads HandleSize bytes of a buffer that may still hold the end of another
\* client's longer request, a token included: those bytes never decide, and
\* a valid handle is found with or without its terminator.
HandlesFoundByText ==
    found # <<>> =>
        \A s \in DOMAIN token :
            s \in found[2] <=> SameText(token[s], found[1])

\* With the fake source get_key_handle returns, wherever its counter stands
\* and so wherever the zero bytes fall; until then no client of any of the
\* three services is served.
HandleRequestsEnd == (source = "fake" /\ filling # {}) ~> (filling = {})
=============================================================================
