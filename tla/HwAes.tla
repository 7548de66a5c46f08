------------------------------- MODULE HwAes --------------------------------
(***************************************************************************)
(* hwaes (hwaes/main.c) as a client of hwkey.  hwaes_aes_op checks its     *)
(* arguments, fetches the key behind an opaque handle over a session of    *)
(* its own that it opens and closes, and then runs the cipher.  hwaes is a *)
(* process of its own: while it waits for hwkey, hwkey serves others, and  *)
(* the application that owns the handle may hang up.                       *)
(*                                                                         *)
(* What an operation computes is left to the cipher; the model keeps which *)
(* key it is run with, and which operations are accepted.                  *)
(***************************************************************************)
EXTENDS HwKey

CONSTANTS
    HwAesUuid,  \* SAMPLE_HWAES_APP_UUID
    NoChan,     \* no session
    KeyLen,     \* the number of key bytes of each slot
    Operations  \* the arguments the clients of hwaes pass

\* struct hwaes_aes_op_args.  Lengths are in bytes, and an argument that is
\* missing has length 0.  An opaque key is the text of a handle, which may
\* be too long or not terminated.  authentic: tag_in is the tag of the text.
Operation ==
    [padding : {"NO_PADDING", "OTHER"}, mode : {"CBC", "GCM", "OTHER"},
     encrypt : BOOLEAN, key_type : {"PLAINTEXT", "OPAQUE_HANDLE"},
     key : Nat, handle : STRING \cup Token,
     too_long : BOOLEAN, terminated : BOOLEAN,
     text_in : Nat, text_out : Nat, iv : Nat, aad : Nat,
     tag_in : Nat, tag_out : Nat, authentic : BOOLEAN]

ASSUME OperationsAssumption == Operations \subseteq Operation
ASSUME KeyLenAssumption == KeyLen \in [Slot -> Nat]
ASSUME NoChanAssumption == NoChan \notin Chan
\* hwaes owns no slot in the provider's table, so what it sends is a handle.
ASSUME HwAesAssumption ==
    HwAesUuid \in Uuid /\ \A s \in Slot : KeySlots[s].uuid # HwAesUuid
ASSUME HandlesAssumption ==
    \A a \in Operations :
        [cmd |-> "GET_KEYSLOT", id |-> a.handle] \in Requests

\* There is no operation in progress.
NoArgs == [key_type |-> "NONE"]

VARIABLES
    phase,  \* of hwaes_aes_op: idle, opening, asking, closing or done
    args,   \* its arguments
    chan,   \* session
    ret,    \* what hwkey_get_keyslot_data returned, with the key
    rc,     \* the result of the operation
    used,   \* the key it was run with
    named,  \* the slots whose token was the handle at some time during the
            \* operation (history)
    missed  \* at some time during the operation the handle named no slot
            \* that hwaes may read (history)

history == <<named, missed>>
aesVars == <<phase, args, chan, ret, rc, used, named, missed>>
allVars == <<vars, aesVars>>

NoReply == [status |-> "GENERIC", data |-> NoData]

AesInit ==
    /\ phase = "idle" /\ args = NoArgs /\ chan = NoChan
    /\ ret = NoReply /\ rc = "NONE" /\ used = NoData
    /\ named = {} /\ missed = FALSE

-----------------------------------------------------------------------------
(* The decisions of hwaes_aes_op.                                          *)

\* hwaes_check_arg_in and hwaes_check_arg_out.
Present(len) == len # 0

\* The checks made before the key is looked at.
CheckArgs(a) ==
    IF a.padding # "NO_PADDING"
    THEN "NOT_IMPLEMENTED"
    ELSE IF \/ ~Present(a.key) \/ ~Present(a.text_in) \/ ~Present(a.text_out)
            \/ a.text_in # a.text_out
    THEN "INVALID_ARGS"
    ELSE "NO_ERROR"

\* The checks of an opaque handle, before hwkey is asked.
CheckHandle(a) ==
    IF a.too_long \/ ~a.terminated THEN "INVALID_ARGS" ELSE "NO_ERROR"

\* Mutant: the tags are not told apart by direction.
CheckMode_any_tag(a, len) ==
    IF a.mode \notin {"CBC", "GCM"}
    THEN "NOT_IMPLEMENTED"
    ELSE IF \/ len \notin {16, 32}
            \/ a.mode = "CBC" /\ (Present(a.aad) \/ Present(a.tag_in)
                                                 \/ Present(a.tag_out))
            \/ a.mode = "GCM" /\ ~Present(a.tag_in) /\ ~Present(a.tag_out)
    THEN "INVALID_ARGS"
    ELSE "NO_ERROR"

\* The checks that depend on the mode, with a key of len bytes.
CheckMode(a, len) ==
    IF a.mode \notin {"CBC", "GCM"}
    THEN "NOT_IMPLEMENTED"
    ELSE IF \/ len \notin {16, 32}
            \/ a.mode = "CBC" /\ (Present(a.aad) \/ Present(a.tag_in)
                                                 \/ Present(a.tag_out))
            \/ a.mode = "GCM" /\ a.encrypt
                  /\ (Present(a.tag_in) \/ ~Present(a.tag_out))
            \/ a.mode = "GCM" /\ ~a.encrypt
                  /\ (~Present(a.tag_in) \/ Present(a.tag_out))
    THEN "INVALID_ARGS"
    ELSE "NO_ERROR"

\* BoringSSL's ciphers, as far as the checks depend on them.
BlockSize(mode) == IF mode = "CBC" THEN 16 ELSE 1
IvLength(mode) == IF mode = "CBC" THEN 16 ELSE 12

\* Cipher context set up, text processed and tag checked or produced.  Any
\* EVP call may fail; EVP_CipherFinal_ex does for a tag that is not right.
RunCipher(a) ==
    {"GENERIC"} \cup
        (IF a.text_in % BlockSize(a.mode) # 0 \/ a.iv # IvLength(a.mode)
         THEN {"INVALID_ARGS"}
         ELSE IF Present(a.tag_in) /\ ~a.authentic THEN {} ELSE {"NO_ERROR"})

\* hwaes_aes_op from the point where it has a key of len bytes.
Crypt(a, len) ==
    IF CheckMode(a, len) # "NO_ERROR" THEN {CheckMode(a, len)}
                                      ELSE RunCipher(a)

-----------------------------------------------------------------------------
(* The steps of hwaes_aes_op between which other processes run.            *)

\* The slots that the text x stands for in the list h.
SlotsNamed(h, x) == {h[i].slot : i \in {j \in DOMAIN h : h[j].token = x}}

\* Among them are none that hwaes may read.
NamesNone(h, x) ==
    \A s \in SlotsNamed(h, x) : HwAesUuid \notin KeySlots[s].allowed

\* hwaes_aes_op returns r, having used the key d.
Finish(r, d) == phase' = "done" /\ rc' = r /\ used' = d

\* A call that fails its checks, that brings its own key, or for which
\* hwkey_open fails at once.
OpWithoutSession(a) ==
    /\ phase = "idle"
    /\ args' = a
    /\ \/ CheckArgs(a) # "NO_ERROR" /\ Finish(CheckArgs(a), NoData)
       \/ /\ CheckArgs(a) = "NO_ERROR" /\ a.key_type = "PLAINTEXT"
          /\ \E r \in Crypt(a, a.key) : Finish(r, NoData)
       \/ /\ CheckArgs(a) = "NO_ERROR" /\ a.key_type = "OPAQUE_HANDLE"
          /\ \/ CheckHandle(a) # "NO_ERROR" /\ Finish(CheckHandle(a), NoData)
             \/ CheckHandle(a) = "NO_ERROR" /\ Finish("GENERIC", NoData)
    /\ UNCHANGED <<vars, chan, ret, history>>

\* hwkey_open, which blocks until hwkey has accepted.
OpOpensSession(a, c) ==
    /\ phase = "idle" /\ CheckArgs(a) = "NO_ERROR"
    /\ a.key_type = "OPAQUE_HANDLE" /\ CheckHandle(a) = "NO_ERROR"
    /\ ClientConnect(c, HwAesUuid)
    /\ phase' = "opening" /\ args' = a /\ chan' = c
    /\ named' = SlotsNamed(opaque_handles, a.handle)
    /\ missed' = NamesNone(opaque_handles, a.handle)
    /\ UNCHANGED <<ret, rc, used>>

\* hwkey_open succeeds and hwkey_get_keyslot_data sends the handle.
OpAsks ==
    /\ phase = "opening"
    /\ ClientSend(chan, [cmd |-> "GET_KEYSLOT", id |-> args.handle])
    /\ phase' = "asking"
    /\ UNCHANGED <<args, chan, ret, rc, used, history>>

\* hwkey closed the channel instead: before it accepted, which is an error of
\* hwkey_open, or after, which is one of the request.
OpRefused ==
    /\ phase = "opening" /\ st[chan] = "closed"
    /\ ClientClose(chan)
    /\ \E r \in {"GENERIC", "IO"} : Finish(r, NoData)
    /\ chan' = NoChan
    /\ UNCHANGED <<args, ret, history>>

\* hwkey_get_keyslot_data gets its reply, or finds the channel closed.
OpGetsReply ==
    /\ phase = "asking"
    /\ \/ ClientRecv(chan) /\ ret' = Head(outq[chan])
       \/ /\ st[chan] = "closed" /\ outq[chan] = <<>>
          /\ ret' = NoReply
          /\ UNCHANGED vars
    /\ phase' = "closing"
    /\ UNCHANGED <<args, chan, rc, used, history>>

\* Mutant: the session is only closed when there is a key.
OpCloses_on_success(a) ==
    /\ phase = "closing"
    /\ IF ret.status = "NO_ERROR"
       THEN /\ ClientClose(chan)
            /\ \E r \in Crypt(a, KeyLen[ret.data.slot]) : Finish(r, ret.data)
       ELSE UNCHANGED vars /\ Finish("IO", NoData)
    /\ chan' = NoChan
    /\ UNCHANGED <<args, ret, history>>

\* hwkey_close, whatever the reply was, and the rest of the operation.
OpCloses(a) ==
    /\ phase = "closing"
    /\ ClientClose(chan)
    /\ IF ret.status = "NO_ERROR"
       THEN \E r \in Crypt(a, KeyLen[ret.data.slot]) : Finish(r, ret.data)
       ELSE Finish("IO", NoData)
    /\ chan' = NoChan
    /\ UNCHANGED <<args, ret, history>>

\* The server library sends the result and takes the next request.
OpReturns ==
    /\ phase = "done"
    /\ phase' = "idle" /\ args' = NoArgs /\ ret' = NoReply
    /\ rc' = "NONE" /\ used' = NoData /\ named' = {} /\ missed' = FALSE
    /\ UNCHANGED <<vars, chan>>

AesStep == \/ \E a \in Operations : \/ OpWithoutSession(a)
                                    \/ \E c \in Chan : OpOpensSession(a, c)
           \/ OpAsks \/ OpRefused \/ OpGetsReply \/ OpCloses(args)
           \/ OpReturns

\* hwkey, and its clients other than hwaes.
HwKeyStep ==
    /\ \E c \in Chan :
          \/ Service(c)
          \/ \E u \in Uuid \ {HwAesUuid} : ClientConnect(c, u)
          \/ c # chan /\ \/ \E r \in Requests : ClientSend(c, r)
                         \/ ClientRecv(c)
                         \/ ClientClose(c)
    /\ IF phase \in {"opening", "asking"}
       THEN /\ named' = named \cup SlotsNamed(opaque_handles', args.handle)
            /\ missed' = (missed \/ NamesNone(opaque_handles', args.handle))
       ELSE UNCHANGED history
    /\ UNCHANGED <<phase, args, chan, ret, rc, used>>

AesNext == AesStep \/ HwKeyStep

AesSpec == Init /\ AesInit /\ [][AesNext]_allVars

\* The event loop of hwaes runs on as that of hwkey does.  An operation waits
\* for hwkey and for nobody else.
AesFairness ==
    /\ Fairness
    /\ WF_allVars(OpAsks \/ OpRefused \/ OpGetsReply \/ OpCloses(args)
                      \/ OpReturns)

AesFairSpec == AesSpec /\ AesFairness

-----------------------------------------------------------------------------
(* Properties.                                                             *)

\* hwaes holds at most one session of hwkey, and only while an operation is
\* in progress: on every path, failures of hwkey included, the end it holds
\* is closed before hwaes_aes_op returns.
SessionsReleased ==
    \A c \in Chan :
        (uuid[c] = HwAesUuid /\ st[c] # "free" /\ ~hup[c]) =>
            c = chan /\ phase \in {"opening", "asking", "closing"}

\* An operation with an opaque handle that succeeds was run with the key of a
\* slot that the handle named while the operation was in progress, and that
\* is meant for hwaes; whatever the handle's owner and other clients of hwkey
\* did meanwhile, and whoever has used the session's channel before.
KeyIsTheHandles ==
    (rc = "NO_ERROR" /\ args.key_type = "OPAQUE_HANDLE") =>
        /\ used.type = "key"
        /\ used.slot \in named
        /\ HwAesUuid \in KeySlots[used.slot].allowed

\* What may keep hwkey from giving hwaes the key: the handle was not there,
\* or the retriever of a slot it named failed.
Due(status) ==
    \/ status = "NOT_FOUND" /\ missed
    \/ \E s \in named : /\ HwAesUuid \in KeySlots[s].allowed
                         /\ status \in KeySlots[s].errors

\* Once hwkey has accepted the session, an operation is refused for a reason:
\* at some time since it began the handle was not redeemable, or the key
\* could not be retrieved.  A handle whose owner stays is never reported
\* unknown, whatever other sessions do, fail at or leave in their queues; and
\* hwkey does not hang up on a request of hwaes: the request is well-formed
\* and there is room for the reply, also on a channel that others have used.
RefusalsAreDue ==
    (phase = "closing" /\ ret.status # "NO_ERROR") => Due(ret.status)

\* The reference: which arguments each mode takes, and with what sizes.
AcceptedShapes ==
    [mode : {"CBC"}, encrypt : BOOLEAN, iv : {16}, aad : {FALSE},
     tag_in : {FALSE}, tag_out : {FALSE}]
    \cup [mode : {"GCM"}, encrypt : {TRUE}, iv : {12}, aad : BOOLEAN,
          tag_in : {FALSE}, tag_out : {TRUE}]
    \cup [mode : {"GCM"}, encrypt : {FALSE}, iv : {12}, aad : BOOLEAN,
          tag_in : {TRUE}, tag_out : {FALSE}]

Acceptable(a, len) ==
    /\ a.padding = "NO_PADDING"
    /\ a.text_in > 0 /\ a.text_out = a.text_in
    /\ a.mode = "CBC" => \E k \in 1..a.text_in : a.text_in = 16 * k
    /\ a.key > 0 /\ len \in {16, 32}
    /\ [mode |-> a.mode, encrypt |-> a.encrypt, iv |-> a.iv,
        aad |-> a.aad > 0, tag_in |-> a.tag_in > 0,
        tag_out |-> a.tag_out > 0] \in AcceptedShapes

\* The length of the key that the operation has.
OpKeyLen == IF args.key_type = "PLAINTEXT"
            THEN args.key
            ELSE IF used.type = "key" THEN KeyLen[used.slot] ELSE 0

\* hwaes_aes_op succeeds only for arguments the reference accepts, and for a
\* tag that is right; and it calls arguments invalid or not implemented only
\* if the reference does not accept them.
ResultMatchesReference ==
    phase = "done" =>
        /\ rc = "NO_ERROR" =>
              /\ Acceptable(args, OpKeyLen)
              /\ (args.mode = "GCM" /\ ~args.encrypt) => args.authentic
        /\ rc \in {"INVALID_ARGS", "NOT_IMPLEMENTED"} =>
              ~Acceptable(args, OpKeyLen)

\* Every operation ends: hwkey answers or closes, and hwaes notices.
OperationsEnd == phase # "idle" ~> phase = "idle"
=============================================================================
