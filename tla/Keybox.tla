------------------------------- MODULE Keybox -------------------------------
(***************************************************************************)
(* The keybox service of the hwcrypto application (hwcrypto/keybox/srv.c). *)
(* As in HwKey a handler is one step, and the kernel and the clients are   *)
(* modelled from how the service uses them.                                *)
(***************************************************************************)
EXTENDS KeyboxUnwrap

CONSTANTS
    Chan,         \* IPC handles / addresses of keybox_chan_ctx
    KeyboxMaxSize,\* KEYBOX_MAX_SIZE
    HeaderSize,   \* sizeof(struct keybox_unwrap_req)
    LenMod,       \* 2^64: wrapped_keybox_len and computed_size wrap there
    Messages      \* what the clients send

\* An UNWRAP message carries a complete unwrap_header or not, the length the
\* client claims, and the bytes that follow; a SHORT message does not even
\* have the common header.
Message ==
    [cmd : {"UNWRAP"}, header : BOOLEAN, len : 0..(LenMod - 1),
     body : Seq(Byte)] \cup [cmd : {"OTHER", "SHORT"}]

\* A request of the greatest size is in memory, so that its size does not wrap.
ASSUME SizesAssumption ==
    /\ KeyboxMaxSize \in Nat /\ HeaderSize \in Nat /\ LenMod \in Nat
    /\ HeaderSize + KeyboxMaxSize < LenMod

\* The port takes no message longer than struct full_keybox_req.
ASSUME MessagesAssumption ==
    \A m \in Messages :
        /\ m \in Message
        /\ m.cmd = "UNWRAP" => Len(m.body) <= KeyboxMaxSize

QueueSize == 1

VARIABLES
    st,     \* free, connecting, open (with a context) or closed
    hup,    \* the client has closed its end
    inq,    \* requests not yet received
    outq,   \* replies not yet read
    asked,  \* the client's requests without a reply it has read
    heap    \* whether a context has been freed twice

vars == <<st, hup, inq, outq, asked, heap>>

Init ==
    /\ st = [c \in Chan |-> "free"]
    /\ hup = [c \in Chan |-> FALSE]
    /\ inq = [c \in Chan |-> <<>>]
    /\ outq = [c \in Chan |-> <<>>]
    /\ asked = [c \in Chan |-> <<>>]
    /\ heap = "ok"

-----------------------------------------------------------------------------
(* The handlers of srv.c.                                                  *)

\* Mutant: the claimed length is not compared with what was received; bytes
\* that were not received read as zero here.
keybox_handle_unwrap_trusts_len(m) ==
    IF ~m.header \/ m.len + HeaderSize >= LenMod
    THEN Failed("INVALID_REQUEST")
    ELSE keybox_unwrap([i \in 1..(IF m.len > KeyboxMaxSize THEN KeyboxMaxSize
                                                           ELSE m.len)
                          |-> IF i <= Len(m.body) THEN m.body[i] ELSE {}],
                       KeyboxMaxSize)

\* keybox_handle_unwrap: the header is there, header plus claimed length does
\* not wrap, and it is what was received.
keybox_handle_unwrap(m) ==
    IF ~m.header
    THEN Failed("INVALID_REQUEST")
    ELSE IF m.len + HeaderSize >= LenMod
    THEN Failed("INVALID_REQUEST")
    ELSE IF m.len + HeaderSize # HeaderSize + Len(m.body)
    THEN Failed("INVALID_REQUEST")
    ELSE keybox_unwrap(m.body, KeyboxMaxSize)

\* The reply keybox_handle_msg gives to a message with a header.
ReplyTo(m) == IF m.cmd = "UNWRAP" THEN keybox_handle_unwrap(m)
                                  ELSE Failed("INVALID_REQUEST")

CanSend(c) == ~hup[c] /\ Len(outq[c]) < QueueSize

\* keybox_handle_msg fails: nothing received, or the reply was not sent.
keybox_handle_msg_fails(c) == Head(inq[c]).cmd = "SHORT" \/ ~CanSend(c)

\* keybox_shutdown of a context that exists.
keybox_shutdown(c) ==
    /\ st' = [st EXCEPT ![c] = IF hup[c] THEN "free" ELSE "closed"]
    /\ hup' = [hup EXCEPT ![c] = FALSE]
    /\ inq' = [inq EXCEPT ![c] = <<>>]
    /\ asked' = [asked EXCEPT ![c] = IF hup[c] THEN <<>> ELSE @]
    /\ UNCHANGED outq

\* The bits that hold for channel c; an event fetched earlier has a subset.
Pending(c) == (IF hup[c] THEN {"HUP"} ELSE {})
                  \cup (IF inq[c] # <<>> THEN {"MSG"} ELSE {})

\* Mutant: HUP is not handled, only messages are.
keybox_chan_handler_no_hup(c, event) ==
    /\ heap = "ok" /\ st[c] = "open" /\ "MSG" \in event
    /\ IF keybox_handle_msg_fails(c)
       THEN keybox_shutdown(c)
       ELSE /\ inq' = [inq EXCEPT ![c] = Tail(@)]
            /\ outq' = [outq EXCEPT ![c] = Append(@, ReplyTo(Head(inq[c])))]
            /\ UNCHANGED <<st, hup, asked>>
    /\ UNCHANGED heap

\* keybox_chan_handler: a message is handled first; the context is shut down
\* for HUP and again for a failed message.  The second time the context has
\* been freed, after which nothing can be said about the process.
keybox_chan_handler(c, event) ==
    /\ heap = "ok" /\ st[c] = "open" /\ event # {}
    /\ LET rc == "MSG" \in event /\ keybox_handle_msg_fails(c)
       IN  IF "HUP" \in event \/ rc
           THEN /\ keybox_shutdown(c)
                /\ heap' = IF "HUP" \in event /\ rc THEN "freed twice" ELSE heap
           ELSE /\ inq' = [inq EXCEPT ![c] = Tail(@)]
                /\ outq' = [outq EXCEPT ![c] =
                               Append(@, ReplyTo(Head(inq[c])))]
                /\ UNCHANGED <<st, hup, asked, heap>>

\* keybox_port_handler: accept, calloc or set_cookie may fail.
keybox_port_handler(c) ==
    /\ heap = "ok" /\ st[c] = "connecting"
    /\ \E s \in {"open", "closed"} : st' = [st EXCEPT ![c] = s]
    /\ UNCHANGED <<hup, inq, outq, asked, heap>>

-----------------------------------------------------------------------------
(* Clients, through the kernel.                                            *)

ClientConnect(c) ==
    /\ st[c] = "free"
    /\ st' = [st EXCEPT ![c] = "connecting"]
    /\ UNCHANGED <<hup, inq, outq, asked, heap>>

ClientSend(c, m) ==
    /\ st[c] = "open" /\ ~hup[c] /\ Len(inq[c]) < QueueSize
    /\ inq' = [inq EXCEPT ![c] = Append(@, m)]
    /\ asked' = [asked EXCEPT ![c] = Append(@, m)]
    /\ UNCHANGED <<st, hup, outq, heap>>

ClientRecv(c) ==
    /\ st[c] \in {"open", "closed"} /\ ~hup[c] /\ outq[c] # <<>>
    /\ outq' = [outq EXCEPT ![c] = Tail(@)]
    /\ asked' = [asked EXCEPT ![c] = Tail(@)]
    /\ UNCHANGED <<st, hup, inq, heap>>

ClientClose(c) ==
    /\ outq' = [outq EXCEPT ![c] = <<>>]
    /\ UNCHANGED <<inq, heap>>
    /\ \/ /\ st[c] \in {"connecting", "closed"}
          /\ st' = [st EXCEPT ![c] = "free"]
          /\ asked' = [asked EXCEPT ![c] = <<>>]
          /\ UNCHANGED hup
       \/ /\ st[c] = "open" /\ ~hup[c]
          /\ hup' = [hup EXCEPT ![c] = TRUE]
          /\ UNCHANGED <<st, asked>>

Client(c) == \/ ClientConnect(c)
             \/ \E m \in Messages : ClientSend(c, m)
             \/ ClientRecv(c)
             \/ ClientClose(c)

Service(c) == \/ keybox_port_handler(c)
              \/ \E event \in SUBSET Pending(c) : keybox_chan_handler(c, event)

Next == \E c \in Chan : Client(c) \/ Service(c)

Spec == Init /\ [][Next]_vars

\* main.c calls wait_any for ever; the clients need not do anything.
Fairness == \A c \in Chan : /\ WF_vars(keybox_port_handler(c))
                            /\ WF_vars(keybox_chan_handler(c, Pending(c)))

FairSpec == Spec /\ Fairness

-----------------------------------------------------------------------------
(* Properties.                                                             *)

\* The reply r is right for the message m: it has a plaintext exactly when
\* the bytes received, all of them and nothing else, are the wrapping of that
\* plaintext.
RightReply(m, r) ==
    IF r.status = "SUCCESS"
    THEN /\ m.cmd = "UNWRAP" /\ m.header /\ m.len = Len(m.body)
         /\ WrapReference(r.plaintext) = m.body
    ELSE /\ r.plaintext = <<>>
         /\ (m.cmd = "UNWRAP" /\ m.header /\ m.len = Len(m.body)) =>
               ~IsWrapping(m.body)

\* On a session that is open at both ends the client's outstanding requests
\* are, in order, those with a reply in the queue and those still to be
\* received, and each reply is right for its request.
RepliesMatchRequests ==
    \A c \in Chan : (st[c] = "open" /\ ~hup[c]) =>
        /\ Len(asked[c]) = Len(outq[c]) + Len(inq[c])
        /\ SubSeq(asked[c], Len(outq[c]) + 1, Len(asked[c])) = inq[c]
        /\ \A k \in DOMAIN outq[c] : RightReply(asked[c][k], outq[c][k])

\* "The wrapped data will fail to unwrap if it is trivially tampered with"
\* (keybox.c): a keybox of which any one byte was changed on its way, the
\* checksum included, gives no plaintext.
TamperDetected ==
    \A c \in Chan : (st[c] = "open" /\ ~hup[c]) =>
        \A k \in DOMAIN outq[c] :
            (asked[c][k].cmd = "UNWRAP" /\ IsTampered(asked[c][k].body)) =>
                /\ outq[c][k].status # "SUCCESS"
                /\ outq[c][k].plaintext = <<>>

\* When a client has hung up the service frees its context, so that channels
\* do not pile up.
HungUpSessionsEnd ==
    \A c \in Chan : (st[c] = "open" /\ hup[c]) ~>
                        (st[c] # "open" \/ heap # "ok")

\* A handler works on the context of the channel it was called for
\* ("assert(ctx); assert(ev->handle == ctx->chan)", keybox_chan_handler), so
\* a context is shut down while it exists and not again.
ContextFreedOnce == heap = "ok"
=============================================================================
