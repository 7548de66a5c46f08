------------------------------- MODULE HwRng -------------------------------
(***************************************************************************)
(* The hwrng service of the hwcrypto application (hwcrypto/hwrng_srv.c):   *)
(* sessions, the list of requests in progress, and flow control against    *)
(* clients that are slow to read.  As in HwKey a handler is one step; the  *)
(* kernel's IPC and the clients are modelled from how the service uses     *)
(* them.  Random bytes are counted, not valued.                            *)
(***************************************************************************)
EXTENDS Integers, Sequences, IntrusiveList

CONSTANTS
    Chan,       \* IPC handles / addresses of hwrng_chan_ctx
    MaxMsgSize, \* MAX_HWRNG_MSG_SIZE
    SizeMod,    \* 2^w for the width w of size_t
    Lens,       \* the values of hwrng_req.len that the clients send
    Window      \* the bytes each client has outstanding at most

ASSUME MaxMsgAssumption == MaxMsgSize \in Nat \ {0} /\ SizeMod \in Nat \ {0}
ASSUME LensAssumption ==
    Lens \subseteq 0..(SizeMod - 1) /\ Window \in [Chan -> Nat]

\* port_create gives every channel one buffer in each direction.
QueueSize == 1

\* A message without a complete struct hwrng_req.
Short == -1

VARIABLES
    st,             \* free, connecting, open (with a context) or closed
    hup,            \* the client has closed its end
    inq,            \* requests not yet received
    outq,           \* sizes of the replies not yet read
    unblock,        \* the kernel's SEND_UNBLOCKED: idle, armed by a send that
                    \* found no buffer, raised when a buffer is free again
    owed,           \* bytes the client has asked for and not read yet
    req_size,       \* ctx->req_size
    send_blocked,   \* ctx->send_blocked
    hwrng_req_list  \* the contexts with a request in progress

vars == <<st, hup, inq, outq, unblock, owed, req_size, send_blocked,
          hwrng_req_list>>

InList(c) == \E i \in DOMAIN hwrng_req_list : hwrng_req_list[i] = c

Init ==
    /\ st = [c \in Chan |-> "free"]
    /\ hup = [c \in Chan |-> FALSE]
    /\ inq = [c \in Chan |-> <<>>]
    /\ outq = [c \in Chan |-> <<>>]
    /\ unblock = [c \in Chan |-> "idle"]
    /\ owed = [c \in Chan |-> 0]
    /\ req_size = [c \in Chan |-> 0]
    /\ send_blocked = [c \in Chan |-> FALSE]
    /\ hwrng_req_list = <<>>

-----------------------------------------------------------------------------
(* The handlers of hwrng_srv.c.                                            *)

Update(f, X, v) == [c \in Chan |-> IF c \in X THEN v ELSE f[c]]

\* hwrng_close_chan for the contexts X, except for the list; a channel whose
\* client is gone too can be used again.
CloseChans(X, iq, sb, rs) ==
    /\ st' = [c \in Chan |-> IF c \notin X THEN st[c]
                             ELSE IF hup[c] THEN "free" ELSE "closed"]
    /\ hup' = Update(hup, X, FALSE)
    /\ inq' = Update(iq, X, <<>>)
    /\ owed' = Update(owed, {c \in X : hup[c]}, 0)
    /\ send_blocked' = Update(sb, X, FALSE)
    /\ req_size' = Update(rs, X, 0)

\* Mutant: the largest message is one byte short.
ReplyLen_off_by_one(n) == IF n >= MaxMsgSize THEN MaxMsgSize - 1 ELSE n

\* How much of a request of n bytes the next reply carries.
ReplyLen(n) == IF n > MaxMsgSize THEN MaxMsgSize ELSE n

\* hwrng_handle_req_queue on the list l, with request sizes rs and blocked
\* flags sb; X are the contexts the calling handler has closed.  The entries
\* do not depend on each other.  For each one that is not blocked the random
\* source or the send may fail (it does when the client is gone), the send
\* may find no buffer, or up to MaxMsgSize bytes are sent.
hwrng_handle_req_queue(l, rs, sb, iq, ub, X) ==
    LET serviced == {c \in Chan : /\ \E i \in DOMAIN l : l[i] = c
                                  /\ ~sb[c]}
        len(c) == ReplyLen(rs[c])
    IN  \E failed \in SUBSET serviced :
          LET blocked == {c \in serviced \ failed : Len(outq[c]) >= QueueSize}
              sent == serviced \ (failed \cup blocked)
              done == {c \in sent : rs[c] = len(c)}
          IN  /\ {c \in serviced : hup[c]} \subseteq failed
              /\ \E g \in Keeping(l, {i \in DOMAIN l :
                                        l[i] \notin failed \cup done}) :
                    hwrng_req_list' = g
              /\ outq' = [c \in Chan |->
                    IF c \in sent THEN Append(outq[c], len(c)) ELSE outq[c]]
              /\ unblock' = Update(Update(ub, blocked, "armed"),
                                   X \cup failed, "idle")
              /\ CloseChans(X \cup failed, iq, Update(sb, blocked, TRUE),
                    [c \in Chan |-> IF c \in sent THEN rs[c] - len(c)
                                                  ELSE rs[c]])

\* hwrng_kick_req_queue: one pass over the list, whether or not it leaves
\* something to send.
hwrng_kick_req_queue(l, rs, sb, iq, ub, X) ==
    hwrng_handle_req_queue(l, rs, sb, iq, ub, X)

\* The bits that hold for channel c; an event fetched earlier has a subset.
Pending(c) == (IF hup[c] THEN {"HUP"} ELSE {})
                  \cup (IF inq[c] # <<>> THEN {"MSG"} ELSE {})
                  \cup (IF unblock[c] = "raised" THEN {"SEND_UNBLOCKED"} ELSE {})

\* hwrng_close_chan of c, then the kick.
CloseAndKick(c, sb, ub) ==
    \E l \in Keeping(hwrng_req_list, {i \in DOMAIN hwrng_req_list :
                                         hwrng_req_list[i] # c}) :
        hwrng_kick_req_queue(l, req_size, sb, inq, ub, {c})

\* Mutant: a second request replaces the one in progress.
MsgAndKick_replaces(c, sb, ub) ==
    LET n == Head(inq[c])
        iq == [inq EXCEPT ![c] = Tail(@)]
        l == IF InList(c) THEN hwrng_req_list ELSE Append(hwrng_req_list, c)
    IN  IF n = Short
        THEN CloseAndKick(c, sb, ub)
        ELSE hwrng_kick_req_queue(l, [req_size EXCEPT ![c] = n], sb, iq, ub, {})

\* Mutant: a context is queued again although it is in the list.
MsgAndKick_requeues(c, sb, ub) ==
    LET n == Head(inq[c])
        iq == [inq EXCEPT ![c] = Tail(@)]
    IN  IF n = Short
        THEN CloseAndKick(c, sb, ub)
        ELSE hwrng_kick_req_queue(Append(hwrng_req_list, c),
                [req_size EXCEPT ![c] = (@ + n) % SizeMod], sb, iq, ub, {})

\* hwrng_chan_handle_msg with the request at the head, then the kick.
MsgAndKick(c, sb, ub) ==
    LET n == Head(inq[c])
        iq == [inq EXCEPT ![c] = Tail(@)]
    IN  IF n = Short
        THEN CloseAndKick(c, sb, ub)
        ELSE IF InList(c)
        THEN hwrng_kick_req_queue(hwrng_req_list,
                [req_size EXCEPT ![c] = (@ + n) % SizeMod], sb, iq, ub, {})
        ELSE hwrng_kick_req_queue(Append(hwrng_req_list, c),
                [req_size EXCEPT ![c] = n], sb, iq, ub, {})

\* Mutant: an event that carries a message is not looked at for
\* SEND_UNBLOCKED.
hwrng_chan_handler_else_if(c, event) ==
    /\ st[c] = "open" /\ event # {}
    /\ LET woken == "SEND_UNBLOCKED" \in event
           sb == [send_blocked EXCEPT ![c] = FALSE]
           ub == IF woken THEN [unblock EXCEPT ![c] = "idle"] ELSE unblock
       IN  IF "HUP" \in event
           THEN CloseAndKick(c, send_blocked, unblock)
           ELSE IF "MSG" \in event
           THEN MsgAndKick(c, send_blocked, ub)
           ELSE hwrng_kick_req_queue(hwrng_req_list, req_size, sb, inq, ub,
                                     {})

\* Mutant: the queue is kicked for messages only.
hwrng_chan_handler_no_kick(c, event) ==
    /\ st[c] = "open"
    /\ \/ "HUP" \in event /\ CloseAndKick(c, send_blocked, unblock)
       \/ "MSG" \in event /\ MsgAndKick(c, send_blocked, unblock)
       \/ /\ "SEND_UNBLOCKED" \in event
          /\ unblock' = [unblock EXCEPT ![c] = "idle"]
          /\ send_blocked' = [send_blocked EXCEPT ![c] = FALSE]
          /\ UNCHANGED <<st, hup, inq, outq, owed, req_size, hwrng_req_list>>

\* hwrng_chan_handler.
hwrng_chan_handler(c, event) ==
    /\ st[c] = "open" /\ event # {}
    /\ LET woken == "SEND_UNBLOCKED" \in event
           sb == IF woken THEN [send_blocked EXCEPT ![c] = FALSE]
                          ELSE send_blocked
           ub == IF woken THEN [unblock EXCEPT ![c] = "idle"] ELSE unblock
       IN  IF "HUP" \in event
           THEN CloseAndKick(c, send_blocked, unblock)
           ELSE IF "MSG" \in event
           THEN MsgAndKick(c, sb, ub)
           ELSE hwrng_kick_req_queue(hwrng_req_list, req_size, sb, inq, ub,
                                     {})

\* hwrng_port_handler: accept, calloc or set_cookie may fail.
hwrng_port_handler(c) ==
    /\ st[c] = "connecting"
    /\ \E s \in {"open", "closed"} : st' = [st EXCEPT ![c] = s]
    /\ UNCHANGED <<hup, inq, outq, unblock, owed, req_size, send_blocked,
                   hwrng_req_list>>

-----------------------------------------------------------------------------
(* Clients, through the kernel.                                            *)

ClientConnect(c) ==
    /\ st[c] = "free"
    /\ st' = [st EXCEPT ![c] = "connecting"]
    /\ UNCHANGED <<hup, inq, outq, unblock, owed, req_size, send_blocked,
                   hwrng_req_list>>

ClientSend(c, n) ==
    /\ st[c] = "open" /\ ~hup[c] /\ Len(inq[c]) < QueueSize
    /\ n # Short => owed[c] + n <= Window[c]
    /\ inq' = [inq EXCEPT ![c] = Append(@, n)]
    /\ owed' = [owed EXCEPT ![c] = @ + (IF n = Short THEN 0 ELSE n)]
    /\ UNCHANGED <<st, hup, outq, unblock, req_size, send_blocked,
                   hwrng_req_list>>

\* Reading frees the buffer, which raises SEND_UNBLOCKED if a send failed.
ClientRecv(c) ==
    /\ st[c] \in {"open", "closed"} /\ ~hup[c] /\ outq[c] # <<>>
    /\ outq' = [outq EXCEPT ![c] = Tail(@)]
    /\ owed' = [owed EXCEPT ![c] = @ - Head(outq[c])]
    /\ unblock' = [unblock EXCEPT ![c] = IF @ = "armed" THEN "raised" ELSE @]
    /\ UNCHANGED <<st, hup, inq, req_size, send_blocked, hwrng_req_list>>

ClientClose(c) ==
    /\ outq' = [outq EXCEPT ![c] = <<>>]
    /\ UNCHANGED <<inq, unblock, req_size, send_blocked, hwrng_req_list>>
    /\ \/ /\ st[c] \in {"connecting", "closed"}
          /\ st' = [st EXCEPT ![c] = "free"]
          /\ owed' = [owed EXCEPT ![c] = 0]
          /\ UNCHANGED hup
       \/ /\ st[c] = "open" /\ ~hup[c]
          /\ hup' = [hup EXCEPT ![c] = TRUE]
          /\ UNCHANGED <<st, owed>>

Client(c) == \/ ClientConnect(c)
             \/ \E n \in Lens \cup {Short} : ClientSend(c, n)
             \/ ClientRecv(c)
             \/ ClientClose(c)

Service(c) == \/ hwrng_port_handler(c)
              \/ \E event \in SUBSET Pending(c) : hwrng_chan_handler(c, event)

Next == \E c \in Chan : Client(c) \/ Service(c)

Spec == Init /\ [][Next]_vars

\* main.c calls wait_any for ever.  A bit that stays set is in an event that
\* is fetched sooner or later; the clients need not read, send or hang up.
Fairness == \A c \in Chan : /\ WF_vars(hwrng_port_handler(c))
                             /\ WF_vars(hwrng_chan_handler(c, Pending(c)))

FairSpec == Spec /\ Fairness

-----------------------------------------------------------------------------
(* Properties.                                                             *)

\* hwrng_req_list holds contexts that exist, each at most once (a node that
\* is added twice breaks an intrusive list), and a context that is not in it
\* has nothing left to send and is not blocked: a connection that gets the
\* memory of an old context starts clean.
ReqListConsistent ==
    /\ \A i, j \in DOMAIN hwrng_req_list :
          hwrng_req_list[i] = hwrng_req_list[j] => i = j
    /\ \A i \in DOMAIN hwrng_req_list : st[hwrng_req_list[i]] = "open"
    /\ \A c \in Chan : ~InList(c) => req_size[c] = 0 /\ ~send_blocked[c]

\* The bytes a message in a queue stands for; a queue holds at most one.
Bytes(q) == IF q = <<>> THEN 0 ELSE IF Head(q) = Short THEN 0 ELSE Head(q)

\* Every byte a client has asked for is in its request, in progress, or in a
\* reply on its way: however requests are extended, split and blocked, none
\* is sent twice or unasked, and none is dropped but by req_size += req.len
\* wrapping around, which takes a client with SizeMod bytes outstanding.
BytesConserved ==
    \A c \in Chan : (st[c] = "open" /\ ~hup[c]) =>
        LET known == Bytes(inq[c]) + req_size[c] + Bytes(outq[c])
        IN  /\ known <= owed[c]
            /\ (owed[c] - known) % SizeMod = 0

\* A context that is marked send_blocked still has a SEND_UNBLOCKED event
\* coming: the wake-up is never consumed without the mark being cleared.
NoLostWakeup ==
    \A c \in Chan : (st[c] = "open" /\ ~hup[c] /\ send_blocked[c]) =>
        \/ unblock[c] = "raised"
        \/ unblock[c] = "armed" /\ outq[c] # <<>>

\* The clients that keep at most one message's worth of bytes outstanding.
Modest == {c \in Chan : Window[c] <= MaxMsgSize}

\* Between events a modest client that is in the queue has to read first: each
\* pass over the queue serves it in full or finds its buffer taken.
OnlyBlockedRequestsWait ==
    \A i \in DOMAIN hwrng_req_list :
        hwrng_req_list[i] \in Modest => send_blocked[hwrng_req_list[i]]

\* Client c waits for bytes, with nothing left to read.
Waiting(c) == st[c] = "open" /\ ~hup[c] /\ owed[c] > 0 /\ outq[c] = <<>>

\* A modest client that waits is sent some bytes or is disconnected, whatever
\* the other clients do: ask for more than a message, read or not, hang up.
ModestClientGetsData ==
    \A c \in Modest :
        Waiting(c) ~> (outq[c] # <<>> \/ hup[c] \/ st[c] # "open")

\* The same for every client ("for all pending requests", the comment on the
\* loop of hwrng_handle_req_queue).
WaitingClientGetsData ==
    \A c \in Chan :
        Waiting(c) ~> (outq[c] # <<>> \/ hup[c] \/ st[c] # "open")
=============================================================================
