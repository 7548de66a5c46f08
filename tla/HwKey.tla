------------------------------- MODULE HwKey -------------------------------
(***************************************************************************)
(* The hwkey service of the hwcrypto application (hwcrypto/hwkey_srv.c):   *)
(* its sessions, the global list of opaque key handles, and the requests   *)
(* HWKEY_GET_KEYSLOT and HWKEY_DERIVE.  The service is one thread: main.c  *)
(* waits for an event, runs its handler to completion and waits again, so  *)
(* a handler is one step.  Clients and the kernel's IPC run concurrently   *)
(* with it; they are not in this repository and are modelled from how the  *)
(* service uses them.                                                      *)
(*                                                                         *)
(* A channel stands for the pair of IPC handle and hwkey_chan_ctx: both    *)
(* are created by one accept and freed by one close, and both values are   *)
(* used again for a later connection.                                      *)
(***************************************************************************)
EXTENDS Integers, Sequences, IntrusiveList

CONSTANTS
    Chan,           \* IPC handles / addresses of hwkey_chan_ctx
    Uuid,           \* application identities
    NoUuid,         \* the identity field of a channel that is not connected
    AllowedClients, \* the provider's allowed_clients[]
    KeySlots,       \* the table installed by hwkey_install_keys
    Token,          \* the access tokens the random source can produce
    EmptyToken,     \* the all-zero token of a new opaque_handle_node
    Requests        \* the messages the clients send

Slot == DOMAIN KeySlots

\* What the model keeps of struct hwkey_keyslot: its owner, its name, which
\* handler it has and the errors that handler (for an opaque slot, its
\* retriever) can return; for an opaque slot, allowed_uuids of its
\* hwkey_opaque_handle_data.
KeySlotRecord ==
    [key_id  : STRING,
     uuid    : Uuid,
     handler : {"get_key_handle", "direct", "NULL"},
     allowed : SUBSET Uuid,
     errors  : SUBSET {"GENERIC", "BAD_LEN", "NOT_FOUND"}]

\* Messages: the slot id is a key id or the text of an access token; a KDF
\* version is BEST (0), V1 (1) or another; ikm counts payload bytes; a SHORT
\* message has no complete header.
Request ==
    [cmd : {"GET_KEYSLOT"}, id : STRING \cup Token]
        \cup [cmd : {"DERIVE"}, kdf : 0..2, ikm : Nat]
        \cup [cmd : {"OTHER", "SHORT"}]

Status == {"NO_ERROR", "GENERIC", "BAD_LEN", "NOT_FOUND", "ALREADY_EXISTS",
           "NOT_IMPLEMENTED", "RNG_FAILED"}

\* Reply payloads: nothing, a token, the key of a slot, or a key derived for
\* an identity (the salt of the KDF).
NoData == [type |-> "none"]
TokenData(t) == [type |-> "token", token |-> t]
KeyData(s) == [type |-> "key", slot |-> s]
DerivedData(u) == [type |-> "derived", uuid |-> u]
Data == {NoData} \cup {TokenData(t) : t \in Token}
            \cup {KeyData(s) : s \in Slot} \cup {DerivedData(u) : u \in Uuid}

Reply == [status : Status, data : Data]

\* port_create gives every channel one buffer in each direction.
QueueSize == 1

ASSUME KeySlotsAssumption == KeySlots \in Seq(KeySlotRecord)
ASSUME RequestsAssumption == Requests \subseteq Request
ASSUME UuidAssumption == NoUuid \notin Uuid /\ AllowedClients \subseteq Uuid
\* A token has 31 non-zero bytes; no name of a key slot has that length.
ASSUME TokenAssumption == EmptyToken \notin Token /\ Token \cap STRING = {}

VARIABLES
    st,       \* per channel: free, connecting, open (it has a context), or
              \* closed (by the service, the client still holds its end)
    uuid,     \* the client's identity, ctx->uuid while there is a context
    hup,      \* the client has closed its end
    inq,      \* requests not yet received
    outq,     \* replies not yet read
    await,    \* the client's count of requests it has no reply to yet
    opaque_handles

vars == <<st, uuid, hup, inq, outq, await, opaque_handles>>

Entry == [slot : Slot, owner : Chan, token : Token \cup {EmptyToken}]

Init ==
    /\ st = [c \in Chan |-> "free"]
    /\ uuid = [c \in Chan |-> NoUuid]
    /\ hup = [c \in Chan |-> FALSE]
    /\ inq = [c \in Chan |-> <<>>]
    /\ outq = [c \in Chan |-> <<>>]
    /\ await = [c \in Chan |-> 0]
    /\ opaque_handles = <<>>

-----------------------------------------------------------------------------
(* The kernel's part of closing an end of a channel.                       *)

\* Both ends are gone: the handle can be used again.
Recycle(c) ==
    /\ st' = [st EXCEPT ![c] = "free"]
    /\ uuid' = [uuid EXCEPT ![c] = NoUuid]
    /\ hup' = [hup EXCEPT ![c] = FALSE]
    /\ inq' = [inq EXCEPT ![c] = <<>>]
    /\ outq' = [outq EXCEPT ![c] = <<>>]
    /\ await' = [await EXCEPT ![c] = 0]

\* close(chan) by the service.  Replies already queued stay readable.
CloseChan(c) ==
    IF hup[c]
    THEN Recycle(c)
    ELSE /\ st' = [st EXCEPT ![c] = "closed"]
         /\ inq' = [inq EXCEPT ![c] = <<>>]
         /\ UNCHANGED <<uuid, hup, outq, await>>

-----------------------------------------------------------------------------
(* The handlers of hwkey_srv.c.                                            *)

\* The result of a slot lookup: the handle list it leaves, the status and the
\* payload (klen is 0 exactly when there is no payload).
Outcome(h, s, d) == [handles |-> h, status |-> s, data |-> d]

EntriesFor(h, s) == {i \in DOMAIN h : h[i].slot = s}

\* Mutant: looks for an entry of this session, as the comment on the list may
\* be read, instead of any entry for the slot.
insert_handle_node_per_session(h, c, s) ==
    IF \E i \in EntriesFor(h, s) : h[i].owner = c
    THEN h
    ELSE Append(h, [slot |-> s, owner |-> c, token |-> EmptyToken])

\* insert_handle_node when calloc succeeds.
insert_handle_node(h, c, s) ==
    IF EntriesFor(h, s) # {}
    THEN h
    ELSE Append(h, [slot |-> s, owner |-> c, token |-> EmptyToken])

\* insert_handle_node when calloc fails, which needs a call of calloc.
insert_handle_node_fails(h, s) ==
    IF EntriesFor(h, s) # {} THEN {} ELSE {Outcome(h, "GENERIC", NoData)}

\* Mutant: copies the token out before the random bytes are drawn.
get_key_handle_copies_early(h, s) ==
    UNION {IF h[i].token # EmptyToken
           THEN {Outcome(h, "ALREADY_EXISTS", NoData)}
           ELSE {Outcome([h EXCEPT ![i].token = t], "NO_ERROR",
                         TokenData(h[i].token)) : t \in Token}
           : i \in FirstOf(EntriesFor(h, s))}

\* Mutant: draws a new token although the slot already has one.
get_key_handle_again(h, s) ==
    UNION {{Outcome([h EXCEPT ![i].token = t], "NO_ERROR", TokenData(t))
                : t \in Token}
           : i \in FirstOf(EntriesFor(h, s))}

\* get_key_handle on the entry found for slot s.  The random source may fail,
\* in any round of the loop; otherwise it produces some token.
get_key_handle(h, s) ==
    UNION {IF h[i].token # EmptyToken
           THEN {Outcome(h, "ALREADY_EXISTS", NoData)}
           ELSE {Outcome([h EXCEPT ![i].token = t], "NO_ERROR", TokenData(t))
                    : t \in Token}
                \cup {Outcome(g, "RNG_FAILED", NoData)
                    : g \in Keeping(h, DOMAIN h \ {i})}
           : i \in FirstOf(EntriesFor(h, s))}

\* A slot's direct handler, or the retriever of an opaque slot.
Retrieve(h, s) ==
    {Outcome(h, "NO_ERROR", KeyData(s))}
        \cup {Outcome(h, e, NoData) : e \in KeySlots[s].errors}

\* Mutant: does not look at allowed_uuids.
get_opaque_key_unchecked(h, u, id) ==
    LET match == {i \in DOMAIN h : h[i].token = id}
    IN  IF match = {}
        THEN {Outcome(h, "NOT_FOUND", NoData)}
        ELSE UNION {Retrieve(h, h[i].slot) : i \in FirstOf(match)}

\* Mutant: the application that the slot is for may redeem, not its readers.
get_opaque_key_for_owner(h, u, id) ==
    LET match == {i \in DOMAIN h : /\ u = KeySlots[h[i].slot].uuid
                                   /\ h[i].token = id}
    IN  IF match = {}
        THEN {Outcome(h, "NOT_FOUND", NoData)}
        ELSE UNION {Retrieve(h, h[i].slot) : i \in FirstOf(match)}

\* Mutant: any text redeems an entry the caller may read.
get_opaque_key_any_token(h, u, id) ==
    LET match == {i \in DOMAIN h : u \in KeySlots[h[i].slot].allowed}
    IN  IF match = {}
        THEN {Outcome(h, "NOT_FOUND", NoData)}
        ELSE UNION {Retrieve(h, h[i].slot) : i \in FirstOf(match)}

\* get_opaque_key: the first entry in the list whose slot may be read by u
\* and whose token is the text that was sent.
get_opaque_key(h, u, id) ==
    LET match == {i \in DOMAIN h : /\ u \in KeySlots[h[i].slot].allowed
                                   /\ h[i].token = id}
    IN  IF match = {}
        THEN {Outcome(h, "NOT_FOUND", NoData)}
        ELSE UNION {Retrieve(h, h[i].slot) : i \in FirstOf(match)}

\* The slots with that name, that owner and a handler.
MatchingSlots(u, id) ==
    {s \in Slot : /\ KeySlots[s].key_id = id
                  /\ KeySlots[s].uuid = u
                  /\ KeySlots[s].handler # "NULL"}

RunSlot(h, c, s) ==
    IF KeySlots[s].handler = "get_key_handle"
    THEN insert_handle_node_fails(h, s)
            \cup get_key_handle(insert_handle_node(h, c, s), s)
    ELSE Retrieve(h, s)

\* _handle_slots: the first matching slot; without one the id is tried as an
\* opaque handle.
handle_slots(h, c, u, id) ==
    IF MatchingSlots(u, id) = {}
    THEN get_opaque_key(h, u, id)
    ELSE UNION {RunSlot(h, c, s) : s \in FirstOf(MatchingSlots(u, id))}

\* derive_key_v1 of the fake provider: the identity of the client is the salt;
\* HKDF may fail.
derive_key_v1(h, u, ikm) ==
    IF ikm = 0
    THEN {Outcome(h, "BAD_LEN", NoData)}
    ELSE {Outcome(h, "NO_ERROR", DerivedData(u)),
          Outcome(h, "GENERIC", NoData)}

\* hwkey_handle_derive_key_cmd: BEST means V1, the only version there is.
handle_derive_key(h, u, kdf, ikm) ==
    IF kdf \in {0, 1}
    THEN derive_key_v1(h, u, ikm)
    ELSE {Outcome(h, "NOT_IMPLEMENTED", NoData)}

\* The replies hwkey_chan_handle_msg can give to a message with a header.
HandleRequest(h, c, u, r) ==
    CASE r.cmd = "GET_KEYSLOT" -> handle_slots(h, c, u, r.id)
      [] r.cmd = "DERIVE"      -> handle_derive_key(h, u, r.kdf, r.ikm)
      [] OTHER                 -> {Outcome(h, "NOT_IMPLEMENTED", NoData)}

\* Mutant: closes the channel and forgets the handles.
hwkey_ctx_close_keeps_handles(c, h) ==
    /\ opaque_handles' = h
    /\ CloseChan(c)

\* Mutant: drops the handles of all sessions of the application.
hwkey_ctx_close_by_uuid(c, h) ==
    /\ \E g \in Keeping(h, {i \in DOMAIN h : uuid[h[i].owner] # uuid[c]}) :
          opaque_handles' = g
    /\ CloseChan(c)

\* hwkey_ctx_close: drop every handle the context owns, then the channel.
hwkey_ctx_close(c, h) ==
    /\ \E g \in Keeping(h, {i \in DOMAIN h : h[i].owner # c}) :
          opaque_handles' = g
    /\ CloseChan(c)

\* tipc_send2 succeeds: the client still has its end and a free buffer.
CanSend(c) == ~hup[c] /\ Len(outq[c]) < QueueSize

\* Mutant: ignores the result of the send.
hwkey_chan_handle_msg_ignores_send(c) ==
    LET r == Head(inq[c])
    IN  IF r.cmd = "SHORT"
        THEN hwkey_ctx_close(c, opaque_handles)
        ELSE \E o \in HandleRequest(opaque_handles, c, uuid[c], r) :
                /\ opaque_handles' = o.handles
                /\ inq' = [inq EXCEPT ![c] = Tail(@)]
                /\ outq' = [outq EXCEPT ![c] =
                       IF CanSend(c)
                       THEN Append(@, [status |-> o.status, data |-> o.data])
                       ELSE @]
                /\ UNCHANGED <<st, uuid, hup, await>>

\* Mutant: drops an unknown command without a reply.
hwkey_chan_handle_msg_no_default(c) ==
    LET r == Head(inq[c])
    IN  /\ inq' = [inq EXCEPT ![c] = Tail(@)]
        /\ \E o \in HandleRequest(opaque_handles, c, uuid[c], r) :
              /\ opaque_handles' = o.handles
              /\ outq' = [outq EXCEPT ![c] =
                     IF CanSend(c) /\ r.cmd \in {"GET_KEYSLOT", "DERIVE"}
                     THEN Append(@, [status |-> o.status, data |-> o.data])
                     ELSE @]
        /\ UNCHANGED <<st, uuid, hup, await>>

\* Mutant: no reply when the lookup fails.
hwkey_chan_handle_msg_silent(c) ==
    \E o \in HandleRequest(opaque_handles, c, uuid[c], Head(inq[c])) :
        /\ opaque_handles' = o.handles
        /\ inq' = [inq EXCEPT ![c] = Tail(@)]
        /\ outq' = [outq EXCEPT ![c] =
               IF o.status = "NO_ERROR"
               THEN Append(@, [status |-> o.status, data |-> o.data])
               ELSE @]
        /\ UNCHANGED <<st, uuid, hup, await>>

\* hwkey_chan_handle_msg, and hwkey_ctx_close when it returns an error.
hwkey_chan_handle_msg(c) ==
    LET r == Head(inq[c])
    IN  IF r.cmd = "SHORT"
        THEN hwkey_ctx_close(c, opaque_handles)
        ELSE \E o \in HandleRequest(opaque_handles, c, uuid[c], r) :
                IF CanSend(c)
                THEN /\ opaque_handles' = o.handles
                     /\ inq' = [inq EXCEPT ![c] = Tail(@)]
                     /\ outq' = [outq EXCEPT ![c] =
                            Append(@, [status |-> o.status, data |-> o.data])]
                     /\ UNCHANGED <<st, uuid, hup, await>>
                ELSE hwkey_ctx_close(c, o.handles)

\* The bits that hold for channel c now.  They stay set until the service
\* handles the channel, so an event fetched earlier has a subset of them.
Pending(c) == (IF hup[c] THEN {"HUP"} ELSE {})
                  \cup (IF inq[c] # <<>> THEN {"MSG"} ELSE {})

\* Mutant: no handling of HUP.
hwkey_chan_handler_no_hup(c, event) ==
    /\ st[c] = "open" /\ event # {}
    /\ IF "MSG" \in event
       THEN hwkey_chan_handle_msg(c)
       ELSE UNCHANGED vars

\* hwkey_chan_handler.
hwkey_chan_handler(c, event) ==
    /\ st[c] = "open" /\ event # {}
    /\ IF "HUP" \in event
       THEN hwkey_ctx_close(c, opaque_handles)
       ELSE hwkey_chan_handle_msg(c)

\* Mutant: no check of the client's identity.
hwkey_port_handler_any_client(c) ==
    /\ st[c] = "connecting"
    /\ st' = [st EXCEPT ![c] = "open"]
    /\ UNCHANGED <<uuid, hup, inq, outq, await, opaque_handles>>

\* hwkey_port_handler.  accept, calloc and set_cookie may each fail.
hwkey_port_handler(c) ==
    /\ st[c] = "connecting"
    /\ \/ CloseChan(c) /\ UNCHANGED opaque_handles
       \/ /\ uuid[c] \in AllowedClients
          /\ hwkey_ctx_close(c, opaque_handles)
       \/ /\ uuid[c] \in AllowedClients
          /\ st' = [st EXCEPT ![c] = "open"]
          /\ UNCHANGED <<uuid, hup, inq, outq, await, opaque_handles>>

-----------------------------------------------------------------------------
(* Clients, through the kernel.                                            *)

ClientConnect(c, u) ==
    /\ st[c] = "free"
    /\ st' = [st EXCEPT ![c] = "connecting"]
    /\ uuid' = [uuid EXCEPT ![c] = u]
    /\ UNCHANGED <<hup, inq, outq, await, opaque_handles>>

\* A client may send again before it has read the reply.
ClientSend(c, r) ==
    /\ st[c] = "open" /\ ~hup[c] /\ Len(inq[c]) < QueueSize
    /\ inq' = [inq EXCEPT ![c] = Append(@, r)]
    /\ await' = [await EXCEPT ![c] = @ + 1]
    /\ UNCHANGED <<st, uuid, hup, outq, opaque_handles>>

ClientRecv(c) ==
    /\ st[c] \in {"open", "closed"} /\ ~hup[c] /\ outq[c] # <<>>
    /\ outq' = [outq EXCEPT ![c] = Tail(@)]
    /\ await' = [await EXCEPT ![c] = @ - 1]
    /\ UNCHANGED <<st, uuid, hup, inq, opaque_handles>>

\* The client closes its end; the service learns of it from a HUP event.
ClientClose(c) ==
    /\ UNCHANGED opaque_handles
    /\ \/ /\ st[c] \in {"connecting", "closed"}
          /\ Recycle(c)
       \/ /\ st[c] = "open" /\ ~hup[c]
          /\ hup' = [hup EXCEPT ![c] = TRUE]
          /\ outq' = [outq EXCEPT ![c] = <<>>]
          /\ UNCHANGED <<st, uuid, inq, await>>

Client(c) == \/ \E u \in Uuid : ClientConnect(c, u)
             \/ \E r \in Requests : ClientSend(c, r)
             \/ ClientRecv(c)
             \/ ClientClose(c)

Service(c) == \/ hwkey_port_handler(c)
              \/ \E event \in SUBSET Pending(c) : hwkey_chan_handler(c, event)

Next == \E c \in Chan : Client(c) \/ Service(c)

Spec == Init /\ [][Next]_vars

\* main.c calls wait_any for ever.  A bit that stays set is in an event that
\* is fetched sooner or later; the clients need not read, send or hang up.
Fairness == \A c \in Chan : /\ WF_vars(hwkey_port_handler(c))
                             /\ WF_vars(hwkey_chan_handler(c, Pending(c)))

FairSpec == Spec /\ Fairness

-----------------------------------------------------------------------------
(* Properties.                                                             *)

\* The types of the state of hwkey_srv.c and of the channels it serves.
TypeOK ==
    /\ st \in [Chan -> {"free", "connecting", "open", "closed"}]
    /\ uuid \in [Chan -> Uuid \cup {NoUuid}]
    /\ hup \in [Chan -> BOOLEAN]
    /\ inq \in [Chan -> Seq(Requests)]
    /\ outq \in [Chan -> Seq(Reply)]
    /\ await \in [Chan -> Int]
    /\ opaque_handles \in Seq(Entry)

\* Only applications on the provider's list ever have a session, and a
\* channel that is free, or not accepted yet, carries no message and no
\* hang-up of an earlier connection.
OnlyClientsServed ==
    \A c \in Chan :
        /\ st[c] = "open" => uuid[c] \in AllowedClients
        /\ st[c] = "connecting" => uuid[c] \in Uuid
        /\ st[c] \in {"free", "connecting"} =>
              inq[c] = <<>> /\ outq[c] = <<>> /\ ~hup[c]
        /\ st[c] = "closed" => inq[c] = <<>> /\ ~hup[c]

\* Every entry of opaque_handles belongs to a session that still has its
\* context, of the application the key slot is for.  Contexts are freed and
\* their addresses used again, so an entry that outlived its owner would be
\* taken over by whoever connects next.
HandlesHaveLiveOwners ==
    \A i \in DOMAIN opaque_handles :
        LET e == opaque_handles[i]
        IN  st[e.owner] = "open" /\ uuid[e.owner] = KeySlots[e.slot].uuid

\* "Each client may only have a single entry in this list for a given key
\* slot" (hwkey_srv.c, comment on opaque_handles), over all its sessions;
\* and get_opaque_key's assertion that get_key_handle "should never leave an
\* empty token in the list", whichever of its steps failed.
HandleListWellFormed ==
    /\ \A i, j \in DOMAIN opaque_handles :
          opaque_handles[i].slot = opaque_handles[j].slot => i = j
    /\ \A i \in DOMAIN opaque_handles : opaque_handles[i].token # EmptyToken

\* A token on its way to a session that is open is in the list, owned by that
\* session: the client never reads a handle that is already dead.
TokensInFlightAreLive ==
    \A c \in Chan : \A k \in DOMAIN outq[c] :
        (st[c] = "open" /\ outq[c][k].data.type = "token") =>
            \E i \in DOMAIN opaque_handles :
                /\ opaque_handles[i].owner = c
                /\ opaque_handles[i].token = outq[c][k].data.token

\* Who may be sent the key of slot s: for a slot with a handler of its own
\* the application it is for, for an opaque slot only its readers.
MayRead(u, s) == IF KeySlots[s].handler = "get_key_handle"
                 THEN u \in KeySlots[s].allowed
                 ELSE u = KeySlots[s].uuid

\* Key material in a reply queue is material its reader may have: no client
\* gets another's slot, an opaque key goes only to the services its slot
\* names, a derived key is bound to the client's identity, and a channel
\* that is used again carries nothing over from its last client.
KeysOnlyToAuthorised ==
    \A c \in Chan : \A k \in DOMAIN outq[c] :
        LET d == outq[c][k].data
        IN  /\ d.type = "key" => MayRead(uuid[c], d.slot)
            /\ d.type = "derived" => d.uuid = uuid[c]
            /\ d.type = "token" => \E s \in Slot :
                  KeySlots[s].handler = "get_key_handle"
                      /\ KeySlots[s].uuid = uuid[c]

\* On a session that is open at both ends each request the client waits for
\* is still queued or has its reply queued: a handler that cannot deliver a
\* reply closes the channel instead of leaving the client waiting.
NoLostRequest ==
    \A c \in Chan :
        (st[c] = "open" /\ ~hup[c]) => await[c] = Len(inq[c]) + Len(outq[c])

\* A handle stays valid, with its token, until the service closes the session
\* it was created for: "this entry will be cleaned up when the connection it
\* was created for is closed" and by nothing else, in particular not by
\* another session that asks for the same slot, fails or disconnects.
HandleEndsWithItsSession ==
    [][\A i \in DOMAIN opaque_handles :
          \/ \E j \in DOMAIN opaque_handles' :
                opaque_handles'[j] = opaque_handles[i]
          \/ LET c == opaque_handles[i].owner
             IN  st[c] = "open" /\ st'[c] # "open"]_vars

\* After a client has hung up, the service drops the handles of its session,
\* so that the slots can be handed out again.
HungUpHandlesReclaimed ==
    \A c \in Chan :
        (st[c] = "open" /\ hup[c]) ~>
            \A i \in DOMAIN opaque_handles : opaque_handles[i].owner # c

\* Every request is answered, or the channel is closed.
RequestsAnswered ==
    \A c \in Chan :
        (st[c] = "open" /\ inq[c] # <<>>) ~>
            (outq[c] # <<>> \/ hup[c] \/ st[c] # "open")

-----------------------------------------------------------------------------
(* The service implements the table of issued handles.                     *)

AbsSession == [c \in Chan |-> IF st[c] = "open" THEN uuid[c] ELSE NoUuid]
AbsInbox == [c \in Chan |-> [k \in DOMAIN outq[c] |-> outq[c][k].data]]
AbsTable ==
    [s \in {opaque_handles[i].slot : i \in DOMAIN opaque_handles} |->
        LET i == CHOOSE j \in DOMAIN opaque_handles :
                    opaque_handles[j].slot = s
        IN  [owner |-> opaque_handles[i].owner,
             token |-> opaque_handles[i].token]]

Abstract == INSTANCE OpaqueHandles
                WITH session <- AbsSession, ask <- inq,
                     inbox <- AbsInbox, table <- AbsTable

\* Every behaviour of the handlers is one of the table: the refinement.
ImplementsOpaqueHandles == Abstract!ASpec
=============================================================================
