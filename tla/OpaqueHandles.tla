--------------------------- MODULE OpaqueHandles ---------------------------
(***************************************************************************)
(* What the hwkey service promises about keys, without lists, contexts,    *)
(* events or failures: a table of issued handles.  An opaque slot is       *)
(* either not issued or issued to one session under one token; ending a    *)
(* session takes back exactly what was issued to it; and a session is sent *)
(* the key of an opaque slot only in answer to the token under which it is *)
(* issued at that moment, and only when the slot names the session's       *)
(* application as a reader.  The service may refuse any request and may    *)
(* end any session.                                                        *)
(***************************************************************************)
EXTENDS Naturals, Sequences

CONSTANTS Chan, Uuid, NoUuid, KeySlots, Token, Requests

VARIABLES
    session,  \* the application behind each session, NoUuid if there is none
    ask,      \* requests not yet answered
    inbox,    \* what the service has sent and the client has not read
    table     \* a function from the issued slots to their owner and token

avars == <<session, ask, inbox, table>>

OpaqueSlot == {s \in DOMAIN KeySlots : KeySlots[s].handler = "get_key_handle"}

AInit ==
    /\ session = [c \in Chan |-> NoUuid]
    /\ ask = [c \in Chan |-> <<>>]
    /\ inbox = [c \in Chan |-> <<>>]
    /\ table = [s \in {} |-> <<>>]

Begin(c, u) ==
    /\ session[c] = NoUuid /\ inbox[c] = <<>>
    /\ session' = [session EXCEPT ![c] = u]
    /\ UNCHANGED <<ask, inbox, table>>

End(c) ==
    /\ session[c] # NoUuid
    /\ session' = [session EXCEPT ![c] = NoUuid]
    /\ ask' = [ask EXCEPT ![c] = <<>>]
    /\ table' = [s \in {x \in DOMAIN table : table[x].owner # c} |-> table[s]]
    /\ \E kept \in {inbox[c], <<>>} : inbox' = [inbox EXCEPT ![c] = kept]

Ask(c, r) ==
    /\ session[c] # NoUuid
    /\ ask' = [ask EXCEPT ![c] = Append(@, r)]
    /\ UNCHANGED <<session, inbox, table>>

\* The client reads a message, or gives up the rest.
Read(c) ==
    /\ inbox[c] # <<>>
    /\ \E rest \in {Tail(inbox[c]), <<>>} : inbox' = [inbox EXCEPT ![c] = rest]
    /\ UNCHANGED <<session, ask, table>>

Answer(c, d) ==
    /\ session[c] # NoUuid /\ ask[c] # <<>>
    /\ ask' = [ask EXCEPT ![c] = Tail(@)]
    /\ inbox' = [inbox EXCEPT ![c] = Append(@, d)]
    /\ UNCHANGED session

Refuse(c) == Answer(c, [type |-> "none"]) /\ UNCHANGED table

\* The request at the head asks for x.
Names(c, x) == /\ ask[c] # <<>>
               /\ Head(ask[c]).cmd = "GET_KEYSLOT"
               /\ Head(ask[c]).id = x

Issue(c, s, t) ==
    /\ s \notin DOMAIN table
    /\ session[c] = KeySlots[s].uuid /\ Names(c, KeySlots[s].key_id)
    /\ Answer(c, [type |-> "token", token |-> t])
    /\ table' = [x \in DOMAIN table \cup {s} |->
                    IF x = s THEN [owner |-> c, token |-> t] ELSE table[x]]

Redeem(c, s) ==
    /\ session[c] \in KeySlots[s].allowed /\ Names(c, table[s].token)
    /\ Answer(c, [type |-> "key", slot |-> s])
    /\ UNCHANGED table

OwnKey(c, s) ==
    /\ s \notin OpaqueSlot
    /\ session[c] = KeySlots[s].uuid /\ Names(c, KeySlots[s].key_id)
    /\ Answer(c, [type |-> "key", slot |-> s])
    /\ UNCHANGED table

Derive(c) ==
    /\ ask[c] # <<>> /\ Head(ask[c]).cmd = "DERIVE"
    /\ Answer(c, [type |-> "derived", uuid |-> session[c]])
    /\ UNCHANGED table

ANext ==
    \E c \in Chan :
        \/ \E u \in Uuid : Begin(c, u)
        \/ End(c)
        \/ \E r \in Requests : Ask(c, r)
        \/ Read(c)
        \/ Refuse(c)
        \/ \E s \in OpaqueSlot, t \in Token : Issue(c, s, t)
        \/ \E s \in DOMAIN table : Redeem(c, s)
        \/ \E s \in DOMAIN KeySlots : OwnKey(c, s)
        \/ Derive(c)

ASpec == AInit /\ [][ANext]_avars
=============================================================================
