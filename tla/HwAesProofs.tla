---------------------------- MODULE HwAesProofs ----------------------------
(***************************************************************************)
(* hwaes in the composition with hwkey: it gives back every session it     *)
(* opens, gets the key that its handle names or a refusal that is due, and *)
(* accepts the operations it should.  The theorems of HwKeyProofs hold in  *)
(* the composition.                                                        *)
(***************************************************************************)
EXTENDS HwAes, HwKeyRefinement

\* The request that carries the handle of an operation.
Ask(a) == [cmd |-> "GET_KEYSLOT", id |-> a.handle]

\* While an operation talks to hwkey it has a session and an operation of a
\* client of hwaes; otherwise it has none.
AesInv ==
    /\ phase \in {"idle", "opening", "asking", "closing", "done"}
    /\ phase \in {"idle", "done"} => chan = NoChan
    /\ phase \in {"opening", "asking", "closing"} =>
          /\ args \in Operations
          /\ chan \in Chan /\ uuid[chan] = HwAesUuid
          /\ st[chan] # "free" /\ ~hup[chan]
    /\ SessionsReleased

-----------------------------------------------------------------------------
(* Each step of the composition is a step of HwKey or leaves it alone.     *)

\* Nothing is in progress at first.
LEMMA AesInitInv == Init /\ AesInit => AesInv
  BY NoChanAssumption DEF Init, AesInit, AesInv, SessionsReleased

\* What hwaes does on its session, a client of HwKey may do.
LEMMA StepIsClients == AesInv /\ [AesNext]_allVars => [Next]_vars
  <1> SUFFICES ASSUME AesInv, [AesNext]_allVars
               PROVE  [Next]_vars
    OBVIOUS
  <1>1. ASSUME NEW a \in Operations, OpWithoutSession(a)
        PROVE  UNCHANGED vars
    BY <1>1 DEF OpWithoutSession
  <1>2. ASSUME NEW a \in Operations, NEW c \in Chan, OpOpensSession(a, c)
        PROVE  Next
    BY <1>2, HwAesAssumption DEF OpOpensSession, Next, Client
  <1>3. CASE OpAsks
    <2>1. chan \in Chan /\ Ask(args) \in Requests
      BY <1>3, HandlesAssumption DEF OpAsks, AesInv, Ask
    <2>2. ClientSend(chan, Ask(args))
      BY <1>3 DEF OpAsks, Ask
    <2> QED
      BY <2>1, <2>2 DEF Next, Client
  <1>4. CASE OpRefused
    BY <1>4 DEF OpRefused, AesInv, Next, Client
  <1>5. CASE OpGetsReply
    <2>1. chan \in Chan
      BY <1>5 DEF OpGetsReply, AesInv
    <2> QED
      BY <1>5, <2>1 DEF OpGetsReply, Next, Client
  <1>6. CASE OpCloses(args)
    BY <1>6 DEF OpCloses, AesInv, Next, Client
  <1>7. CASE OpReturns
    BY <1>7 DEF OpReturns
  <1>8. CASE HwKeyStep
    <2>1. PICK c \in Chan :
             \/ Service(c)
             \/ \E u \in Uuid \ {HwAesUuid} : ClientConnect(c, u)
             \/ c # chan /\ \/ \E r \in Requests : ClientSend(c, r)
                            \/ ClientRecv(c)
                            \/ ClientClose(c)
      BY <1>8 DEF HwKeyStep
    <2> QED
      BY <2>1 DEF Next, Client
  <1>9. CASE UNCHANGED allVars
    BY <1>9 DEF allVars
  <1> QED
    BY <1>1, <1>2, <1>3, <1>4, <1>5, <1>6, <1>7, <1>8, <1>9
       DEF AesNext, AesStep

-----------------------------------------------------------------------------
(* Sessions.                                                               *)

\* What a step of HwKey on the channel d does to the parts of the state that
\* AesInv speaks of: nothing on other channels.
OnlyOn(d) ==
    \A c \in Chan \ {d} :
        st'[c] = st[c] /\ uuid'[c] = uuid[c] /\ hup'[c] = hup[c]

\* hwkey does not take a session away from a client that holds its end.
LEMMA ServiceStep ==
    ASSUME Inv, NEW d \in Chan, Service(d)
    PROVE  /\ OnlyOn(d)
           /\ ~hup[d] => uuid'[d] = uuid[d] /\ ~hup'[d] /\ st'[d] # "free"
           /\ hup[d] => hup'[d] \/ st'[d] = "free"
  <1>1. ASSUME CloseChan(d) \/ UNCHANGED <<st, uuid, hup>>,
               st[d] \in {"connecting", "open"}
        PROVE  /\ OnlyOn(d)
               /\ ~hup[d] => uuid'[d] = uuid[d] /\ ~hup'[d] /\ st'[d] # "free"
               /\ hup[d] => hup'[d] \/ st'[d] = "free"
    BY <1>1 DEF CloseChan, Recycle, OnlyOn, Inv, TypeOK
  <1>2. CASE hwkey_port_handler(d)
    <2>1. CASE st' = [st EXCEPT ![d] = "open"] /\ UNCHANGED <<uuid, hup>>
      BY <1>2, <2>1 DEF OnlyOn, Inv, TypeOK, hwkey_port_handler
    <2>2. CASE CloseChan(d)
      BY <1>1, <1>2, <2>2 DEF hwkey_port_handler
    <2> QED
      BY <1>2, <2>1, <2>2 DEF hwkey_port_handler, hwkey_ctx_close
  <1>3. ASSUME NEW event, hwkey_chan_handler(d, event)
        PROVE  CloseChan(d) \/ UNCHANGED <<st, uuid, hup>>
    <2>1. CASE hwkey_ctx_close(d, opaque_handles)
      BY <2>1 DEF hwkey_ctx_close
    <2>2. CASE hwkey_chan_handle_msg(d)
      BY <2>2 DEF hwkey_chan_handle_msg, hwkey_ctx_close
    <2> QED
      BY <1>3, <2>1, <2>2 DEF hwkey_chan_handler
  <1>4. CASE \E event \in SUBSET Pending(d) : hwkey_chan_handler(d, event)
    BY <1>1, <1>3, <1>4 DEF hwkey_chan_handler
  <1> QED
    BY <1>2, <1>4 DEF Service

\* A client's close gives up its end: the channel is free, or marked.
LEMMA CloseGivesUp ==
    ASSUME Inv, NEW d \in Chan, ClientClose(d)
    PROVE  /\ OnlyOn(d)
           /\ st'[d] = "free" \/ hup'[d]
  BY DEF ClientClose, Recycle, OnlyOn, Inv, TypeOK

\* A connection takes a channel that nobody holds.
LEMMA ConnectStep ==
    ASSUME Inv, NEW d \in Chan, NEW u \in Uuid, ClientConnect(d, u)
    PROVE  /\ OnlyOn(d)
           /\ st[d] = "free" /\ st'[d] = "connecting"
           /\ uuid'[d] = u /\ ~hup'[d]
  BY DEF ClientConnect, OnlyOn, Inv, TypeOK, OnlyClientsServed

\* One step per action: only those on the operation's session matter.
LEMMA AesNextInv == Inv /\ AesInv /\ [AesNext]_allVars => AesInv'
  <1> SUFFICES ASSUME Inv, AesInv, [AesNext]_allVars
               PROVE  AesInv'
    OBVIOUS
  <1>1. ASSUME NEW a \in Operations, OpWithoutSession(a)
        PROVE  AesInv'
    BY <1>1 DEF OpWithoutSession, Finish, vars, AesInv, SessionsReleased
  <1>2. ASSUME NEW a \in Operations, NEW c \in Chan, OpOpensSession(a, c)
        PROVE  AesInv'
    <2>1. /\ OnlyOn(c) /\ st'[c] = "connecting"
          /\ uuid'[c] = HwAesUuid /\ ~hup'[c]
      BY <1>2, ConnectStep, HwAesAssumption DEF OpOpensSession
    <2>2. phase = "idle" /\ phase' = "opening" /\ args' = a /\ chan' = c
      BY <1>2 DEF OpOpensSession
    <2>3. SessionsReleased'
      BY <2>1, <2>2 DEF OnlyOn, AesInv, SessionsReleased
    <2> QED
      BY <2>1, <2>2, <2>3 DEF AesInv
  <1>3. CASE OpAsks
    BY <1>3 DEF OpAsks, ClientSend, AesInv, SessionsReleased
  <1>4. CASE OpRefused
    <2>1. chan \in Chan /\ phase' = "done" /\ chan' = NoChan
      BY <1>4 DEF OpRefused, AesInv, Finish
    <2>2. OnlyOn(chan) /\ (st'[chan] = "free" \/ hup'[chan])
      BY <1>4, <2>1, CloseGivesUp DEF OpRefused
    <2> QED
      BY <2>1, <2>2 DEF AesInv, SessionsReleased, OnlyOn
  <1>5. CASE OpGetsReply
    <2>1. UNCHANGED <<st, uuid, hup, chan, args>>
      BY <1>5 DEF OpGetsReply, ClientRecv, vars
    <2> QED
      BY <1>5, <2>1 DEF OpGetsReply, AesInv, SessionsReleased
  <1>6. CASE OpCloses(args)
    <2>1. chan \in Chan /\ phase' = "done" /\ chan' = NoChan
      BY <1>6 DEF OpCloses, AesInv, Finish
    <2>2. OnlyOn(chan) /\ (st'[chan] = "free" \/ hup'[chan])
      BY <1>6, <2>1, CloseGivesUp DEF OpCloses
    <2> QED
      BY <2>1, <2>2 DEF AesInv, SessionsReleased, OnlyOn
  <1>7. CASE OpReturns
    BY <1>7 DEF OpReturns, vars, AesInv, SessionsReleased
  <1>8. CASE HwKeyStep
    <2>1. UNCHANGED <<phase, args, chan>>
      BY <1>8 DEF HwKeyStep
    <2>2. ASSUME NEW d \in Chan, Service(d)
          PROVE  AesInv'
      <3>1. /\ OnlyOn(d)
            /\ ~hup[d] => uuid'[d] = uuid[d] /\ ~hup'[d] /\ st'[d] # "free"
            /\ hup[d] => hup'[d] \/ st'[d] = "free"
        BY <2>2, ServiceStep
      <3>2. ~hup[d] => st[d] # "free"
        BY <2>2 DEF Service, hwkey_port_handler, hwkey_chan_handler
      <3> QED
        BY <2>1, <3>1, <3>2 DEF AesInv, SessionsReleased, OnlyOn
    <2>3. ASSUME NEW d \in Chan, NEW u \in Uuid \ {HwAesUuid},
                 ClientConnect(d, u)
          PROVE  AesInv'
      <3>1. /\ OnlyOn(d) /\ st[d] = "free" /\ uuid'[d] = u
        BY <2>3, ConnectStep
      <3> QED
        BY <2>1, <2>3, <3>1 DEF AesInv, SessionsReleased, OnlyOn
    <2>4. ASSUME NEW d \in Chan, NEW r \in Requests, ClientSend(d, r)
          PROVE  AesInv'
      BY <2>1, <2>4 DEF ClientSend, AesInv, SessionsReleased
    <2>5. ASSUME NEW d \in Chan, ClientRecv(d)
          PROVE  AesInv'
      BY <2>1, <2>5 DEF ClientRecv, AesInv, SessionsReleased
    <2>6. ASSUME NEW d \in Chan, d # chan, ClientClose(d)
          PROVE  AesInv'
      <3>1. OnlyOn(d) /\ (st'[d] = "free" \/ hup'[d])
        BY <2>6, CloseGivesUp
      <3> QED
        BY <2>1, <2>6, <3>1 DEF AesInv, SessionsReleased, OnlyOn
    <2> QED
      BY <1>8, <2>2, <2>3, <2>4, <2>5, <2>6 DEF HwKeyStep
  <1>9. CASE UNCHANGED allVars
    BY <1>9 DEF allVars, aesVars, vars, AesInv, SessionsReleased
  <1> QED
    BY <1>1, <1>2, <1>3, <1>4, <1>5, <1>6, <1>7, <1>8, <1>9
       DEF AesNext, AesStep

-----------------------------------------------------------------------------
(* Keys.                                                                   *)

\* A reply carries a key that the operation may use, or a refusal that is due.
GoodReply(r) ==
    IF r.status = "NO_ERROR"
    THEN /\ r.data.type = "key" /\ r.data.slot \in named
         /\ HwAesUuid \in KeySlots[r.data.slot].allowed
    ELSE Due(r.status)

\* hwkey has the operation's request, and room for its reply.
Asked ==
    inq[chan] = <<Ask(args)>> /\ outq[chan] = <<>>

\* hwkey has answered it.
ReplyWaits ==
    /\ inq[chan] = <<>>
    /\ \E r : outq[chan] = <<r>> /\ GoodReply(r)

\* The session carries one request, with the operation's handle, and then the
\* one reply to it; hwkey keeps it open meanwhile.
KeyInv ==
    /\ phase = "opening" => inq[chan] = <<>> /\ outq[chan] = <<>>
    /\ phase = "asking" => st[chan] = "open" /\ (Asked \/ ReplyWaits)
    /\ phase \in {"opening", "asking"} =>
          /\ SlotsNamed(opaque_handles, args.handle) \subseteq named
          /\ NamesNone(opaque_handles, args.handle) => missed
    /\ phase = "closing" => GoodReply(ret)
    /\ phase # "done" => rc = "NONE"
    /\ KeyIsTheHandles

\* What hwkey answers to hwaes: hwaes owns no slot, so the text is taken for
\* a handle, and the key is that of a slot it names.
LEMMA HandleAnswer ==
    ASSUME Inv, KeyInv, phase = "asking", NEW c \in Chan, args \in Operations,
           NEW o \in HandleRequest(opaque_handles, c, HwAesUuid, Ask(args))
    PROVE  /\ o.handles = opaque_handles
           /\ GoodReply([status |-> o.status, data |-> o.data])
  <1> DEFINE h == opaque_handles
             a == args
             match == {i \in DOMAIN h :
                          /\ HwAesUuid \in KeySlots[h[i].slot].allowed
                          /\ h[i].token = a.handle}
  <1>1. MatchingSlots(HwAesUuid, a.handle) = {}
    BY HwAesAssumption DEF MatchingSlots
  <1>2. o \in get_opaque_key(h, HwAesUuid, a.handle)
    BY <1>1 DEF HandleRequest, Ask, handle_slots
  <1>3. CASE match = {} /\ o = Outcome(h, "NOT_FOUND", NoData)
    <2>1. NamesNone(h, a.handle)
      BY <1>3 DEF NamesNone, SlotsNamed
    <2>2. missed
      BY <2>1 DEF KeyInv
    <2> QED
      BY <1>3, <2>2 DEF Outcome, GoodReply, Due
  <1>4. CASE \E i \in FirstOf(match) : o \in Retrieve(h, h[i].slot)
    <2>1. PICK i \in FirstOf(match) : o \in Retrieve(h, h[i].slot)
      BY <1>4
    <2>2. i \in match
      BY <2>1 DEF FirstOf
    <2>3. \/ o = Outcome(h, "NO_ERROR", KeyData(h[i].slot))
          \/ \E e \in KeySlots[h[i].slot].errors : o = Outcome(h, e, NoData)
      BY <2>1 DEF Retrieve
    <2>4. h[i].slot \in Slot
      BY <2>2, EntryFacts DEF Inv, TypeOK
    <2>5. "NO_ERROR" \notin KeySlots[h[i].slot].errors
      <3>1. KeySlots[h[i].slot] \in KeySlotRecord
        BY <2>4, KeySlotsAssumption DEF Slot
      <3> QED
        BY <3>1 DEF KeySlotRecord
    <2>6. h[i].slot \in named
      BY <2>2 DEF SlotsNamed, KeyInv
    <2>7. CASE o = Outcome(h, "NO_ERROR", KeyData(h[i].slot))
      BY <2>2, <2>6, <2>7 DEF Outcome, KeyData, GoodReply
    <2>8. ASSUME NEW e \in KeySlots[h[i].slot].errors, o = Outcome(h, e, NoData)
          PROVE  o.handles = h
                 /\ GoodReply([status |-> o.status, data |-> o.data])
      BY <2>2, <2>5, <2>6, <2>8 DEF Outcome, GoodReply, Due
    <2> QED
      BY <2>3, <2>7, <2>8
  <1> QED
    BY <1>2, <1>3, <1>4 DEF get_opaque_key

\* A step of HwKey on another channel than d leaves d's queues alone.
QueuesKept(d) == inq'[d] = inq[d] /\ outq'[d] = outq[d]

\* Steps on one channel do not touch the messages of another.
LEMMA OthersQueues ==
    ASSUME Inv, NEW c \in Chan, NEW d \in Chan, c # d,
           \/ Service(c) \/ ClientRecv(c) \/ ClientClose(c)
           \/ \E r \in Requests : ClientSend(c, r)
           \/ \E u \in Uuid : ClientConnect(c, u)
    PROVE  QueuesKept(d) /\ st'[d] = st[d]
  <1> USE DEF QueuesKept, Inv, TypeOK
  <1>1. ASSUME NEW h, hwkey_ctx_close(c, h)
        PROVE  QueuesKept(d) /\ st'[d] = st[d]
    BY <1>1 DEF hwkey_ctx_close, CloseChan, Recycle
  <1>2. CASE hwkey_port_handler(c)
    BY <1>1, <1>2 DEF hwkey_port_handler, CloseChan, Recycle
  <1>3. CASE hwkey_chan_handle_msg(c)
    <2>1. CASE \E h : hwkey_ctx_close(c, h)
      BY <1>1, <2>1
    <2>2. CASE \E o : /\ UNCHANGED st
                      /\ inq' = [inq EXCEPT ![c] = Tail(@)]
                      /\ outq' = [outq EXCEPT ![c] = Append(@,
                             [status |-> o.status, data |-> o.data])]
      BY <2>2
    <2> QED
      BY <1>3, <2>1, <2>2 DEF hwkey_chan_handle_msg
  <1>4. CASE Service(c)
    BY <1>1, <1>2, <1>3, <1>4 DEF Service, hwkey_chan_handler
  <1>5. CASE ClientRecv(c) \/ ClientClose(c)
    BY <1>5 DEF ClientRecv, ClientClose, Recycle
  <1>6. CASE \E r \in Requests : ClientSend(c, r)
    BY <1>6 DEF ClientSend
  <1>7. CASE \E u \in Uuid : ClientConnect(c, u)
    BY <1>7 DEF ClientConnect
  <1> QED
    BY <1>4, <1>5, <1>6, <1>7

\* hwkey accepts or refuses the session of an operation; it finds nothing else
\* to do there until it is asked.
LEMMA AcceptsAes ==
    ASSUME Inv, NEW d \in Chan, Service(d), ~hup[d],
           inq[d] = <<>>, outq[d] = <<>>
    PROVE  QueuesKept(d)
  <1>1. Pending(d) = {}
    BY DEF Pending
  <1>2. hwkey_port_handler(d)
    BY <1>1 DEF Service, hwkey_chan_handler
  <1>3. ASSUME CloseChan(d)
        PROVE  QueuesKept(d)
    BY <1>3 DEF CloseChan, QueuesKept, Inv, TypeOK
  <1> QED
    BY <1>2, <1>3 DEF hwkey_port_handler, hwkey_ctx_close, QueuesKept

\* hwkey answers an operation that has asked, once, and does not hang up.
LEMMA AnswersAes ==
    ASSUME Inv, AesInv, KeyInv, phase = "asking", Service(chan)
    PROVE  /\ st'[chan] = "open" /\ inq'[chan] = <<>>
           /\ opaque_handles' = opaque_handles
           /\ \E r : outq'[chan] = <<r>> /\ GoodReply(r)
  <1>1. /\ chan \in Chan /\ args \in Operations /\ ~hup[chan]
        /\ uuid[chan] = HwAesUuid /\ st[chan] = "open"
    BY DEF AesInv, KeyInv
  <1>2. PICK event \in SUBSET Pending(chan) : hwkey_chan_handler(chan, event)
    BY <1>1 DEF Service, hwkey_port_handler
  <1>3. "HUP" \notin event /\ inq[chan] # <<>>
    BY <1>1, <1>2 DEF Pending, hwkey_chan_handler
  <1>4. Asked
    BY <1>3 DEF KeyInv, ReplyWaits
  <1>5. Head(inq[chan]) = Ask(args) /\ Tail(inq[chan]) = <<>>
    BY <1>4 DEF Asked
  <1>6. CanSend(chan)
    BY <1>1, <1>4 DEF CanSend, Asked, QueueSize
  <1>7. hwkey_chan_handle_msg(chan)
    BY <1>2, <1>3 DEF hwkey_chan_handler
  <1>8. Ask(args).cmd # "SHORT"
    BY DEF Ask
  <1>9. PICK o \in HandleRequest(opaque_handles, chan, HwAesUuid, Ask(args)) :
              /\ opaque_handles' = o.handles
              /\ inq' = [inq EXCEPT ![chan] = Tail(@)]
              /\ outq' = [outq EXCEPT ![chan] = Append(@,
                     [status |-> o.status, data |-> o.data])]
              /\ UNCHANGED st
    BY <1>1, <1>5, <1>6, <1>7, <1>8 DEF hwkey_chan_handle_msg
  <1> DEFINE r == [status |-> o.status, data |-> o.data]
  <1>10. o.handles = opaque_handles /\ GoodReply(r)
    BY <1>1, <1>9, HandleAnswer
  <1>11. inq'[chan] = <<>> /\ outq'[chan] = <<r>>
    BY <1>1, <1>4, <1>5, <1>9 DEF Asked, Inv, TypeOK
  <1> QED
    BY <1>1, <1>9, <1>10, <1>11

\* What an operation has found out stays true while it goes on.
LEMMA ReplyStaysGood ==
    ASSUME named \subseteq named', missed => missed', NEW r, GoodReply(r)
    PROVE  /\ r.status = "NO_ERROR" =>
                 /\ r.data.type = "key" /\ r.data.slot \in named'
                 /\ HwAesUuid \in KeySlots[r.data.slot].allowed
           /\ r.status # "NO_ERROR" =>
                 \/ r.status = "NOT_FOUND" /\ missed'
                 \/ \E s \in named' : /\ HwAesUuid \in KeySlots[s].allowed
                                       /\ r.status \in KeySlots[s].errors
  BY DEF GoodReply, Due

\* The reply is about the handle, and the operation uses the reply's key.
LEMMA KeyNextInv ==
    Inv /\ Inv' /\ AesInv /\ AesInv' /\ KeyInv /\ [AesNext]_allVars => KeyInv'
  <1> SUFFICES ASSUME Inv, Inv', AesInv, AesInv', KeyInv, [AesNext]_allVars
               PROVE  KeyInv'
    OBVIOUS
  <1>1. ASSUME NEW a \in Operations, OpWithoutSession(a)
        PROVE  KeyInv'
    <2>1. phase' = "done" /\ args' = a
      BY <1>1 DEF OpWithoutSession, Finish
    <2>2. a.key_type = "OPAQUE_HANDLE" => rc' # "NO_ERROR"
      BY <1>1 DEF OpWithoutSession, Finish
    <2> QED
      BY <2>1, <2>2 DEF KeyInv, KeyIsTheHandles
  <1>2. ASSUME NEW a \in Operations, NEW c \in Chan, OpOpensSession(a, c)
        PROVE  KeyInv'
    <2>1. phase' = "opening" /\ chan' = c /\ rc' = "NONE" /\ args' = a
      BY <1>2 DEF OpOpensSession, KeyInv
    <2>2. inq'[c] = <<>> /\ outq'[c] = <<>>
      BY <1>2 DEF OpOpensSession, ClientConnect, Inv, OnlyClientsServed
    <2>3. /\ opaque_handles' = opaque_handles
          /\ named' = SlotsNamed(opaque_handles, a.handle)
          /\ missed' = NamesNone(opaque_handles, a.handle)
      BY <1>2 DEF OpOpensSession, ClientConnect
    <2> QED
      BY <2>1, <2>2, <2>3 DEF KeyInv, KeyIsTheHandles, NamesNone
  <1>3. CASE OpAsks
    <2>1. /\ phase' = "asking" /\ chan' = chan /\ rc' = "NONE"
          /\ args' = args /\ chan \in Chan
      BY <1>3 DEF OpAsks, KeyInv, AesInv
    <2>2. inq'[chan] = <<Ask(args)>> /\ outq'[chan] = <<>> /\ st'[chan] = "open"
      BY <1>3, <2>1 DEF OpAsks, ClientSend, KeyInv, Ask, Inv, TypeOK
    <2>3. Asked'
      BY <2>1, <2>2 DEF Asked, Ask
    <2>4. UNCHANGED <<named, missed, opaque_handles>>
      BY <1>3 DEF OpAsks, ClientSend, history
    <2>5. (/\ SlotsNamed(opaque_handles, args.handle) \subseteq named
           /\ NamesNone(opaque_handles, args.handle) => missed)'
      BY <1>3, <2>1, <2>4 DEF KeyInv, OpAsks, NamesNone
    <2> QED
      BY <2>1, <2>2, <2>3, <2>5 DEF KeyInv, KeyIsTheHandles
  <1>4. CASE OpRefused
    BY <1>4 DEF OpRefused, Finish, KeyInv, KeyIsTheHandles
  <1>5. CASE OpGetsReply
    <2>1. /\ phase = "asking" /\ phase' = "closing" /\ rc' = "NONE"
          /\ UNCHANGED <<named, missed>>
      BY <1>5 DEF OpGetsReply, KeyInv, history
    <2>2. GoodReply(ret')
      <3>1. ClientRecv(chan) /\ ret' = Head(outq[chan]) /\ outq[chan] # <<>>
        BY <1>5, <2>1 DEF OpGetsReply, KeyInv, ClientRecv
      <3>2. PICK r : outq[chan] = <<r>> /\ GoodReply(r)
        BY <2>1, <3>1 DEF KeyInv, Asked, ReplyWaits
      <3> QED
        BY <3>1, <3>2
    <2> QED
      BY <2>1, <2>2 DEF KeyInv, KeyIsTheHandles, GoodReply, Due
  <1>6. CASE OpCloses(args)
    <2>1. /\ phase = "closing" /\ phase' = "done"
          /\ named' = named /\ args' = args
      BY <1>6 DEF OpCloses, Finish, history
    <2>2. rc' = "NO_ERROR" => ret.status = "NO_ERROR" /\ used' = ret.data
      BY <1>6 DEF OpCloses, Finish
    <2> QED
      BY <2>1, <2>2 DEF KeyInv, KeyIsTheHandles, GoodReply
  <1>7. CASE OpReturns
    BY <1>7 DEF OpReturns, KeyInv, KeyIsTheHandles
  <1>8. CASE HwKeyStep
    <2>1. UNCHANGED <<phase, args, chan, ret, rc, used>>
      BY <1>8 DEF HwKeyStep
    <2>2. /\ named \subseteq named' /\ (missed => missed')
          /\ phase \in {"opening", "asking"} =>
                /\ SlotsNamed(opaque_handles', args.handle) \subseteq named'
                /\ NamesNone(opaque_handles', args.handle) => missed'
      BY <1>8 DEF HwKeyStep, history
    <2>3. (/\ KeyIsTheHandles
           /\ phase # "done" => rc = "NONE"
           /\ phase = "closing" => GoodReply(ret)
           /\ phase \in {"opening", "asking"} =>
                 /\ SlotsNamed(opaque_handles, args.handle) \subseteq named
                 /\ NamesNone(opaque_handles, args.handle) => missed)'
      <3>1. phase = "closing" => GoodReply(ret)'
        BY <2>1, <2>2, ReplyStaysGood DEF KeyInv, GoodReply, Due
      <3> QED
        BY <2>1, <2>2, <3>1 DEF KeyInv, KeyIsTheHandles, NamesNone
    <2>4. PICK c \in Chan :
             \/ Service(c)
             \/ \E u \in Uuid \ {HwAesUuid} : ClientConnect(c, u)
             \/ c # chan /\ \/ \E r \in Requests : ClientSend(c, r)
                            \/ ClientRecv(c)
                            \/ ClientClose(c)
      BY <1>8 DEF HwKeyStep
    <2>5. CASE phase \notin {"opening", "asking"}
      BY <2>1, <2>3, <2>5 DEF KeyInv
    <2>6. CASE phase \in {"opening", "asking"}
      <3>1. /\ chan \in Chan /\ args \in Operations /\ ~hup[chan]
            /\ uuid[chan] = HwAesUuid /\ st[chan] # "free"
        BY <2>6 DEF AesInv
      <3>2. CASE c # chan
        <4>1. QueuesKept(chan) /\ st'[chan] = st[chan]
          BY <2>4, <3>1, <3>2, OthersQueues
        <4>2. CASE phase = "opening"
          BY <2>1, <2>3, <4>1, <4>2 DEF QueuesKept, KeyInv
        <4>3. CASE phase = "asking" /\ Asked
          <5>1. st[chan] = "open"
            BY <4>3 DEF KeyInv
          <5>2. Asked'
            BY <2>1, <4>1, <4>3 DEF QueuesKept, Asked, Ask
          <5> QED
            BY <2>1, <2>3, <4>1, <4>3, <5>1, <5>2 DEF KeyInv
        <4>4. CASE phase = "asking" /\ ReplyWaits
          <5>1. st[chan] = "open"
            BY <4>4 DEF KeyInv
          <5>2. PICK r : outq[chan] = <<r>> /\ GoodReply(r)
            BY <4>4 DEF ReplyWaits
          <5>3. GoodReply(r)'
            BY <2>2, <5>2, ReplyStaysGood DEF GoodReply, Due
          <5>4. ReplyWaits'
            BY <2>1, <4>1, <4>4, <5>2, <5>3 DEF QueuesKept, ReplyWaits
          <5> QED
            BY <2>1, <2>3, <4>1, <4>4, <5>1, <5>4 DEF KeyInv
        <4> QED
          BY <2>6, <4>2, <4>3, <4>4 DEF KeyInv
      <3>3. CASE c = chan
        <4>1. Service(chan)
          BY <2>4, <3>1, <3>3 DEF ClientConnect
        <4>2. CASE phase = "opening"
          <5>1. QueuesKept(chan)
            BY <3>1, <4>1, <4>2, AcceptsAes DEF KeyInv
          <5> QED
            BY <2>1, <2>3, <4>2, <5>1 DEF QueuesKept, KeyInv
        <4>3. CASE phase = "asking"
          <5>1. /\ st'[chan] = "open" /\ inq'[chan] = <<>>
                /\ \E r : outq'[chan] = <<r>> /\ GoodReply(r)
            BY <4>1, <4>3, AnswersAes
          <5>2. PICK r : outq'[chan] = <<r>> /\ GoodReply(r)
            BY <5>1
          <5>3. GoodReply(r)'
            BY <2>2, <5>2, ReplyStaysGood DEF GoodReply, Due
          <5>4. ReplyWaits'
            BY <2>1, <5>1, <5>2, <5>3 DEF ReplyWaits
          <5> QED
            BY <2>1, <2>3, <4>3, <5>1, <5>4 DEF KeyInv
        <4> QED
          BY <2>6, <4>2, <4>3
      <3> QED
        BY <3>2, <3>3
    <2> QED
      BY <2>5, <2>6
  <1>9. CASE UNCHANGED allVars
    <2>1. UNCHANGED <<vars, phase, args, chan, ret, rc, used, named, missed>>
      BY <1>9 DEF allVars, aesVars
    <2> QED
      BY <2>1 DEF vars, KeyInv, KeyIsTheHandles, GoodReply, Due, Asked, ReplyWaits,
                  Ask, NamesNone
  <1> QED
    BY <1>1, <1>2, <1>3, <1>4, <1>5, <1>6, <1>7, <1>8, <1>9
       DEF AesNext, AesStep

-----------------------------------------------------------------------------
(* Which operations are accepted.                                          *)

\* A whole number of blocks, as a remainder and as a multiple.
LEMMA WholeBlocks ==
    ASSUME NEW n \in Nat, n > 0
    PROVE  n % 16 = 0 <=> \E k \in 1..n : n = 16 * k
  <1>1. ASSUME NEW k \in 1..n, n = 16 * k PROVE n % 16 = 0
    BY <1>1
  <1>2. ASSUME n % 16 = 0 PROVE \E k \in 1..n : n = 16 * k
    <2>1. n = (16 * (n \div 16)) + (n % 16) /\ n \div 16 \in Int
      OBVIOUS
    <2>2. n \div 16 \in 1..n
      BY <1>2, <2>1
    <2> QED
      BY <1>2, <2>1, <2>2
  <1> QED
    BY <1>1, <1>2

\* The checks before the key is looked at are necessary for every mode.
LEMMA ArgsChecked ==
    ASSUME NEW a \in Operation
    PROVE  /\ CheckArgs(a) \in {"NO_ERROR", "INVALID_ARGS", "NOT_IMPLEMENTED"}
           /\ CheckArgs(a) = "NO_ERROR" <=>
                 /\ a.padding = "NO_PADDING" /\ a.key > 0
                 /\ a.text_in > 0 /\ a.text_out = a.text_in
           /\ \A len : Acceptable(a, len) => CheckArgs(a) = "NO_ERROR"
  <1>1. a.key \in Nat /\ a.text_in \in Nat /\ a.text_out \in Nat
    BY DEF Operation
  <1> QED
    BY <1>1 DEF CheckArgs, Present, Acceptable

\* What the mode, the direction and the lengths must be.
ModeShape(a) ==
    \/ a.mode = "CBC" /\ a.aad = 0 /\ a.tag_in = 0 /\ a.tag_out = 0
    \/ a.mode = "GCM" /\ a.encrypt /\ a.tag_in = 0 /\ a.tag_out > 0
    \/ a.mode = "GCM" /\ ~a.encrypt /\ a.tag_in > 0 /\ a.tag_out = 0

Shape(m, e, iv, x, y, z) == [mode |-> m, encrypt |-> e, iv |-> iv,
                             aad |-> x, tag_in |-> y, tag_out |-> z]

InAcceptedShapes(m, e, iv, x, y, z) ==
    \/ m = "CBC" /\ iv = 16 /\ ~x /\ ~y /\ ~z
    \/ m = "GCM" /\ e /\ iv = 12 /\ ~y /\ z
    \/ m = "GCM" /\ ~e /\ iv = 12 /\ y /\ ~z

\* Membership in the reference table, written out row by row.
LEMMA Shapes ==
    ASSUME NEW m, NEW e \in BOOLEAN, NEW iv,
           NEW x \in BOOLEAN, NEW y \in BOOLEAN, NEW z \in BOOLEAN
    PROVE  Shape(m, e, iv, x, y, z) \in AcceptedShapes
           <=> InAcceptedShapes(m, e, iv, x, y, z)
  BY DEF AcceptedShapes, Shape, InAcceptedShapes

\* The reference table accepts what the checks of the mode and of the iv let
\* through.
LEMMA ShapeMeansAccepted ==
    ASSUME NEW a \in Operation
    PROVE  [mode |-> a.mode, encrypt |-> a.encrypt, iv |-> a.iv,
            aad |-> a.aad > 0, tag_in |-> a.tag_in > 0,
            tag_out |-> a.tag_out > 0] \in AcceptedShapes
           <=> ModeShape(a) /\ a.iv = IvLength(a.mode)
  <1>1. /\ a.iv \in Nat /\ a.aad \in Nat /\ a.tag_in \in Nat
        /\ a.tag_out \in Nat /\ a.encrypt \in BOOLEAN
    BY DEF Operation
  <1> DEFINE x == a.aad > 0
             y == a.tag_in > 0
             z == a.tag_out > 0
  <1>2. x \in BOOLEAN /\ y \in BOOLEAN /\ z \in BOOLEAN
    BY <1>1
  <1>3. /\ a.aad = 0 <=> ~x
        /\ a.tag_in = 0 <=> ~y
        /\ a.tag_out = 0 <=> ~z
    BY <1>1
  <1>4. ModeShape(a) /\ a.iv = IvLength(a.mode) <=>
            InAcceptedShapes(a.mode, a.encrypt, a.iv, x, y, z)
    BY <1>1, <1>3 DEF ModeShape, IvLength, InAcceptedShapes
  <1> HIDE DEF x, y, z
  <1>5. Shape(a.mode, a.encrypt, a.iv, x, y, z) \in AcceptedShapes <=>
            InAcceptedShapes(a.mode, a.encrypt, a.iv, x, y, z)
    <2>1. a.encrypt \in BOOLEAN
      BY <1>1
    <2> QED
      BY <1>2, <2>1, Shapes
  <1>6. Shape(a.mode, a.encrypt, a.iv, x, y, z) \in AcceptedShapes
        <=> ModeShape(a) /\ a.iv = IvLength(a.mode)
    BY <1>4, <1>5, Zenon
  <1> QED
    BY <1>6 DEF x, y, z, Shape

\* What the checks of the mode let through: a key length and the shape of a mode.
LEMMA ModeChecked ==
    ASSUME NEW a \in Operation, NEW len
    PROVE  /\ CheckMode(a, len) \in {"NO_ERROR", "INVALID_ARGS", "NOT_IMPLEMENTED"}
           /\ CheckMode(a, len) = "NO_ERROR" <=>
                 len \in {16, 32} /\ ModeShape(a)
  <1>1. /\ a.aad \in Nat /\ a.tag_in \in Nat /\ a.tag_out \in Nat
        /\ a.encrypt \in BOOLEAN
    BY DEF Operation
  <1> QED
    BY <1>1 DEF CheckMode, Present, ModeShape

\* An operation that has a key of len bytes succeeds only if the reference
\* accepts it, and is called invalid only if the reference does not.
RightResult(r, a, len) ==
    /\ r = "NO_ERROR" =>
          /\ Acceptable(a, len)
          /\ (a.mode = "GCM" /\ ~a.encrypt) => a.authentic
    /\ r \in {"INVALID_ARGS", "NOT_IMPLEMENTED"} => ~Acceptable(a, len)

\* Whatever the EVP calls do, the result of the rest of hwaes_aes_op is right.
LEMMA CryptRight ==
    ASSUME NEW a \in Operation, NEW len, CheckArgs(a) = "NO_ERROR",
           NEW r \in Crypt(a, len)
    PROVE  RightResult(r, a, len)
  <1>1. /\ a.padding = "NO_PADDING" /\ a.key > 0
        /\ a.text_in > 0 /\ a.text_out = a.text_in
        /\ a.text_in \in Nat /\ a.tag_in \in Nat
    BY ArgsChecked DEF Operation
  <1>2. (a.text_in % BlockSize(a.mode) = 0) <=>
            (a.mode = "CBC" => \E k \in 1..a.text_in : a.text_in = 16 * k)
    <2>1. CASE a.mode = "CBC"
      BY <1>1, <2>1, WholeBlocks DEF BlockSize
    <2>2. CASE a.mode # "CBC"
      BY <1>1, <2>2 DEF BlockSize
    <2> QED
      BY <2>1, <2>2
  <1>3. Acceptable(a, len) <=>
            /\ len \in {16, 32} /\ ModeShape(a) /\ a.iv = IvLength(a.mode)
            /\ a.text_in % BlockSize(a.mode) = 0
    BY <1>1, <1>2, ShapeMeansAccepted DEF Acceptable
  <1>4. CASE CheckMode(a, len) # "NO_ERROR"
    <2>1. r = CheckMode(a, len)
      BY <1>4 DEF Crypt
    <2> QED
      BY <1>3, <1>4, <2>1, ModeChecked DEF RightResult
  <1>5. CASE CheckMode(a, len) = "NO_ERROR"
    <2>1. len \in {16, 32} /\ ModeShape(a) /\ r \in RunCipher(a)
      BY <1>5, ModeChecked DEF Crypt
    <2>2. CASE a.text_in % BlockSize(a.mode) # 0 \/ a.iv # IvLength(a.mode)
      <3>1. r \in {"GENERIC", "INVALID_ARGS"}
        BY <2>1, <2>2 DEF RunCipher
      <3> QED
        BY <1>3, <2>2, <3>1 DEF RightResult
    <2>3. CASE a.text_in % BlockSize(a.mode) = 0 /\ a.iv = IvLength(a.mode)
      <3>1. r \in {"GENERIC", "NO_ERROR"}
        BY <2>1, <2>3 DEF RunCipher
      <3>2. r = "NO_ERROR" => a.tag_in = 0 \/ a.authentic
        BY <2>1, <2>3 DEF RunCipher, Present
      <3>3. (a.mode = "GCM" /\ ~a.encrypt) => a.tag_in > 0
        BY <2>1 DEF ModeShape
      <3> QED
        BY <1>1, <1>3, <2>1, <2>3, <3>1, <3>2, <3>3 DEF RightResult
    <2> QED
      BY <2>2, <2>3
  <1> QED
    BY <1>4, <1>5

\* An operation that talks to hwkey has passed the checks that come before
\* it, and one that is done has the right result.
ResultInv ==
    /\ phase \in {"opening", "asking", "closing"} =>
          CheckArgs(args) = "NO_ERROR" /\ args.key_type = "OPAQUE_HANDLE"
    /\ phase = "done" => RightResult(rc, args, OpKeyLen)

\* An operation without a key cannot be acceptable: any error will do.
LEMMA NoKeyRight ==
    ASSUME NEW a, NEW r, r # "NO_ERROR"
    PROVE  RightResult(r, a, 0)
  BY DEF RightResult, Acceptable

\* Each step of an operation passes on what the checks before it showed.
LEMMA ResultNextInv ==
    AesInv /\ KeyInv /\ ResultInv /\ [AesNext]_allVars => ResultInv'
  <1> SUFFICES ASSUME AesInv, KeyInv, ResultInv, [AesNext]_allVars
               PROVE  ResultInv'
    OBVIOUS
  <1>0. ASSUME NEW a \in Operations PROVE a \in Operation
    BY OperationsAssumption
  <1>1. ASSUME NEW a \in Operations, OpWithoutSession(a)
        PROVE  ResultInv'
    <2>0. a \in Operation /\ phase' = "done" /\ args' = a
      BY <1>0, <1>1 DEF OpWithoutSession, Finish
    <2>1. a.key_type = "PLAINTEXT" => OpKeyLen' = a.key
      BY <2>0 DEF OpKeyLen
    <2>2. (a.key_type # "PLAINTEXT" /\ used' = NoData) => OpKeyLen' = 0
      BY <2>0 DEF OpKeyLen, NoData
    <2>3. CASE CheckArgs(a) # "NO_ERROR" /\ Finish(CheckArgs(a), NoData)
      <3>1. ~Acceptable(a, OpKeyLen') /\ rc' # "NO_ERROR"
        BY <2>0, <2>3, ArgsChecked DEF Finish
      <3>2. RightResult(rc', a, OpKeyLen')
        BY <3>1 DEF RightResult
      <3> QED
        BY <2>0, <3>2 DEF ResultInv
    <2>4. CASE /\ CheckArgs(a) = "NO_ERROR" /\ a.key_type = "PLAINTEXT"
               /\ \E r \in Crypt(a, a.key) : Finish(r, NoData)
      <3>1. rc' \in Crypt(a, a.key)
        BY <2>4 DEF Finish
      <3>2. RightResult(rc', a, a.key)
        BY <2>0, <2>4, <3>1, CryptRight
      <3> QED
        BY <2>0, <2>1, <2>4, <3>2 DEF ResultInv
    <2>5. CASE /\ CheckArgs(a) = "NO_ERROR" /\ a.key_type = "OPAQUE_HANDLE"
               /\ \/ /\ CheckHandle(a) # "NO_ERROR"
                     /\ Finish(CheckHandle(a), NoData)
                  \/ CheckHandle(a) = "NO_ERROR" /\ Finish("GENERIC", NoData)
      <3>1. rc' # "NO_ERROR" /\ used' = NoData
        BY <2>5 DEF Finish
      <3>2. OpKeyLen' = 0
        BY <2>2, <2>5, <3>1
      <3>3. RightResult(rc', a, 0)
        BY <3>1, NoKeyRight
      <3> QED
        BY <2>0, <3>2, <3>3 DEF ResultInv
    <2> QED
      BY <1>1, <2>3, <2>4, <2>5 DEF OpWithoutSession
  <1>2. ASSUME NEW a \in Operations, NEW c \in Chan, OpOpensSession(a, c)
        PROVE  ResultInv'
    BY <1>2 DEF OpOpensSession, ResultInv
  <1>3. CASE OpAsks
    BY <1>3 DEF OpAsks, ResultInv
  <1>4. CASE OpRefused
    <2>1. /\ phase' = "done" /\ args' = args /\ used' = NoData
          /\ rc' \in {"GENERIC", "IO"} /\ args.key_type = "OPAQUE_HANDLE"
          /\ args \in Operation
      BY <1>0, <1>4 DEF OpRefused, Finish, ResultInv, AesInv
    <2>2. OpKeyLen' = 0
      BY <2>1 DEF OpKeyLen, NoData
    <2>3. RightResult(rc', args, 0)
      BY <2>1, NoKeyRight
    <2> QED
      BY <2>1, <2>2, <2>3 DEF ResultInv
  <1>5. CASE OpGetsReply
    BY <1>5 DEF OpGetsReply, ResultInv
  <1>6. CASE OpCloses(args)
    <2>1. /\ phase' = "done" /\ args' = args
          /\ args.key_type = "OPAQUE_HANDLE" /\ args \in Operation
          /\ CheckArgs(args) = "NO_ERROR" /\ GoodReply(ret)
      BY <1>0, <1>6 DEF OpCloses, Finish, ResultInv, AesInv, KeyInv
    <2>2. CASE ret.status = "NO_ERROR"
      <3>1. PICK r \in Crypt(args, KeyLen[ret.data.slot]) : Finish(r, ret.data)
        BY <1>6, <2>2 DEF OpCloses
      <3>2. ret.data.type = "key"
        BY <2>1, <2>2 DEF GoodReply
      <3>3. OpKeyLen' = KeyLen[ret.data.slot] /\ rc' = r
        BY <2>1, <3>1, <3>2 DEF OpKeyLen, Finish
      <3>4. RightResult(r, args, KeyLen[ret.data.slot])
        BY <2>1, <3>1, CryptRight
      <3> QED
        BY <2>1, <3>3, <3>4 DEF ResultInv
    <2>3. CASE ret.status # "NO_ERROR"
      <3>1. rc' = "IO" /\ used' = NoData
        BY <1>6, <2>3 DEF OpCloses, Finish
      <3>2. OpKeyLen' = 0
        BY <2>1, <3>1 DEF OpKeyLen, NoData
      <3>3. RightResult(rc', args, 0)
        BY <2>1, <3>1, NoKeyRight
      <3> QED
        BY <2>1, <3>2, <3>3 DEF ResultInv
    <2> QED
      BY <2>2, <2>3
  <1>7. CASE OpReturns
    BY <1>7 DEF OpReturns, ResultInv
  <1>8. CASE HwKeyStep
    BY <1>8 DEF HwKeyStep, ResultInv, OpKeyLen
  <1>9. CASE UNCHANGED allVars
    BY <1>9 DEF allVars, aesVars, ResultInv, OpKeyLen
  <1> QED
    BY <1>1, <1>2, <1>3, <1>4, <1>5, <1>6, <1>7, <1>8, <1>9
       DEF AesNext, AesStep

-----------------------------------------------------------------------------
(* Theorems.                                                               *)

\* The three invariants together.
LEMMA AesInvariance == AesSpec => [](Inv /\ AesInv /\ KeyInv)
  <1>1. Init /\ AesInit => Inv /\ AesInv /\ KeyInv
    <2>1. AesInit => KeyInv
      BY DEF AesInit, KeyInv, KeyIsTheHandles
    <2> QED
      BY <2>1, InitInv, AesInitInv
  <1>2. Inv /\ AesInv /\ KeyInv /\ [AesNext]_allVars
            => (Inv /\ AesInv /\ KeyInv)'
    <2>1. Inv /\ AesInv /\ [AesNext]_allVars => Inv' /\ AesInv'
      BY StepIsClients, NextInv, AesNextInv
    <2> QED
      BY <2>1, KeyNextInv
  <1> QED
    BY <1>1, <1>2, PTL DEF AesSpec

\* HwKey's clients do anything in any order, so hwaes is one of them, and what
\* is proved about every behaviour of HwKey holds with hwaes in place.
LEMMA HwKeyWithAes == AesSpec => Spec
  <1>1. AesInv /\ [AesNext]_allVars => [Next]_vars
    BY StepIsClients
  <1> QED
    BY <1>1, AesInvariance, PTL DEF AesSpec, Spec

\* hwaes_aes_op gives back the session it opened on every path, whatever
\* hwkey answers and whenever it closes the channel.
THEOREM SessionsGivenBack == AesSpec => []SessionsReleased
  <1>1. AesInv => SessionsReleased
    BY DEF AesInv
  <1> QED
    BY <1>1, AesInvariance, PTL

\* An operation with an opaque handle is only ever run with the key of a slot
\* that the handle named during the operation and that is meant for hwaes.
THEOREM RightKey == AesSpec => []KeyIsTheHandles
  <1>1. KeyInv => KeyIsTheHandles
    BY DEF KeyInv
  <1> QED
    BY <1>1, AesInvariance, PTL

\* hwkey refuses an operation of hwaes for a reason only: a handle whose owner
\* stays is found, for any number of sessions, slots and tokens and whatever
\* other clients do, and no request that hwaes has sent ends in a hang-up.
THEOREM RefusedForAReason == AesSpec => []RefusalsAreDue
  <1>1. KeyInv => RefusalsAreDue
    BY DEF KeyInv, GoodReply, RefusalsAreDue
  <1> QED
    BY <1>1, AesInvariance, PTL

\* hwaes_aes_op accepts what the reference accepts: a success means that
\* padding, lengths, mode, IV, key size and tags were as they must be and that
\* the tag was right, and an operation refused for its arguments has one that
\* the reference does not take, whichever of the scattered checks noticed.
THEOREM ResultsRight == AesSpec => []ResultMatchesReference
  <1>1. Init /\ AesInit => ResultInv
    BY DEF AesInit, ResultInv
  <1>2. ResultInv => ResultMatchesReference
    BY DEF ResultInv, RightResult, ResultMatchesReference
  <1> QED
    BY <1>1, <1>2, AesInvariance, ResultNextInv, PTL DEF AesSpec

\* A handle that hwaes redeems still lasts until its own session ends, and no
\* longer: hwaes and its races do not change that.
THEOREM HandlesUnderHwAes == AesSpec => HandleEndsWithItsSession
  BY HwKeyWithAes, HandleLifetime

\* In the composition, too, hwkey implements the table of issued handles: what
\* hwaes redeems, for which readers and how long, is what OpaqueHandles says.
THEOREM TableUnderHwAes == AesSpec => ImplementsOpaqueHandles
  BY HwKeyWithAes, Refinement
=============================================================================
