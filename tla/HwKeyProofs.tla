---------------------------- MODULE HwKeyProofs ----------------------------
(***************************************************************************)
(* Safety of the hwkey service for every number of sessions, every table   *)
(* of key slots, every set of requests and every random source.            *)
(***************************************************************************)
EXTENDS HwKey, TLAPS, SequenceTheorems

-----------------------------------------------------------------------------
(* What list_delete leaves of a list.                                      *)

\* g lists exactly the entries of h at the indices K, each once.
ListsExactly(g, h, K) ==
    \E f \in [DOMAIN g -> K] :
        /\ \A j \in DOMAIN g : g[j] = h[f[j]]
        /\ \A i, j \in DOMAIN g : f[i] = f[j] => i = j
        /\ \A k \in K : \E j \in DOMAIN g : f[j] = k

\* Keeping(h, K) enumerates the entries at K.
LEMMA KeepingEnumerates ==
    ASSUME NEW S, NEW h \in Seq(S), NEW K \in SUBSET DOMAIN h,
           NEW g \in Keeping(h, K)
    PROVE  g \in Seq(S) /\ ListsExactly(g, h, K)
  <1>1. PICK f \in Enumerations(K, Len(h)) : g = [i \in DOMAIN f |-> h[f[i]]]
    BY DEF Keeping
  <1>2. PICK m \in 0..Len(h) : f \in [1..m -> K]
    BY DEF Enumerations
  <1>3. m \in Nat /\ DOMAIN f = 1..m /\ DOMAIN g = 1..m
    BY <1>1, <1>2
  <1>4. \A i \in 1..m : f[i] \in K /\ f[i] \in 1..Len(h) /\ h[f[i]] \in S
    BY <1>2, <1>3
  <1>5. g \in Seq(S)
    <2>1. g \in [1..m -> S]
      BY <1>1, <1>3, <1>4
    <2> QED
      BY <2>1, <1>3, IsASeq
  <1>6. \A i, j \in DOMAIN g : f[i] = f[j] => i = j
    <2> SUFFICES ASSUME NEW i \in 1..m, NEW j \in 1..m, i # j
                 PROVE  f[i] # f[j]
      BY <1>3
    <2>1. \A a, b \in 1..m : a < b => f[a] < f[b]
      BY <1>1, <1>3 DEF Enumerations
    <2>2. i < j \/ j < i
      BY <1>3
    <2>3. f[i] \in Nat /\ f[j] \in Nat
      BY <1>4
    <2> QED
      BY <2>1, <2>2, <2>3
  <1>7. \A k \in K : \E j \in DOMAIN g : f[j] = k
    BY <1>1, <1>3 DEF Enumerations
  <1>8. f \in [DOMAIN g -> K]
    BY <1>2, <1>3
  <1> QED
    BY <1>1, <1>3, <1>5, <1>6, <1>7, <1>8 DEF ListsExactly

-----------------------------------------------------------------------------
(* What a request does to the handle list and what it sends.               *)

\* HandleListWellFormed of a list, and its slots are opaque slots.
WellFormed(h) ==
    /\ \A i, j \in DOMAIN h : h[i].slot = h[j].slot => i = j
    /\ \A i \in DOMAIN h : h[i].token # EmptyToken
    /\ \A i \in DOMAIN h : KeySlots[h[i].slot].handler = "get_key_handle"

\* The list h is kept and at most extended by handles for slots of u that
\* belong to c.
Extends(g, h, c, u) ==
    /\ g \in Seq(Entry)
    /\ \A i \in DOMAIN g :
          \/ \E j \in DOMAIN h : g[i] = h[j]
          \/ g[i].owner = c /\ KeySlots[g[i].slot].uuid = u
    /\ \A j \in DOMAIN h : \E i \in DOMAIN g : g[i] = h[j]
    /\ WellFormed(g)

\* The payload d may be sent to a client u.
MaySend(d, u) ==
    /\ d.type = "key" => MayRead(u, d.slot)
    /\ d.type = "derived" => d.uuid = u
    /\ d.type = "token" => \E s \in Slot :
          KeySlots[s].handler = "get_key_handle" /\ KeySlots[s].uuid = u

\* A token in the payload is in the list, owned by c.
TokenListed(d, g, c) ==
    d.type = "token" =>
        \E i \in DOMAIN g : g[i].owner = c /\ g[i].token = d.token

Good(o, h, c, u) ==
    /\ Extends(o.handles, h, c, u)
    /\ o.status \in Status /\ o.data \in Data
    /\ MaySend(o.data, u) /\ TokenListed(o.data, o.handles, c)

\* An outcome that leaves the list alone and sends no token.
LEMMA UnchangedListIsGood ==
    ASSUME NEW h \in Seq(Entry), WellFormed(h), NEW c \in Chan, NEW u \in Uuid,
           NEW s \in Status, NEW d \in Data, d.type # "token", MaySend(d, u)
    PROVE  Good(Outcome(h, s, d), h, c, u)
  <1>1. Extends(h, h, c, u)
    BY DEF Extends
  <1>2. TokenListed(d, h, c)
    BY DEF TokenListed
  <1> QED
    BY <1>1, <1>2 DEF Good, Outcome

\* A reply without data may be sent to anyone.
LEMMA NoDataFacts ==
    /\ NoData \in Data /\ NoData.type # "token"
    /\ \A u \in Uuid : MaySend(NoData, u)
  BY DEF NoData, Data, MaySend

\* A refusal that leaves the list alone.
LEMMA RefusalIsGood ==
    ASSUME NEW h \in Seq(Entry), WellFormed(h), NEW c \in Chan, NEW u \in Uuid,
           NEW s \in Status
    PROVE  Good(Outcome(h, s, NoData), h, c, u)
  BY NoDataFacts, UnchangedListIsGood

\* The types of a slot of the installed table.
LEMMA SlotFacts ==
    ASSUME NEW s \in Slot
    PROVE  /\ KeySlots[s].errors \subseteq Status
           /\ KeySlots[s].uuid \in Uuid
           /\ KeySlots[s].allowed \subseteq Uuid
           /\ s \in Nat
  <1>1. KeySlots[s] \in KeySlotRecord /\ s \in Nat
    BY KeySlotsAssumption DEF Slot
  <1> QED
    BY <1>1 DEF KeySlotRecord, Status

\* The types of an entry of opaque_handles.
LEMMA EntryFacts ==
    ASSUME NEW h \in Seq(Entry), NEW i \in DOMAIN h
    PROVE  /\ h[i] \in Entry /\ h[i].slot \in Slot /\ h[i].owner \in Chan
           /\ i \in 1..Len(h)
  <1>1. h[i] \in Entry /\ i \in 1..Len(h)
    OBVIOUS
  <1> QED
    BY <1>1 DEF Entry

\* The key of a slot the client may read, or an error of its handler.
LEMMA RetrieveIsGood ==
    ASSUME NEW h \in Seq(Entry), WellFormed(h), NEW c \in Chan, NEW u \in Uuid,
           NEW s \in Slot, MayRead(u, s), NEW o \in Retrieve(h, s)
    PROVE  Good(o, h, c, u)
  <1>1. CASE o = Outcome(h, "NO_ERROR", KeyData(s))
    <2>1. KeyData(s) \in Data /\ KeyData(s).type = "key" /\ KeyData(s).slot = s
      BY DEF KeyData, Data
    <2>2. MaySend(KeyData(s), u)
      BY <2>1 DEF MaySend
    <2>3. "NO_ERROR" \in Status
      BY DEF Status
    <2> QED
      BY <1>1, <2>1, <2>2, <2>3, UnchangedListIsGood
  <1>2. CASE \E e \in KeySlots[s].errors : o = Outcome(h, e, NoData)
    BY <1>2, SlotFacts, RefusalIsGood
  <1> QED
    BY <1>1, <1>2 DEF Retrieve

\* get_opaque_key sends only the key of a slot that names the client.
LEMMA OpaqueKeyIsGood ==
    ASSUME NEW h \in Seq(Entry), WellFormed(h), NEW c \in Chan, NEW u \in Uuid,
           NEW id, NEW o \in get_opaque_key(h, u, id)
    PROVE  Good(o, h, c, u)
  <1> DEFINE match == {i \in DOMAIN h : /\ u \in KeySlots[h[i].slot].allowed
                                        /\ h[i].token = id}
  <1>1. CASE match = {}
    <2>1. o = Outcome(h, "NOT_FOUND", NoData)
      BY <1>1 DEF get_opaque_key
    <2>2. "NOT_FOUND" \in Status
      BY DEF Status
    <2> QED
      BY <2>1, <2>2, RefusalIsGood
  <1>2. CASE match # {}
    <2>1. PICK i \in FirstOf(match) : o \in Retrieve(h, h[i].slot)
      BY <1>2 DEF get_opaque_key
    <2>2. i \in DOMAIN h /\ u \in KeySlots[h[i].slot].allowed
      BY <2>1 DEF FirstOf
    <2>3. h[i].slot \in Slot
      BY <2>2, EntryFacts
    <2>4. MayRead(u, h[i].slot)
      BY <2>2 DEF MayRead, WellFormed
    <2> QED
      BY <2>1, <2>3, <2>4, RetrieveIsGood
  <1> QED
    BY <1>1, <1>2

\* get_key_handle for a slot that has a handle already.
LEMMA SecondHandleIsGood ==
    ASSUME NEW h \in Seq(Entry), WellFormed(h), NEW c \in Chan, NEW u \in Uuid,
           NEW s \in Slot, EntriesFor(h, s) # {}, NEW o \in get_key_handle(h, s)
    PROVE  Good(o, h, c, u)
  <1>1. PICK i \in FirstOf(EntriesFor(h, s)) :
            o \in IF h[i].token # EmptyToken
                  THEN {Outcome(h, "ALREADY_EXISTS", NoData)}
                  ELSE {Outcome([h EXCEPT ![i].token = t], "NO_ERROR",
                                TokenData(t)) : t \in Token}
                       \cup {Outcome(g, "RNG_FAILED", NoData)
                              : g \in Keeping(h, DOMAIN h \ {i})}
    BY DEF get_key_handle
  <1>2. h[i].token # EmptyToken
    BY DEF FirstOf, EntriesFor, WellFormed
  <1>3. o = Outcome(h, "ALREADY_EXISTS", NoData)
    BY <1>1, <1>2
  <1> QED
    BY <1>3, RefusalIsGood DEF Status

\* g is h with the entry e added at its end.
Added(g, h, e) ==
    /\ DOMAIN g = 1..(Len(h) + 1) /\ g[Len(h) + 1] = e
    /\ \A i \in DOMAIN h : g[i] = h[i]

\* The lists g and h have the same entries.
SameEntries(g, h) ==
    /\ \A i \in DOMAIN g : \E j \in DOMAIN h : g[i] = h[j]
    /\ \A j \in DOMAIN h : \E i \in DOMAIN g : g[i] = h[j]

\* get_key_handle on the entry that insert_handle_node has just added: either
\* it gets a token, or it is deleted and the list is what it was.
LEMMA FirstHandleOutcomes ==
    ASSUME NEW h \in Seq(Entry), WellFormed(h), NEW c \in Chan, NEW s \in Slot,
           EntriesFor(h, s) = {},
           NEW o \in get_key_handle(insert_handle_node(h, c, s), s)
    PROVE  \/ \E g \in Seq(Entry), t \in Token :
                 /\ o = Outcome(g, "NO_ERROR", TokenData(t))
                 /\ Added(g, h, [slot |-> s, owner |-> c, token |-> t])
           \/ \E g \in Seq(Entry) :
                 /\ o = Outcome(g, "RNG_FAILED", NoData)
                 /\ SameEntries(g, h) /\ WellFormed(g)
  <1> DEFINE e == [slot |-> s, owner |-> c, token |-> EmptyToken]
             n == Len(h) + 1
             h1 == Append(h, e)
  <1>1. insert_handle_node(h, c, s) = h1
    BY DEF insert_handle_node
  <1>2. e \in Entry
    BY DEF Entry
  <1>3. /\ h1 \in Seq(Entry) /\ DOMAIN h1 = 1..n /\ Len(h1) = n
        /\ DOMAIN h = 1..Len(h) /\ Len(h) \in Nat
        /\ h1[n] = e /\ \A i \in DOMAIN h : h1[i] = h[i]
    BY <1>2, AppendProperties
  <1>4. EntriesFor(h1, s) = {n}
    <2>1. \A i \in DOMAIN h : h1[i].slot # s
      BY <1>3 DEF EntriesFor
    <2>2. h1[n].slot = s
      BY <1>3
    <2>3. DOMAIN h1 = DOMAIN h \cup {n}
      BY <1>3
    <2> QED
      BY <2>1, <2>2, <2>3 DEF EntriesFor
  <1>5. FirstOf(EntriesFor(h1, s)) = {n}
    BY <1>3, <1>4 DEF FirstOf
  <1>6. \/ \E t \in Token : o = Outcome([h1 EXCEPT ![n].token = t], "NO_ERROR",
                                       TokenData(t))
        \/ \E g \in Keeping(h1, DOMAIN h1 \ {n}) :
                o = Outcome(g, "RNG_FAILED", NoData)
    <2> HIDE DEF h1, n
    <2>1. h1[n].token = EmptyToken
      BY <1>3
    <2>2. o \in get_key_handle(h1, s)
      BY <1>1
    <2>3. PICK i \in FirstOf(EntriesFor(h1, s)) :
              o \in IF h1[i].token # EmptyToken
                    THEN {Outcome(h1, "ALREADY_EXISTS", NoData)}
                    ELSE {Outcome([h1 EXCEPT ![i].token = t], "NO_ERROR",
                                  TokenData(t)) : t \in Token}
                         \cup {Outcome(g, "RNG_FAILED", NoData)
                                : g \in Keeping(h1, DOMAIN h1 \ {i})}
      BY <2>2 DEF get_key_handle
    <2>4. i = n
      BY <1>5, <2>3
    <2> QED
      BY <2>1, <2>3, <2>4
  <1>7. CASE \E t \in Token : o = Outcome([h1 EXCEPT ![n].token = t],
                                        "NO_ERROR", TokenData(t))
    <2>1. PICK t \in Token : o = Outcome([h1 EXCEPT ![n].token = t],
                                        "NO_ERROR", TokenData(t))
      BY <1>7
    <2> DEFINE g == [h1 EXCEPT ![n].token = t]
               e1 == [slot |-> s, owner |-> c, token |-> t]
    <2>2. /\ DOMAIN g = 1..n /\ g[n] = e1
          /\ \A i \in DOMAIN h : g[i] = h[i]
      <3>1. n \in DOMAIN h1 /\ \A i \in DOMAIN h : i \in DOMAIN h1 /\ i # n
        BY <1>3
      <3> HIDE DEF h1, n
      <3>2. DOMAIN g = DOMAIN h1 /\ g[n] = [h1[n] EXCEPT !.token = t]
        BY <3>1
      <3>3. \A i \in DOMAIN h : g[i] = h1[i]
        BY <3>1
      <3>4. [e EXCEPT !.token = t] = e1
        OBVIOUS
      <3> QED
        BY <1>3, <3>2, <3>3, <3>4
    <2>3. e1 \in Entry /\ e1.slot = s /\ e1.owner = c /\ e1.token = t
      BY DEF Entry
    <2>4. \A i \in DOMAIN g : i = n \/ (i # n /\ i \in DOMAIN h)
      BY <1>3, <2>2
    <2>5. n \in DOMAIN g /\ \A i \in DOMAIN h : i \in DOMAIN g
      BY <1>3, <2>2
    <2> HIDE DEF g, e1, n, h1
    <2>6. g \in Seq(Entry)
      <3>1. \A i \in 1..n : g[i] \in Entry
        BY <2>2, <2>3, <2>4, EntryFacts
      <3>2. n \in Nat
        BY <1>3 DEF n
      <3>3. g = [i \in 1..n |-> g[i]]
        BY <2>2 DEF g, h1
      <3>4. g \in [1..n -> Entry]
        BY <3>1, <3>3
      <3> QED
        BY <3>2, <3>4, IsASeq
    <2>7. o = Outcome(g, "NO_ERROR", TokenData(t))
      BY <2>1 DEF g
    <2> QED
      BY <2>2, <2>6, <2>7 DEF Added, n, e1
  <1>8. CASE \E g \in Keeping(h1, DOMAIN h1 \ {n}) :
                 o = Outcome(g, "RNG_FAILED", NoData)
    <2>1. PICK g \in Keeping(h1, DOMAIN h1 \ {n}) :
                  o = Outcome(g, "RNG_FAILED", NoData)
      BY <1>8
    <2>2. DOMAIN h1 \ {n} = DOMAIN h /\ DOMAIN h \in SUBSET DOMAIN h1
      BY <1>3
    <2> HIDE DEF h1, n
    <2>3. g \in Keeping(h1, DOMAIN h)
      BY <2>1, <2>2
    <2>4. g \in Seq(Entry) /\ ListsExactly(g, h1, DOMAIN h)
      BY <1>3, <2>2, <2>3, KeepingEnumerates
    <2>5. PICK f \in [DOMAIN g -> DOMAIN h] :
               /\ \A j \in DOMAIN g : g[j] = h1[f[j]]
               /\ \A i, j \in DOMAIN g : f[i] = f[j] => i = j
               /\ \A k \in DOMAIN h : \E j \in DOMAIN g : f[j] = k
      BY <2>4 DEF ListsExactly
    <2>6. \A j \in DOMAIN g : g[j] = h[f[j]] /\ f[j] \in DOMAIN h
      BY <1>3, <2>5
    <2>7. WellFormed(g)
      BY <2>6, <2>5 DEF WellFormed
    <2>8. SameEntries(g, h)
      BY <2>5, <2>6 DEF SameEntries
    <2> QED
      BY <2>1, <2>4, <2>7, <2>8
  <1> QED
    BY <1>6, <1>7, <1>8

\* get_key_handle for a slot without an entry: one more entry or the list as it
\* was, and the token goes to the owner of the slot.
LEMMA FirstHandleIsGood ==
    ASSUME NEW h \in Seq(Entry), WellFormed(h), NEW c \in Chan,
           NEW s \in Slot, KeySlots[s].handler = "get_key_handle",
           EntriesFor(h, s) = {},
           NEW o \in get_key_handle(insert_handle_node(h, c, s), s)
    PROVE  Good(o, h, c, KeySlots[s].uuid)
  <1> DEFINE u == KeySlots[s].uuid
             n == Len(h) + 1
  <1>1. ASSUME NEW g \in Seq(Entry), NEW t \in Token,
               o = Outcome(g, "NO_ERROR", TokenData(t)),
               Added(g, h, [slot |-> s, owner |-> c, token |-> t])
        PROVE  Good(o, h, c, u)
    <2> DEFINE e1 == [slot |-> s, owner |-> c, token |-> t]
    <2>1. DOMAIN g = 1..n /\ g[n] = e1 /\ \A i \in DOMAIN h : g[i] = h[i]
      BY <1>1 DEF Added
    <2>2. e1.slot = s /\ e1.owner = c /\ e1.token = t
      OBVIOUS
    <2>3. Len(h) \in Nat /\ DOMAIN h = 1..Len(h)
      OBVIOUS
    <2>4. \A i \in DOMAIN g : i = n \/ (i # n /\ i \in DOMAIN h)
      BY <2>1, <2>3
    <2>5. n \in DOMAIN g /\ \A i \in DOMAIN h : i \in DOMAIN g
      BY <2>1, <2>3
    <2> HIDE DEF e1, n
    <2>6. \A i \in DOMAIN h : h[i].slot # s
      BY DEF EntriesFor
    <2>7. t # EmptyToken
      BY TokenAssumption
    <2>8. WellFormed(g)
      <3>1. ASSUME NEW i \in DOMAIN g, NEW j \in DOMAIN g,
                   g[i].slot = g[j].slot
            PROVE  i = j
        BY <3>1, <2>1, <2>2, <2>4, <2>6 DEF WellFormed
      <3>2. ASSUME NEW i \in DOMAIN g
            PROVE  /\ g[i].token # EmptyToken
                   /\ KeySlots[g[i].slot].handler = "get_key_handle"
        BY <2>1, <2>2, <2>4, <2>7 DEF WellFormed
      <3> QED
        BY <3>1, <3>2 DEF WellFormed
    <2>9. Extends(g, h, c, u)
      BY <2>1, <2>2, <2>4, <2>5, <2>8 DEF Extends
    <2>10. /\ TokenData(t) \in Data /\ TokenData(t).type = "token"
           /\ TokenData(t).token = t
      BY DEF TokenData, Data
    <2>11. MaySend(TokenData(t), u)
      BY <2>10 DEF MaySend
    <2>12. TokenListed(TokenData(t), g, c)
      BY <2>1, <2>2, <2>5, <2>10 DEF TokenListed
    <2> QED
      BY <1>1, <2>9, <2>10, <2>11, <2>12 DEF Good, Outcome, Status
  <1>2. ASSUME NEW g \in Seq(Entry), o = Outcome(g, "RNG_FAILED", NoData),
               SameEntries(g, h), WellFormed(g)
        PROVE  Good(o, h, c, u)
    <2>1. Extends(g, h, c, u)
      BY <1>2 DEF Extends, SameEntries
    <2>2. u \in Uuid
      BY SlotFacts
    <2>3. TokenListed(NoData, g, c)
      BY NoDataFacts DEF TokenListed
    <2> QED
      BY <1>2, <2>1, <2>2, <2>3, NoDataFacts DEF Good, Outcome, Status
  <1>3. \/ \E g \in Seq(Entry), t \in Token :
              /\ o = Outcome(g, "NO_ERROR", TokenData(t))
              /\ Added(g, h, [slot |-> s, owner |-> c, token |-> t])
        \/ \E g \in Seq(Entry) :
              /\ o = Outcome(g, "RNG_FAILED", NoData)
              /\ SameEntries(g, h) /\ WellFormed(g)
    BY FirstHandleOutcomes
  <1> QED
    BY <1>1, <1>2, <1>3

\* The first slot that matches a name runs for the client that owns it.
LEMMA SlotIsGood ==
    ASSUME NEW h \in Seq(Entry), WellFormed(h), NEW c \in Chan, NEW s \in Slot,
           NEW o \in RunSlot(h, c, s)
    PROVE  Good(o, h, c, KeySlots[s].uuid)
  <1>1. KeySlots[s].uuid \in Uuid
    BY SlotFacts
  <1>2. CASE KeySlots[s].handler # "get_key_handle"
    <2>1. o \in Retrieve(h, s)
      BY <1>2 DEF RunSlot
    <2>2. MayRead(KeySlots[s].uuid, s)
      BY <1>2 DEF MayRead
    <2> QED
      BY <1>1, <2>1, <2>2, RetrieveIsGood
  <1>3. CASE KeySlots[s].handler = "get_key_handle" /\ EntriesFor(h, s) # {}
    <2>1. o \in get_key_handle(h, s)
      BY <1>3 DEF RunSlot, insert_handle_node_fails, insert_handle_node
    <2> QED
      BY <1>1, <1>3, <2>1, SecondHandleIsGood
  <1>4. CASE KeySlots[s].handler = "get_key_handle" /\ EntriesFor(h, s) = {}
    <2>1. \/ o = Outcome(h, "GENERIC", NoData)
          \/ o \in get_key_handle(insert_handle_node(h, c, s), s)
      BY <1>4 DEF RunSlot, insert_handle_node_fails
    <2>2. "GENERIC" \in Status
      BY DEF Status
    <2> QED
      BY <1>1, <1>4, <2>1, <2>2, RefusalIsGood, FirstHandleIsGood
  <1> QED
    BY <1>2, <1>3, <1>4

\* hwkey_handle_derive_key_cmd sends only keys bound to the client.
LEMMA DeriveIsGood ==
    ASSUME NEW h \in Seq(Entry), WellFormed(h), NEW c \in Chan, NEW u \in Uuid,
           NEW kdf, NEW ikm, NEW o \in handle_derive_key(h, u, kdf, ikm)
    PROVE  Good(o, h, c, u)
  <1>1. CASE o = Outcome(h, "NO_ERROR", DerivedData(u))
    <2>1. /\ DerivedData(u) \in Data /\ DerivedData(u).type = "derived"
          /\ DerivedData(u).uuid = u
      BY DEF DerivedData, Data
    <2>2. MaySend(DerivedData(u), u)
      BY <2>1 DEF MaySend
    <2>3. "NO_ERROR" \in Status
      BY DEF Status
    <2> QED
      BY <1>1, <2>1, <2>2, <2>3, UnchangedListIsGood
  <1>2. CASE \E s \in Status : o = Outcome(h, s, NoData)
    BY <1>2, RefusalIsGood
  <1>3. {"NOT_IMPLEMENTED", "BAD_LEN", "GENERIC"} \subseteq Status
    BY DEF Status
  <1> QED
    BY <1>1, <1>2, <1>3 DEF handle_derive_key, derive_key_v1

\* Every answer hwkey_chan_handle_msg can give.
LEMMA RequestIsGood ==
    ASSUME NEW h \in Seq(Entry), WellFormed(h), NEW c \in Chan, NEW u \in Uuid,
           NEW r, NEW o \in HandleRequest(h, c, u, r)
    PROVE  Good(o, h, c, u)
  <1>1. CASE r.cmd = "GET_KEYSLOT"
    <2>1. o \in handle_slots(h, c, u, r.id)
      BY <1>1 DEF HandleRequest
    <2>2. CASE MatchingSlots(u, r.id) = {}
      BY <2>1, <2>2, OpaqueKeyIsGood DEF handle_slots
    <2>3. CASE MatchingSlots(u, r.id) # {}
      <3>1. PICK s \in FirstOf(MatchingSlots(u, r.id)) : o \in RunSlot(h, c, s)
        BY <2>1, <2>3 DEF handle_slots
      <3>2. s \in Slot /\ KeySlots[s].uuid = u
        BY <3>1 DEF FirstOf, MatchingSlots
      <3> QED
        BY <3>1, <3>2, SlotIsGood
    <2> QED
      BY <2>2, <2>3
  <1>2. CASE r.cmd = "DERIVE"
    <2>1. o \in handle_derive_key(h, u, r.kdf, r.ikm)
      BY <1>2 DEF HandleRequest
    <2> QED
      BY <2>1, DeriveIsGood
  <1>3. CASE r.cmd # "GET_KEYSLOT" /\ r.cmd # "DERIVE"
    <2>1. o = Outcome(h, "NOT_IMPLEMENTED", NoData)
      BY <1>3 DEF HandleRequest
    <2>2. "NOT_IMPLEMENTED" \in Status
      BY DEF Status
    <2> QED
      BY <2>1, <2>2, RefusalIsGood
  <1> QED
    BY <1>1, <1>2, <1>3

-----------------------------------------------------------------------------
(* The inductive invariant.  HandleListWellFormed alone is not inductive:  *)
(* that a slot in the list is an opaque slot is what keeps get_opaque_key  *)
(* from sending the key of another kind of slot, and that an entry's owner *)
(* has a session is what keeps a new session from starting with handles.   *)

Inv ==
    /\ TypeOK
    /\ OnlyClientsServed
    /\ WellFormed(opaque_handles)
    /\ HandlesHaveLiveOwners
    /\ TokensInFlightAreLive
    /\ KeysOnlyToAuthorised

\* KeysOnlyToAuthorised and TokensInFlightAreLive, one reply at a time.
LEMMA RepliesFacts ==
    /\ KeysOnlyToAuthorised <=>
          \A c \in Chan : \A k \in DOMAIN outq[c] :
              MaySend(outq[c][k].data, uuid[c])
    /\ TokensInFlightAreLive <=>
          \A c \in Chan : st[c] = "open" =>
              \A k \in DOMAIN outq[c] :
                  TokenListed(outq[c][k].data, opaque_handles, c)
  BY DEF KeysOnlyToAuthorised, TokensInFlightAreLive, MaySend, TokenListed

\* A step that opens or closes no session, adds no reply and leaves the list
\* alone.
LEMMA QuietStep ==
    ASSUME Inv, TypeOK', OnlyClientsServed',
           opaque_handles' = opaque_handles,
           \A c \in Chan : /\ st[c] = "open" <=> st'[c] = "open"
                           /\ outq'[c] # <<>> => uuid'[c] = uuid[c]
                           /\ st[c] = "open" => uuid'[c] = uuid[c]
                           /\ \A k \in DOMAIN outq'[c] :
                                \E j \in DOMAIN outq[c] : outq'[c][k] = outq[c][j]
    PROVE  Inv'
  <1>1. WellFormed(opaque_handles)'
    BY DEF Inv, WellFormed
  <1>2. HandlesHaveLiveOwners'
    <2> SUFFICES ASSUME NEW i \in DOMAIN opaque_handles
                 PROVE  LET e == opaque_handles[i]
                        IN  st'[e.owner] = "open" /\ uuid'[e.owner] = KeySlots[e.slot].uuid
      BY DEF HandlesHaveLiveOwners
    <2>1. opaque_handles[i].owner \in Chan
      BY EntryFacts DEF Inv, TypeOK
    <2> QED
      BY <2>1 DEF Inv, HandlesHaveLiveOwners
  <1>3. \A c \in Chan : \A k \in DOMAIN outq'[c] : outq'[c] # <<>>
    BY DEF TypeOK
  <1>4. KeysOnlyToAuthorised'
    <2>1. \A c \in Chan : \A k \in DOMAIN outq[c] :
              MaySend(outq[c][k].data, uuid[c])
      BY RepliesFacts DEF Inv
    <2>2. \A c \in Chan : \A k \in DOMAIN outq'[c] :
              MaySend(outq'[c][k].data, uuid'[c])
      BY <1>3, <2>1
    <2> QED
      BY <2>2 DEF KeysOnlyToAuthorised, MaySend
  <1>5. TokensInFlightAreLive'
    BY DEF Inv, TokensInFlightAreLive
  <1> QED
    BY <1>1, <1>2, <1>4, <1>5 DEF Inv

\* What hwkey_ctx_close leaves of a handle list.
LEMMA ClosedList ==
    ASSUME NEW h \in Seq(Entry), WellFormed(h), NEW c \in Chan,
           NEW g \in Keeping(h, {i \in DOMAIN h : h[i].owner # c})
    PROVE  /\ g \in Seq(Entry) /\ WellFormed(g)
           /\ \A j \in DOMAIN g :
                 g[j].owner # c /\ \E i \in DOMAIN h : g[j] = h[i]
           /\ \A i \in DOMAIN h :
                 h[i].owner # c => \E j \in DOMAIN g : g[j] = h[i]
  <1> DEFINE K == {i \in DOMAIN h : h[i].owner # c}
  <1>1. K \in SUBSET DOMAIN h
    OBVIOUS
  <1>2. g \in Seq(Entry) /\ ListsExactly(g, h, K)
    BY <1>1, KeepingEnumerates
  <1>3. PICK f \in [DOMAIN g -> K] :
            /\ \A j \in DOMAIN g : g[j] = h[f[j]]
            /\ \A i, j \in DOMAIN g : f[i] = f[j] => i = j
            /\ \A k \in K : \E j \in DOMAIN g : f[j] = k
    BY <1>2 DEF ListsExactly
  <1>4. \A j \in DOMAIN g : f[j] \in DOMAIN h /\ h[f[j]].owner # c
    BY <1>3
  <1>5. WellFormed(g)
    BY <1>3, <1>4 DEF WellFormed
  <1>6. \A i \in DOMAIN h : h[i].owner # c => \E j \in DOMAIN g : g[j] = h[i]
    BY <1>3
  <1> QED
    BY <1>2, <1>3, <1>4, <1>5, <1>6

\* The channel's part of a close: c has no session any more, the other
\* channels are as they were, and c keeps its unread replies or loses them.
LEMMA ClosedChannel ==
    ASSUME TypeOK, NEW c \in Chan, CloseChan(c)
    PROVE  /\ st'[c] \in {"free", "closed"}
           /\ outq'[c] \in {outq[c], <<>>}
           /\ outq'[c] # <<>> => uuid'[c] = uuid[c]
           /\ inq'[c] = <<>> /\ ~hup'[c]
           /\ st'[c] = "free" => outq'[c] = <<>>
           /\ \A d \in Chan \ {c} :
                 /\ st'[d] = st[d] /\ uuid'[d] = uuid[d] /\ hup'[d] = hup[d]
                 /\ inq'[d] = inq[d] /\ outq'[d] = outq[d]
           /\ st' \in [Chan -> {"free", "connecting", "open", "closed"}]
           /\ uuid' \in [Chan -> Uuid \cup {NoUuid}]
           /\ hup' \in [Chan -> BOOLEAN]
           /\ inq' \in [Chan -> Seq(Requests)]
           /\ outq' \in [Chan -> Seq(Reply)]
           /\ await' \in [Chan -> Int]
  <1>0. <<>> \in Seq(Requests) /\ <<>> \in Seq(Reply)
    OBVIOUS
  <1>1. CASE hup[c]
    <2>1. Recycle(c)
      BY <1>1 DEF CloseChan
    <2>2. /\ st'[c] = "free" /\ outq'[c] = <<>> /\ inq'[c] = <<>> /\ ~hup'[c]
          /\ \A d \in Chan \ {c} :
                /\ st'[d] = st[d] /\ uuid'[d] = uuid[d] /\ hup'[d] = hup[d]
                /\ inq'[d] = inq[d] /\ outq'[d] = outq[d]
      BY <2>1 DEF Recycle, TypeOK
    <2>3. /\ st' \in [Chan -> {"free", "connecting", "open", "closed"}]
          /\ uuid' \in [Chan -> Uuid \cup {NoUuid}]
          /\ hup' \in [Chan -> BOOLEAN]
      BY <2>1 DEF Recycle, TypeOK
    <2>4. /\ inq' \in [Chan -> Seq(Requests)]
          /\ outq' \in [Chan -> Seq(Reply)]
          /\ await' \in [Chan -> Int]
      BY <1>0, <2>1 DEF Recycle, TypeOK
    <2> QED
      BY <2>2, <2>3, <2>4
  <1>2. CASE ~hup[c]
    <2>1. /\ st' = [st EXCEPT ![c] = "closed"]
          /\ inq' = [inq EXCEPT ![c] = <<>>]
          /\ UNCHANGED <<uuid, hup, outq, await>>
      BY <1>2 DEF CloseChan
    <2>2. /\ st'[c] = "closed" /\ inq'[c] = <<>>
          /\ \A d \in Chan \ {c} : st'[d] = st[d] /\ inq'[d] = inq[d]
      BY <2>1 DEF TypeOK
    <2>3. /\ st' \in [Chan -> {"free", "connecting", "open", "closed"}]
          /\ inq' \in [Chan -> Seq(Requests)]
      BY <1>0, <2>1 DEF TypeOK
    <2> QED
      BY <1>2, <2>1, <2>2, <2>3 DEF TypeOK
  <1> QED
    BY <1>1, <1>2

\* A channel closes and the list loses exactly the handles of c, after a
\* request of c may have extended it.
LEMMA CloseStep ==
    ASSUME Inv, NEW c \in Chan, NEW u \in Uuid,
           NEW h, Extends(h, opaque_handles, c, u),
           hwkey_ctx_close(c, h)
    PROVE  /\ Inv'
           /\ st'[c] # "open"
           /\ \A i \in DOMAIN opaque_handles :
                 opaque_handles[i].owner # c =>
                     \E j \in DOMAIN opaque_handles' :
                         opaque_handles'[j] = opaque_handles[i]
  <1> DEFINE g == opaque_handles'
  <1>1. TypeOK /\ CloseChan(c)
    BY DEF Inv, hwkey_ctx_close
  <1>2. h \in Seq(Entry) /\ WellFormed(h)
    BY DEF Extends
  <1>3. /\ g \in Seq(Entry) /\ WellFormed(g)
        /\ \A j \in DOMAIN g :
              g[j].owner # c /\ \E i \in DOMAIN h : g[j] = h[i]
        /\ \A i \in DOMAIN h :
              h[i].owner # c => \E j \in DOMAIN g : g[j] = h[i]
    BY <1>2, ClosedList DEF hwkey_ctx_close
  <1>4. \A j \in DOMAIN g : \E i \in DOMAIN opaque_handles :
            g[j] = opaque_handles[i] /\ opaque_handles[i].owner # c
    <2> HIDE DEF g
    <2>1. \A i \in DOMAIN h : h[i].owner # c =>
              \E j \in DOMAIN opaque_handles : h[i] = opaque_handles[j]
      BY DEF Extends
    <2> QED
      BY <1>3, <2>1
  <1>5. \A i \in DOMAIN opaque_handles : opaque_handles[i].owner # c =>
            \E j \in DOMAIN g : g[j] = opaque_handles[i]
    BY <1>3 DEF Extends
  <1>6. TypeOK'
    BY <1>1, <1>3, ClosedChannel DEF TypeOK
  <1>7. OnlyClientsServed'
    <2>1. ASSUME NEW d \in Chan, d # c
          PROVE  /\ st'[d] = "open" => uuid'[d] \in AllowedClients
                 /\ st'[d] = "connecting" => uuid'[d] \in Uuid
                 /\ st'[d] \in {"free", "connecting"} =>
                       inq'[d] = <<>> /\ outq'[d] = <<>> /\ ~hup'[d]
                 /\ st'[d] = "closed" => inq'[d] = <<>> /\ ~hup'[d]
      BY <1>1, <2>1, ClosedChannel DEF Inv, OnlyClientsServed
    <2>2. /\ st'[c] \in {"free", "closed"} /\ inq'[c] = <<>> /\ ~hup'[c]
          /\ st'[c] = "free" => outq'[c] = <<>>
      BY <1>1, ClosedChannel
    <2> QED
      BY <2>1, <2>2 DEF OnlyClientsServed
  <1>8. HandlesHaveLiveOwners'
    <2> SUFFICES ASSUME NEW j \in DOMAIN g
                 PROVE  st'[g[j].owner] = "open"
                            /\ uuid'[g[j].owner] = KeySlots[g[j].slot].uuid
      BY DEF HandlesHaveLiveOwners
    <2>1. PICK i \in DOMAIN opaque_handles :
              g[j] = opaque_handles[i] /\ opaque_handles[i].owner # c
      BY <1>4
    <2>2. opaque_handles[i].owner \in Chan \ {c}
      BY <1>1, <2>1, EntryFacts DEF TypeOK
    <2>3. /\ st[opaque_handles[i].owner] = "open"
          /\ uuid[opaque_handles[i].owner] = KeySlots[opaque_handles[i].slot].uuid
      BY DEF Inv, HandlesHaveLiveOwners
    <2> QED
      BY <1>1, <2>1, <2>2, <2>3, ClosedChannel
  <1>9. KeysOnlyToAuthorised'
    <2>1. \A d \in Chan : \A k \in DOMAIN outq[d] :
              MaySend(outq[d][k].data, uuid[d])
      BY RepliesFacts DEF Inv
    <2>2. \A k \in DOMAIN outq'[c] : /\ outq'[c] = outq[c]
                                     /\ uuid'[c] = uuid[c]
      BY <1>1, ClosedChannel
    <2>3. \A d \in Chan : \A k \in DOMAIN outq'[d] :
              MaySend(outq'[d][k].data, uuid'[d])
      BY <1>1, <2>1, <2>2, ClosedChannel
    <2> QED
      BY <2>3 DEF KeysOnlyToAuthorised, MaySend
  <1>10. TokensInFlightAreLive'
    <2> SUFFICES ASSUME NEW d \in Chan, NEW k \in DOMAIN outq'[d],
                        st'[d] = "open", outq'[d][k].data.type = "token"
                 PROVE  \E j \in DOMAIN g : /\ g[j].owner = d
                                            /\ g[j].token = outq'[d][k].data.token
      BY DEF TokensInFlightAreLive
    <2>1. d # c /\ st[d] = "open" /\ outq'[d] = outq[d]
      BY <1>1, ClosedChannel
    <2>2. PICK i \in DOMAIN opaque_handles :
              /\ opaque_handles[i].owner = d
              /\ opaque_handles[i].token = outq'[d][k].data.token
      BY <2>1 DEF Inv, TokensInFlightAreLive
    <2> QED
      BY <2>1, <2>2, <1>5
  <1>11. WellFormed(opaque_handles)'
    BY <1>3 DEF WellFormed
  <1> QED
    BY <1>1, <1>5, <1>6, <1>7, <1>8, <1>9, <1>10, <1>11, ClosedChannel DEF Inv

\* A reply is queued: the good outcome of the request of an open session.
LEMMA AnswerStep ==
    ASSUME Inv, NEW c \in Chan, st[c] = "open", inq[c] # <<>>,
           NEW o, Good(o, opaque_handles, c, uuid[c]),
           opaque_handles' = o.handles,
           inq' = [inq EXCEPT ![c] = Tail(@)],
           outq' = [outq EXCEPT ![c] =
                       Append(@, [status |-> o.status, data |-> o.data])],
           UNCHANGED <<st, uuid, hup, await>>
    PROVE  /\ Inv'
           /\ \A i \in DOMAIN opaque_handles :
                 \E j \in DOMAIN opaque_handles' :
                     opaque_handles'[j] = opaque_handles[i]
  <1> DEFINE rep == [status |-> o.status, data |-> o.data]
  <1>1. TypeOK
    BY DEF Inv
  <1>2. /\ Extends(opaque_handles', opaque_handles, c, uuid[c])
        /\ rep \in Reply /\ rep.data = o.data
        /\ MaySend(o.data, uuid[c]) /\ TokenListed(o.data, opaque_handles', c)
    BY DEF Good, Reply
  <1> HIDE DEF rep
  <1>3. /\ outq'[c] = Append(outq[c], rep)
        /\ \A d \in Chan \ {c} : outq'[d] = outq[d] /\ inq'[d] = inq[d]
        /\ outq[c] \in Seq(Reply) /\ inq[c] \in Seq(Requests)
    BY <1>1 DEF TypeOK, rep
  <1>4. /\ outq'[c] \in Seq(Reply)
        /\ \A k \in DOMAIN outq'[c] :
              (k \in DOMAIN outq[c] /\ outq'[c][k] = outq[c][k])
                  \/ outq'[c][k] = rep
    BY <1>2, <1>3, AppendProperties
  <1>5. Tail(inq[c]) \in Seq(Requests)
    BY <1>3
  <1>6. TypeOK'
    <2>1. outq' \in [Chan -> Seq(Reply)]
      BY <1>1, <1>3, <1>4 DEF TypeOK, rep
    <2>2. inq' \in [Chan -> Seq(Requests)]
      BY <1>1, <1>5 DEF TypeOK
    <2>3. opaque_handles' \in Seq(Entry)
      BY <1>2 DEF Extends
    <2> QED
      BY <1>1, <2>1, <2>2, <2>3 DEF TypeOK
  <1>7. OnlyClientsServed'
    BY <1>3 DEF Inv, OnlyClientsServed
  <1>8. WellFormed(opaque_handles)'
    BY <1>2 DEF Extends, WellFormed
  <1>9. HandlesHaveLiveOwners'
    <2>1. \A i \in DOMAIN opaque_handles :
              /\ st[opaque_handles[i].owner] = "open"
              /\ uuid[opaque_handles[i].owner]
                     = KeySlots[opaque_handles[i].slot].uuid
      BY DEF Inv, HandlesHaveLiveOwners
    <2>2. \A j \in DOMAIN opaque_handles' :
              /\ st[opaque_handles'[j].owner] = "open"
              /\ uuid[opaque_handles'[j].owner]
                     = KeySlots[opaque_handles'[j].slot].uuid
      BY <1>2, <2>1 DEF Extends
    <2> QED
      BY <2>2 DEF HandlesHaveLiveOwners
  <1>10. KeysOnlyToAuthorised'
    <2>1. \A d \in Chan : \A k \in DOMAIN outq[d] :
              MaySend(outq[d][k].data, uuid[d])
      BY RepliesFacts DEF Inv
    <2>2. \A d \in Chan : \A k \in DOMAIN outq'[d] :
              MaySend(outq'[d][k].data, uuid[d])
      BY <1>2, <1>3, <1>4, <2>1
    <2> QED
      BY <2>2 DEF KeysOnlyToAuthorised, MaySend
  <1>11. \A i \in DOMAIN opaque_handles : \E j \in DOMAIN opaque_handles' :
             opaque_handles'[j] = opaque_handles[i]
    BY <1>2 DEF Extends
  <1>12. TokensInFlightAreLive'
    <2>1. \A d \in Chan : st[d] = "open" => \A k \in DOMAIN outq[d] :
              TokenListed(outq[d][k].data, opaque_handles, d)
      BY RepliesFacts DEF Inv
    <2>2. \A d \in Chan : st[d] = "open" => \A k \in DOMAIN outq[d] :
              TokenListed(outq[d][k].data, opaque_handles', d)
      BY <1>11, <2>1 DEF TokenListed
    <2>3. \A d \in Chan : st[d] = "open" => \A k \in DOMAIN outq'[d] :
              TokenListed(outq'[d][k].data, opaque_handles', d)
      BY <1>2, <1>3, <1>4, <2>2
    <2> QED
      BY <2>3 DEF TokensInFlightAreLive, TokenListed
  <1> QED
    BY <1>6, <1>7, <1>8, <1>9, <1>10, <1>11, <1>12 DEF Inv

\* A handle of opaque_handles is still there after the step, or its session
\* has ended in it: the action of HandleEndsWithItsSession.
HandlesKept ==
    \A i \in DOMAIN opaque_handles :
        \/ \E j \in DOMAIN opaque_handles' :
              opaque_handles'[j] = opaque_handles[i]
        \/ LET c == opaque_handles[i].owner
           IN  st[c] = "open" /\ st'[c] # "open"

\* A step that leaves the list alone keeps the handles.
LEMMA UnchangedListKept ==
    ASSUME opaque_handles' = opaque_handles
    PROVE  HandlesKept
  BY DEF HandlesKept

\* hwkey_ctx_close, in the middle of any handler of c.
LEMMA CloseKeepsInv ==
    ASSUME Inv, NEW c \in Chan, NEW u \in Uuid,
           NEW h, Extends(h, opaque_handles, c, u), hwkey_ctx_close(c, h)
    PROVE  Inv' /\ HandlesKept
  <1>1. /\ Inv' /\ st'[c] # "open"
        /\ \A i \in DOMAIN opaque_handles :
              opaque_handles[i].owner # c =>
                  \E j \in DOMAIN opaque_handles' :
                      opaque_handles'[j] = opaque_handles[i]
    BY CloseStep
  <1>2. \A i \in DOMAIN opaque_handles : st[opaque_handles[i].owner] = "open"
    BY DEF Inv, HandlesHaveLiveOwners
  <1> QED
    BY <1>1, <1>2 DEF HandlesKept

\* A list extends itself.
LEMMA OwnListExtends ==
    ASSUME Inv, NEW c \in Chan, NEW u \in Uuid
    PROVE  Extends(opaque_handles, opaque_handles, c, u)
  BY DEF Inv, TypeOK, Extends

\* hwkey_chan_handle_msg for any message at the head of the queue.
LEMMA MessageKeepsInv ==
    ASSUME Inv, NEW c \in Chan, st[c] = "open", inq[c] # <<>>,
           hwkey_chan_handle_msg(c)
    PROVE  Inv' /\ HandlesKept
  <1> DEFINE r == Head(inq[c])
  <1>1. uuid[c] \in Uuid
    BY UuidAssumption DEF Inv, OnlyClientsServed
  <1>2. opaque_handles \in Seq(Entry) /\ WellFormed(opaque_handles)
    BY DEF Inv, TypeOK
  <1>3. CASE r.cmd = "SHORT"
    <2>1. hwkey_ctx_close(c, opaque_handles)
      BY <1>3 DEF hwkey_chan_handle_msg
    <2> QED
      BY <1>1, <2>1, OwnListExtends, CloseKeepsInv
  <1>4. CASE r.cmd # "SHORT"
    <2>1. PICK o \in HandleRequest(opaque_handles, c, uuid[c], r) :
              IF CanSend(c)
              THEN /\ opaque_handles' = o.handles
                   /\ inq' = [inq EXCEPT ![c] = Tail(@)]
                   /\ outq' = [outq EXCEPT ![c] =
                          Append(@, [status |-> o.status, data |-> o.data])]
                   /\ UNCHANGED <<st, uuid, hup, await>>
              ELSE hwkey_ctx_close(c, o.handles)
      BY <1>4 DEF hwkey_chan_handle_msg
    <2>2. Good(o, opaque_handles, c, uuid[c])
      BY <1>1, <1>2, <2>1, RequestIsGood
    <2>3. CASE CanSend(c)
      BY <2>1, <2>2, <2>3, AnswerStep DEF HandlesKept
    <2>4. CASE ~CanSend(c)
      <3>1. Extends(o.handles, opaque_handles, c, uuid[c])
        BY <2>2 DEF Good
      <3> QED
        BY <1>1, <2>1, <2>4, <3>1, CloseKeepsInv
    <2> QED
      BY <2>3, <2>4
  <1> QED
    BY <1>3, <1>4

\* hwkey_chan_handler for every event it can be called with.
LEMMA ChanHandlerKeepsInv ==
    ASSUME Inv, NEW c \in Chan, NEW event \in SUBSET Pending(c),
           hwkey_chan_handler(c, event)
    PROVE  Inv' /\ HandlesKept
  <1>1. uuid[c] \in Uuid /\ st[c] = "open"
    BY UuidAssumption DEF Inv, OnlyClientsServed, hwkey_chan_handler
  <1>2. CASE "HUP" \in event
    <2>1. hwkey_ctx_close(c, opaque_handles)
      BY <1>2 DEF hwkey_chan_handler
    <2> QED
      BY <1>1, <2>1, OwnListExtends, CloseKeepsInv
  <1>3. CASE "HUP" \notin event
    <2>1. hwkey_chan_handle_msg(c)
      BY <1>3 DEF hwkey_chan_handler
    <2>2. inq[c] # <<>>
      BY <1>3 DEF hwkey_chan_handler, Pending
    <2> QED
      BY <1>1, <2>1, <2>2, MessageKeepsInv
  <1> QED
    BY <1>2, <1>3

\* hwkey_port_handler: a new session starts without handles or replies.
LEMMA PortHandlerKeepsInv ==
    ASSUME Inv, NEW c \in Chan, hwkey_port_handler(c)
    PROVE  Inv' /\ HandlesKept
  <1>1. /\ st[c] = "connecting" /\ uuid[c] \in Uuid /\ TypeOK
        /\ inq[c] = <<>> /\ outq[c] = <<>> /\ ~hup[c]
    BY DEF Inv, OnlyClientsServed, hwkey_port_handler
  <1>2. CASE CloseChan(c) /\ UNCHANGED opaque_handles
    <2>1. TypeOK'
      BY <1>1, <1>2, ClosedChannel DEF TypeOK
    <2>2. /\ st'[c] \in {"free", "closed"}
          /\ outq'[c] = <<>> /\ inq'[c] = <<>> /\ ~hup'[c]
          /\ \A d \in Chan \ {c} :
                 /\ st'[d] = st[d] /\ uuid'[d] = uuid[d] /\ hup'[d] = hup[d]
                 /\ inq'[d] = inq[d] /\ outq'[d] = outq[d]
      BY <1>1, <1>2, ClosedChannel
    <2>3. OnlyClientsServed'
      BY <2>2 DEF Inv, OnlyClientsServed
    <2>4. Inv'
      BY <1>1, <1>2, <2>1, <2>2, <2>3, QuietStep
    <2> QED
      BY <1>2, <2>4, UnchangedListKept
  <1>3. CASE hwkey_ctx_close(c, opaque_handles)
    BY <1>1, <1>3, OwnListExtends, CloseKeepsInv
  <1>4. CASE /\ uuid[c] \in AllowedClients
             /\ st' = [st EXCEPT ![c] = "open"]
             /\ UNCHANGED <<uuid, hup, inq, outq, await, opaque_handles>>
    <2>1. st'[c] = "open" /\ \A d \in Chan \ {c} : st'[d] = st[d]
      BY <1>1, <1>4 DEF TypeOK
    <2>2. TypeOK'
      BY <1>1, <1>4 DEF TypeOK
    <2>3. OnlyClientsServed'
      BY <1>4, <2>1 DEF Inv, OnlyClientsServed
    <2>4. HandlesHaveLiveOwners'
      <3>1. \A i \in DOMAIN opaque_handles :
                opaque_handles[i].owner \in Chan
        BY <1>1, EntryFacts DEF TypeOK
      <3> QED
        BY <1>4, <2>1, <3>1 DEF Inv, HandlesHaveLiveOwners
    <2>5. TokensInFlightAreLive'
      <3>1. \A d \in Chan : \A k \in DOMAIN outq[d] : d # c
        BY <1>1
      <3> QED
        BY <1>4, <2>1, <3>1 DEF Inv, TokensInFlightAreLive
    <2>6. KeysOnlyToAuthorised' /\ WellFormed(opaque_handles)'
      BY <1>4 DEF Inv, KeysOnlyToAuthorised, WellFormed
    <2> QED
      BY <1>4, <2>2, <2>3, <2>4, <2>5, <2>6, UnchangedListKept DEF Inv
  <1> QED
    BY <1>2, <1>3, <1>4 DEF hwkey_port_handler

\* What clients do: connect, send, read and hang up, in any state.
LEMMA ClientKeepsInv ==
    ASSUME Inv, NEW c \in Chan, Client(c)
    PROVE  Inv' /\ HandlesKept
  <1>0. TypeOK /\ OnlyClientsServed
    BY DEF Inv
  <1>1. ASSUME NEW u \in Uuid, ClientConnect(c, u)
        PROVE  Inv'
    <2>1. /\ st[c] = "free" /\ st'[c] = "connecting" /\ uuid'[c] = u
          /\ \A d \in Chan \ {c} : st'[d] = st[d] /\ uuid'[d] = uuid[d]
          /\ UNCHANGED <<hup, inq, outq, await, opaque_handles>>
      BY <1>0, <1>1 DEF ClientConnect, TypeOK
    <2>2. outq[c] = <<>> /\ inq[c] = <<>> /\ ~hup[c]
      BY <1>0, <2>1 DEF OnlyClientsServed
    <2>3. TypeOK'
      BY <1>0, <1>1 DEF ClientConnect, TypeOK
    <2>4. OnlyClientsServed'
      BY <1>0, <2>1, <2>2 DEF OnlyClientsServed
    <2> QED
      BY <2>1, <2>2, <2>3, <2>4, QuietStep
  <1>2. ASSUME NEW r \in Requests, ClientSend(c, r)
        PROVE  Inv'
    <2>1. /\ st[c] = "open"
          /\ \A d \in Chan \ {c} : inq'[d] = inq[d]
          /\ UNCHANGED <<st, uuid, hup, outq, opaque_handles>>
      BY <1>0, <1>2 DEF ClientSend, TypeOK
    <2>2. TypeOK'
      <3>1. inq[c] \in Seq(Requests) /\ await[c] \in Int
        BY <1>0 DEF TypeOK
      <3>2. Append(inq[c], r) \in Seq(Requests) /\ await[c] + 1 \in Int
        BY <3>1
      <3>3. inq' \in [Chan -> Seq(Requests)] /\ await' \in [Chan -> Int]
        BY <1>0, <1>2, <3>2 DEF ClientSend, TypeOK
      <3> QED
        BY <1>0, <2>1, <3>3 DEF TypeOK
    <2>3. OnlyClientsServed'
      BY <1>0, <2>1 DEF OnlyClientsServed
    <2> QED
      BY <2>1, <2>2, <2>3, QuietStep
  <1>3. ASSUME ClientRecv(c)
        PROVE  Inv'
    <2>1. /\ st[c] \in {"open", "closed"} /\ outq[c] # <<>>
          /\ outq[c] \in Seq(Reply) /\ await[c] \in Int
          /\ UNCHANGED <<st, uuid, hup, inq, opaque_handles>>
      BY <1>0, <1>3 DEF ClientRecv, TypeOK
    <2>2. outq'[c] = Tail(outq[c]) /\ \A d \in Chan \ {c} : outq'[d] = outq[d]
      BY <1>0, <1>3 DEF ClientRecv, TypeOK
    <2>3. Tail(outq[c]) \in Seq(Reply) /\ await[c] - 1 \in Int
      BY <2>1
    <2>4. \A k \in DOMAIN Tail(outq[c]) : \E j \in DOMAIN outq[c] :
              Tail(outq[c])[k] = outq[c][j]
      <3> SUFFICES ASSUME NEW k \in DOMAIN Tail(outq[c])
                   PROVE  k + 1 \in DOMAIN outq[c]
                              /\ Tail(outq[c])[k] = outq[c][k + 1]
        OBVIOUS
      <3> QED
        BY <2>1
    <2>5. TypeOK'
      <3>1. outq' \in [Chan -> Seq(Reply)] /\ await' \in [Chan -> Int]
        BY <1>0, <1>3, <2>3 DEF ClientRecv, TypeOK
      <3> QED
        BY <1>0, <2>1, <3>1 DEF TypeOK
    <2>6. OnlyClientsServed'
      BY <1>0, <2>1, <2>2 DEF OnlyClientsServed
    <2>7. \A d \in Chan : \A k \in DOMAIN outq'[d] :
              \E j \in DOMAIN outq[d] : outq'[d][k] = outq[d][j]
      <3>1. \A k \in DOMAIN outq'[c] :
                \E j \in DOMAIN outq[c] : outq'[c][k] = outq[c][j]
        BY <2>2, <2>4
      <3> QED
        BY <2>2, <3>1
    <2> QED
      BY <2>1, <2>5, <2>6, <2>7, QuietStep
  <1>4. ASSUME ClientClose(c)
        PROVE  Inv'
    <2>0. <<>> \in Seq(Requests) /\ <<>> \in Seq(Reply)
      OBVIOUS
    <2>1. CASE st[c] \in {"connecting", "closed"} /\ Recycle(c)
      <3>1. /\ st'[c] = "free" /\ outq'[c] = <<>> /\ inq'[c] = <<>> /\ ~hup'[c]
            /\ \A d \in Chan \ {c} :
                 /\ st'[d] = st[d] /\ uuid'[d] = uuid[d] /\ hup'[d] = hup[d]
                 /\ inq'[d] = inq[d] /\ outq'[d] = outq[d]
        BY <1>0, <2>1 DEF Recycle, TypeOK
      <3>2. /\ st' \in [Chan -> {"free", "connecting", "open", "closed"}]
            /\ uuid' \in [Chan -> Uuid \cup {NoUuid}]
            /\ hup' \in [Chan -> BOOLEAN]
        BY <1>0, <2>1 DEF Recycle, TypeOK
      <3>3. /\ inq' \in [Chan -> Seq(Requests)]
            /\ outq' \in [Chan -> Seq(Reply)]
            /\ await' \in [Chan -> Int]
        BY <1>0, <2>0, <2>1 DEF Recycle, TypeOK
      <3>4. opaque_handles' = opaque_handles
        BY <1>4 DEF ClientClose
      <3>5. TypeOK'
        BY <1>0, <3>2, <3>3, <3>4 DEF TypeOK
      <3>6. OnlyClientsServed'
        BY <1>0, <3>1 DEF OnlyClientsServed
      <3> QED
        BY <2>1, <3>1, <3>4, <3>5, <3>6, QuietStep
    <2>2. CASE /\ st[c] = "open" /\ ~hup[c]
               /\ hup' = [hup EXCEPT ![c] = TRUE]
               /\ outq' = [outq EXCEPT ![c] = <<>>]
               /\ UNCHANGED <<st, uuid, inq, await>>
      <3>1. outq'[c] = <<>> /\ \A d \in Chan \ {c} : outq'[d] = outq[d]
        BY <1>0, <2>2 DEF TypeOK
      <3>2. \A d \in Chan \ {c} : hup'[d] = hup[d]
        BY <1>0, <2>2 DEF TypeOK
      <3>3. outq' \in [Chan -> Seq(Reply)] /\ hup' \in [Chan -> BOOLEAN]
        BY <1>0, <2>0, <2>2 DEF TypeOK
      <3>4. opaque_handles' = opaque_handles
        BY <1>4 DEF ClientClose
      <3>5. TypeOK'
        BY <1>0, <2>2, <3>3, <3>4 DEF TypeOK
      <3>6. OnlyClientsServed'
        BY <1>0, <2>2, <3>1, <3>2 DEF OnlyClientsServed
      <3> QED
        BY <2>2, <3>1, <3>4, <3>5, <3>6, QuietStep
    <2> QED
      BY <1>4, <2>1, <2>2 DEF ClientClose
  <1>5. opaque_handles' = opaque_handles
    BY DEF Client, ClientConnect, ClientSend, ClientRecv, ClientClose
  <1>6. Inv'
    BY <1>1, <1>2, <1>3, <1>4 DEF Client
  <1> QED
    BY <1>5, <1>6, UnchangedListKept

-----------------------------------------------------------------------------
(* Requests and replies.  The invariant above is used as a lemma here.     *)

\* NoLostRequest, and a channel that has no session yet owes nothing.
Owes(c) ==
    /\ (st[c] = "open" /\ ~hup[c]) => await[c] = Len(inq[c]) + Len(outq[c])
    /\ st[c] \in {"free", "connecting"} => await[c] = 0

Owed == \A c \in Chan : Owes(c)

\* Counting for a send, a read and an answer.
LEMMA Counting ==
    ASSUME NEW m \in Nat, NEW n \in Nat
    PROVE  /\ (m + n) + 1 = (m + 1) + n /\ (m + n) - 1 = m + (n - 1)
           /\ m + n = (m - 1) + (n + 1)
  OBVIOUS

\* A step of channel c that leaves the others alone.
LEMMA OwedStep ==
    ASSUME TypeOK, Owed, NEW c \in Chan, Owes(c)',
           \A d \in Chan \ {c} :
               /\ st'[d] = st[d] /\ hup'[d] = hup[d] /\ inq'[d] = inq[d]
               /\ outq'[d] = outq[d] /\ await'[d] = await[d]
    PROVE  Owed'
  <1>1. ASSUME NEW d \in Chan, d # c PROVE Owes(d)'
    BY <1>1 DEF Owed, Owes
  <1> QED
    BY <1>1 DEF Owed

\* close(chan): the client is told by the close, or is gone.
LEMMA OwedClose ==
    ASSUME Inv, Owed, NEW c \in Chan, CloseChan(c)
    PROVE  Owed'
  <1>0. TypeOK
    BY DEF Inv
  <1>1. CASE hup[c]
    <2>1. Recycle(c)
      BY <1>1 DEF CloseChan
    <2>2. /\ st'[c] = "free" /\ await'[c] = 0
          /\ \A d \in Chan \ {c} :
                /\ st'[d] = st[d] /\ hup'[d] = hup[d] /\ inq'[d] = inq[d]
                /\ outq'[d] = outq[d] /\ await'[d] = await[d]
      BY <1>0, <2>1 DEF Recycle, TypeOK
    <2> QED
      BY <1>0, <2>2, OwedStep DEF Owes
  <1>2. CASE ~hup[c]
    <2>1. /\ st'[c] = "closed"
          /\ \A d \in Chan \ {c} :
                /\ st'[d] = st[d] /\ hup'[d] = hup[d] /\ inq'[d] = inq[d]
                /\ outq'[d] = outq[d] /\ await'[d] = await[d]
      BY <1>0, <1>2 DEF CloseChan, TypeOK
    <2> QED
      BY <1>0, <2>1, OwedStep DEF Owes
  <1> QED
    BY <1>1, <1>2

\* hwkey_chan_handle_msg moves one request to one reply, or closes.
LEMMA OwedMessage ==
    ASSUME Inv, Owed, NEW c \in Chan, st[c] = "open", inq[c] # <<>>,
           hwkey_chan_handle_msg(c)
    PROVE  Owed'
  <1>1. CASE CloseChan(c)
    BY <1>1, OwedClose
  <1>2. CASE \E o : /\ inq' = [inq EXCEPT ![c] = Tail(inq[c])]
                    /\ outq' = [outq EXCEPT ![c] = Append(outq[c], o)]
                    /\ UNCHANGED <<st, uuid, hup, await>>
    <2>1. PICK o : /\ inq' = [inq EXCEPT ![c] = Tail(inq[c])]
                   /\ outq' = [outq EXCEPT ![c] = Append(outq[c], o)]
                   /\ UNCHANGED <<st, uuid, hup, await>>
      BY <1>2
    <2>2. /\ TypeOK /\ inq[c] \in Seq(Requests) /\ outq[c] \in Seq(Reply)
      BY DEF Inv, TypeOK
    <2>3. /\ inq'[c] = Tail(inq[c]) /\ outq'[c] = Append(outq[c], o)
          /\ \A d \in Chan \ {c} : inq'[d] = inq[d] /\ outq'[d] = outq[d]
      BY <2>1, <2>2 DEF TypeOK
    <2>4. Len(Tail(inq[c])) = Len(inq[c]) - 1 /\ Len(inq[c]) \in Nat
      BY <2>2
    <2>5. Len(Append(outq[c], o)) = Len(outq[c]) + 1 /\ Len(outq[c]) \in Nat
      BY <2>2
    <2>6. (~hup[c]) => await[c] = Len(inq[c]) + Len(outq[c])
      BY DEF Owed, Owes
    <2>7. Len(inq[c]) + Len(outq[c]) = (Len(inq[c]) - 1) + (Len(outq[c]) + 1)
      BY <2>4, <2>5, Counting
    <2>8. ~hup[c] => await'[c] = Len(inq'[c]) + Len(outq'[c])
      BY <2>1, <2>3, <2>4, <2>5, <2>6, <2>7
    <2> QED
      BY <2>1, <2>2, <2>3, <2>8, OwedStep DEF Owes
  <1> QED
    BY <1>1, <1>2 DEF hwkey_chan_handle_msg, hwkey_ctx_close

\* What the client sends and reads is counted, and hanging up ends it.
LEMMA OwedClient ==
    ASSUME Inv, Owed, NEW c \in Chan, Client(c)
    PROVE  Owed'
  <1>0. /\ TypeOK /\ inq[c] \in Seq(Requests) /\ outq[c] \in Seq(Reply)
        /\ await[c] \in Int /\ Owes(c)
    BY DEF Inv, TypeOK, Owed
  <1>1. ASSUME NEW u \in Uuid, ClientConnect(c, u)
        PROVE  Owed'
    <2>1. /\ st[c] = "free" /\ st'[c] = "connecting"
          /\ \A d \in Chan \ {c} : st'[d] = st[d]
          /\ UNCHANGED <<hup, inq, outq, await>>
      BY <1>0, <1>1 DEF ClientConnect, TypeOK
    <2> QED
      BY <1>0, <2>1, OwedStep DEF Owes
  <1>2. ASSUME NEW r \in Requests, ClientSend(c, r)
        PROVE  Owed'
    <2>1. /\ st[c] = "open" /\ ~hup[c] /\ UNCHANGED <<st, hup, outq>>
          /\ inq'[c] = Append(inq[c], r) /\ await'[c] = await[c] + 1
          /\ \A d \in Chan \ {c} : inq'[d] = inq[d] /\ await'[d] = await[d]
      BY <1>0, <1>2 DEF ClientSend, TypeOK
    <2>2. Len(Append(inq[c], r)) = Len(inq[c]) + 1 /\ Len(inq[c]) \in Nat
      BY <1>0
    <2>3. await[c] = Len(inq[c]) + Len(outq[c])
      BY <1>0, <2>1 DEF Owes
    <2>4. Len(outq[c]) \in Nat
      BY <1>0
    <2>5. (Len(inq[c]) + Len(outq[c])) + 1 = (Len(inq[c]) + 1) + Len(outq[c])
      BY <2>2, <2>4, Counting
    <2>6. await'[c] = Len(inq'[c]) + Len(outq[c])
      BY <2>1, <2>2, <2>3, <2>5
    <2> QED
      BY <1>0, <2>1, <2>6, OwedStep DEF Owes
  <1>3. ASSUME ClientRecv(c)
        PROVE  Owed'
    <2>1. /\ st[c] \in {"open", "closed"} /\ ~hup[c] /\ outq[c] # <<>>
          /\ UNCHANGED <<st, hup, inq>>
          /\ outq'[c] = Tail(outq[c]) /\ await'[c] = await[c] - 1
          /\ \A d \in Chan \ {c} : outq'[d] = outq[d] /\ await'[d] = await[d]
      BY <1>0, <1>3 DEF ClientRecv, TypeOK
    <2>2. Len(Tail(outq[c])) = Len(outq[c]) - 1 /\ Len(outq[c]) \in Nat
      BY <1>0, <2>1
    <2>3. st[c] = "open" => await[c] = Len(inq[c]) + Len(outq[c])
      BY <1>0, <2>1 DEF Owes
    <2>4. Len(inq[c]) \in Nat
      BY <1>0
    <2>5. (Len(inq[c]) + Len(outq[c])) - 1 = Len(inq[c]) + (Len(outq[c]) - 1)
      BY <2>2, <2>4, Counting
    <2>6. st[c] = "open" => await'[c] = Len(inq[c]) + Len(outq'[c])
      BY <2>1, <2>2, <2>3, <2>5
    <2> QED
      BY <1>0, <2>1, <2>6, OwedStep DEF Owes
  <1>4. ASSUME ClientClose(c)
        PROVE  Owed'
    <2>1. CASE Recycle(c)
      <3>1. /\ st'[c] = "free" /\ await'[c] = 0
            /\ \A d \in Chan \ {c} :
                  /\ st'[d] = st[d] /\ hup'[d] = hup[d] /\ inq'[d] = inq[d]
                  /\ outq'[d] = outq[d] /\ await'[d] = await[d]
        BY <1>0, <2>1 DEF Recycle, TypeOK
      <3> QED
        BY <1>0, <3>1, OwedStep DEF Owes
    <2>2. CASE /\ st[c] = "open" /\ ~hup[c]
               /\ hup' = [hup EXCEPT ![c] = TRUE]
               /\ outq' = [outq EXCEPT ![c] = <<>>]
               /\ UNCHANGED <<st, uuid, inq, await>>
      <3>1. /\ hup'[c] /\ st'[c] = "open"
            /\ \A d \in Chan \ {c} : hup'[d] = hup[d] /\ outq'[d] = outq[d]
        BY <1>0, <2>2 DEF TypeOK
      <3> QED
        BY <1>0, <2>2, <3>1, OwedStep DEF Owes
    <2> QED
      BY <1>4, <2>1, <2>2 DEF ClientClose
  <1> QED
    BY <1>1, <1>2, <1>3, <1>4 DEF Client

\* Every step accounts for the requests it takes and the answers it gives.
LEMMA NextOwed == Inv /\ Owed /\ [Next]_vars => Owed'
  <1> SUFFICES ASSUME Inv, Owed, [Next]_vars PROVE Owed'
    OBVIOUS
  <1>1. ASSUME NEW c \in Chan, Client(c) PROVE Owed'
    BY <1>1, OwedClient
  <1>2. ASSUME NEW c \in Chan, hwkey_port_handler(c) PROVE Owed'
    <2>1. CASE CloseChan(c)
      BY <2>1, OwedClose
    <2>2. CASE /\ st' = [st EXCEPT ![c] = "open"]
               /\ UNCHANGED <<uuid, hup, inq, outq, await, opaque_handles>>
      <3>1. /\ st[c] = "connecting" /\ inq[c] = <<>> /\ outq[c] = <<>>
            /\ TypeOK /\ Owes(c)
        BY <1>2 DEF hwkey_port_handler, Inv, OnlyClientsServed, Owed
      <3>2. st'[c] = "open" /\ \A d \in Chan \ {c} : st'[d] = st[d]
        BY <2>2, <3>1 DEF TypeOK
      <3>3. await[c] = 0 /\ Len(inq[c]) = 0 /\ Len(outq[c]) = 0
        BY <3>1 DEF Owes
      <3>4. await[c] = Len(inq[c]) + Len(outq[c])
        BY <3>3
      <3> QED
        BY <2>2, <3>1, <3>2, <3>4, OwedStep DEF Owes
    <2> QED
      BY <1>2, <2>1, <2>2 DEF hwkey_port_handler, hwkey_ctx_close
  <1>3. ASSUME NEW c \in Chan, NEW event \in SUBSET Pending(c),
               hwkey_chan_handler(c, event)
        PROVE  Owed'
    <2>1. CASE "HUP" \in event
      BY <1>3, <2>1, OwedClose DEF hwkey_chan_handler, hwkey_ctx_close
    <2>2. CASE "HUP" \notin event
      <3>1. st[c] = "open" /\ inq[c] # <<>> /\ hwkey_chan_handle_msg(c)
        BY <1>3, <2>2 DEF hwkey_chan_handler, Pending
      <3> QED
        BY <3>1, OwedMessage
    <2> QED
      BY <2>1, <2>2
  <1>4. CASE UNCHANGED vars
    BY <1>4 DEF vars, Owed, Owes
  <1> QED
    BY <1>1, <1>2, <1>3, <1>4 DEF Next, Service

-----------------------------------------------------------------------------
(* The theorems.                                                           *)

\* Before the first connection there is no session and no handle.
LEMMA InitInv == Init => Inv
  <1> SUFFICES ASSUME Init PROVE Inv
    OBVIOUS
  <1>1. TypeOK
    BY DEF Init, TypeOK
  <1>2. OnlyClientsServed
    BY DEF Init, OnlyClientsServed
  <1>3. WellFormed(opaque_handles) /\ HandlesHaveLiveOwners
    BY DEF Init, WellFormed, HandlesHaveLiveOwners
  <1>4. \A c \in Chan : DOMAIN outq[c] = {}
    BY DEF Init
  <1>5. TokensInFlightAreLive /\ KeysOnlyToAuthorised
    BY <1>4 DEF TokensInFlightAreLive, KeysOnlyToAuthorised
  <1> QED
    BY <1>1, <1>2, <1>3, <1>5 DEF Inv

\* Every step keeps the invariant, and handles as long as their sessions.
LEMMA NextInv == Inv /\ [Next]_vars => Inv' /\ HandlesKept
  <1> SUFFICES ASSUME Inv, [Next]_vars PROVE Inv' /\ HandlesKept
    OBVIOUS
  <1>1. CASE Next
    <2>1. PICK c \in Chan : Client(c) \/ Service(c)
      BY <1>1 DEF Next
    <2>2. CASE Client(c)
      BY <2>2, ClientKeepsInv
    <2>3. CASE hwkey_port_handler(c)
      BY <2>3, PortHandlerKeepsInv
    <2>4. CASE \E event \in SUBSET Pending(c) : hwkey_chan_handler(c, event)
      <3>1. PICK event \in SUBSET Pending(c) : hwkey_chan_handler(c, event)
        BY <2>4
      <3> QED
        BY <3>1, ChanHandlerKeepsInv
    <2> QED
      BY <2>1, <2>2, <2>3, <2>4 DEF Service
  <1>2. CASE UNCHANGED vars
    <2>1. UNCHANGED <<st, uuid, hup, inq, outq, await, opaque_handles>>
      BY <1>2 DEF vars
    <2>2. Inv'
      BY <2>1 DEF Inv, TypeOK, OnlyClientsServed, WellFormed,
                  HandlesHaveLiveOwners, TokensInFlightAreLive,
                  KeysOnlyToAuthorised
    <2> QED
      BY <2>1, <2>2, UnchangedListKept
  <1> QED
    BY <1>1, <1>2

\* The inductive invariant holds in every reachable state of the service.
THEOREM Invariance == Spec => []Inv
  BY InitInv, NextInv, PTL DEF Spec

\* The state of the service always has its type.
THEOREM TypeCorrect == Spec => []TypeOK
  <1>1. Inv => TypeOK
    BY DEF Inv
  <1> QED
    BY <1>1, Invariance, PTL

\* Only applications on the provider's list are served, and a channel that
\* hwkey_port_handler accepts carries nothing of an earlier connection.
THEOREM OnlyClients == Spec => []OnlyClientsServed
  <1>1. Inv => OnlyClientsServed
    BY DEF Inv
  <1> QED
    BY <1>1, Invariance, PTL

\* No entry of opaque_handles outlives the context that owns it.
THEOREM LiveOwners == Spec => []HandlesHaveLiveOwners
  <1>1. Inv => HandlesHaveLiveOwners
    BY DEF Inv
  <1> QED
    BY <1>1, Invariance, PTL

\* One entry for each slot, never with an empty token: the assertion in
\* get_opaque_key cannot fail.
THEOREM ListWellFormed == Spec => []HandleListWellFormed
  <1>1. Inv => HandleListWellFormed
    BY DEF Inv, WellFormed, HandleListWellFormed
  <1> QED
    BY <1>1, Invariance, PTL

\* A token that a client is about to read is the token of a live handle.
THEOREM LiveTokens == Spec => []TokensInFlightAreLive
  <1>1. Inv => TokensInFlightAreLive
    BY DEF Inv
  <1> QED
    BY <1>1, Invariance, PTL

\* Key material is sent only to the applications its slot is meant for.
THEOREM Authorised == Spec => []KeysOnlyToAuthorised
  <1>1. Inv => KeysOnlyToAuthorised
    BY DEF Inv
  <1> QED
    BY <1>1, Invariance, PTL

\* A handle lasts, with its token, exactly until its session is closed.
THEOREM HandleLifetime == Spec => HandleEndsWithItsSession
  <1>1. Inv /\ [Next]_vars => [HandlesKept]_vars
    BY NextInv
  <1>2. [HandlesKept]_vars =>
            [\A i \in DOMAIN opaque_handles :
                \/ \E j \in DOMAIN opaque_handles' :
                      opaque_handles'[j] = opaque_handles[i]
                \/ LET c == opaque_handles[i].owner
                   IN  st[c] = "open" /\ st'[c] # "open"]_vars
    BY DEF HandlesKept
  <1> QED
    BY <1>1, <1>2, Invariance, PTL DEF Spec, HandleEndsWithItsSession

\* A request is queued, answered, or its channel is closed: no handler leaves
\* a client waiting on a session that is open at both ends.
THEOREM RequestsKept == Spec => []NoLostRequest
  <1>1. Init => Owed
    BY DEF Init, Owed, Owes
  <1>2. Owed => NoLostRequest
    BY DEF Owed, Owes, NoLostRequest
  <1> QED
    BY <1>1, <1>2, Invariance, NextOwed, PTL DEF Spec
=============================================================================
