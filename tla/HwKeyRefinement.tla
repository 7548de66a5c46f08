-------------------------- MODULE HwKeyRefinement --------------------------
(***************************************************************************)
(* The handlers of hwkey_srv.c implement the table of issued handles: for  *)
(* every number of sessions, every table of key slots and every random     *)
(* source, each of their steps is a step of OpaqueHandles or changes       *)
(* nothing there.                                                          *)
(***************************************************************************)
EXTENDS HwKeyProofs

-----------------------------------------------------------------------------
(* What a request does, exactly.                                           *)

Refused(o, h) == o.data = NoData /\ SameEntries(o.handles, h)

IsSeq(h) == Len(h) \in Nat /\ DOMAIN h = 1..Len(h)

\* g is h and the first handle for slot s.
FirstHandle(g, h, s, c, t) ==
    /\ \A i \in DOMAIN h : h[i].slot # s
    /\ Added(g, h, [slot |-> s, owner |-> c, token |-> t])

Issued(o, h, c, u, r) ==
    \E s \in Slot, t \in Token :
        /\ KeySlots[s].handler = "get_key_handle" /\ KeySlots[s].uuid = u
        /\ r.cmd = "GET_KEYSLOT" /\ r.id = KeySlots[s].key_id
        /\ o.data = TokenData(t)
        /\ FirstHandle(o.handles, h, s, c, t)

Redeemed(o, h, u, r) ==
    /\ o.handles = h
    /\ \E i \in DOMAIN h :
          /\ u \in KeySlots[h[i].slot].allowed
          /\ r.cmd = "GET_KEYSLOT" /\ r.id = h[i].token
          /\ o.data = KeyData(h[i].slot)

OwnKeySent(o, h, u, r) ==
    /\ o.handles = h
    /\ \E s \in Slot :
          /\ KeySlots[s].handler # "get_key_handle" /\ KeySlots[s].uuid = u
          /\ r.cmd = "GET_KEYSLOT" /\ r.id = KeySlots[s].key_id
          /\ o.data = KeyData(s)

Derived(o, h, u, r) ==
    o.handles = h /\ r.cmd = "DERIVE" /\ o.data = DerivedData(u)

Explained(o, h, c, u, r) ==
    \/ Refused(o, h)
    \/ Issued(o, h, c, u, r)
    \/ Redeemed(o, h, u, r)
    \/ OwnKeySent(o, h, u, r)
    \/ Derived(o, h, u, r)

\* An error reply tells the client nothing and leaves the list as it was.
LEMMA RefusalExplained ==
    ASSUME NEW h, NEW s
    PROVE  Refused(Outcome(h, s, NoData), h)
  BY DEF Refused, Outcome, SameEntries

\* The key of a slot, or an error of its handler.
LEMMA RetrieveOutcomes ==
    ASSUME NEW h, NEW s, NEW o \in Retrieve(h, s)
    PROVE  \/ Refused(o, h)
           \/ o.handles = h /\ o.data = KeyData(s)
  <1>1. CASE o = Outcome(h, "NO_ERROR", KeyData(s))
    BY <1>1 DEF Outcome
  <1>2. CASE \E e \in KeySlots[s].errors : o = Outcome(h, e, NoData)
    BY <1>2, RefusalExplained
  <1> QED
    BY <1>1, <1>2 DEF Retrieve

\* What get_opaque_key sends is the key that the text names in the list.
LEMMA OpaqueKeyExplained ==
    ASSUME NEW h \in Seq(Entry), NEW c, NEW u, NEW r, r.cmd = "GET_KEYSLOT",
           NEW o \in get_opaque_key(h, u, r.id)
    PROVE  Explained(o, h, c, u, r)
  <1> DEFINE match == {i \in DOMAIN h : /\ u \in KeySlots[h[i].slot].allowed
                                        /\ h[i].token = r.id}
  <1>1. CASE match = {}
    <2>1. o = Outcome(h, "NOT_FOUND", NoData)
      BY <1>1 DEF get_opaque_key
    <2> QED
      BY <2>1, RefusalExplained DEF Explained
  <1>2. CASE match # {}
    <2>1. PICK i \in FirstOf(match) : o \in Retrieve(h, h[i].slot)
      BY <1>2 DEF get_opaque_key
    <2>2. /\ i \in DOMAIN h /\ u \in KeySlots[h[i].slot].allowed
          /\ h[i].token = r.id
      BY <2>1 DEF FirstOf
    <2>3. Refused(o, h) \/ (o.handles = h /\ o.data = KeyData(h[i].slot))
      BY <2>1, RetrieveOutcomes
    <2> QED
      BY <2>2, <2>3 DEF Explained, Redeemed
  <1> QED
    BY <1>1, <1>2

\* What the handler of the client's own slot does.
LEMMA SlotExplained ==
    ASSUME NEW h \in Seq(Entry), WellFormed(h), NEW c \in Chan, NEW s \in Slot,
           NEW r, r.cmd = "GET_KEYSLOT", r.id = KeySlots[s].key_id,
           NEW o \in RunSlot(h, c, s)
    PROVE  Explained(o, h, c, KeySlots[s].uuid, r)
  <1>1. CASE KeySlots[s].handler # "get_key_handle"
    <2>1. o \in Retrieve(h, s)
      BY <1>1 DEF RunSlot
    <2>2. Refused(o, h) \/ (o.handles = h /\ o.data = KeyData(s))
      BY <2>1, RetrieveOutcomes
    <2> QED
      BY <1>1, <2>2 DEF Explained, OwnKeySent
  <1>2. CASE KeySlots[s].handler = "get_key_handle" /\ EntriesFor(h, s) # {}
    <2>1. o \in get_key_handle(h, s)
      BY <1>2 DEF RunSlot, insert_handle_node_fails, insert_handle_node
    <2>2. PICK i \in FirstOf(EntriesFor(h, s)) :
              o \in IF h[i].token # EmptyToken
                    THEN {Outcome(h, "ALREADY_EXISTS", NoData)}
                    ELSE {Outcome([h EXCEPT ![i].token = t], "NO_ERROR",
                                  TokenData(t)) : t \in Token}
                         \cup {Outcome(g, "RNG_FAILED", NoData)
                                : g \in Keeping(h, DOMAIN h \ {i})}
      BY <2>1 DEF get_key_handle
    <2>3. h[i].token # EmptyToken
      BY DEF FirstOf, EntriesFor, WellFormed
    <2>4. o = Outcome(h, "ALREADY_EXISTS", NoData)
      BY <2>2, <2>3
    <2> QED
      BY <2>4, RefusalExplained DEF Explained
  <1>3. CASE KeySlots[s].handler = "get_key_handle" /\ EntriesFor(h, s) = {}
    <2>1. \/ o = Outcome(h, "GENERIC", NoData)
          \/ o \in get_key_handle(insert_handle_node(h, c, s), s)
      BY <1>3 DEF RunSlot, insert_handle_node_fails
    <2>2. CASE o = Outcome(h, "GENERIC", NoData)
      BY <2>2, RefusalExplained DEF Explained
    <2>3. CASE o \in get_key_handle(insert_handle_node(h, c, s), s)
      <3>1. \/ \E g \in Seq(Entry), t \in Token :
                  /\ o = Outcome(g, "NO_ERROR", TokenData(t))
                  /\ Added(g, h, [slot |-> s, owner |-> c, token |-> t])
            \/ \E g \in Seq(Entry) :
                  /\ o = Outcome(g, "RNG_FAILED", NoData)
                  /\ SameEntries(g, h) /\ WellFormed(g)
        BY <1>3, <2>3, FirstHandleOutcomes
      <3>2. CASE \E g \in Seq(Entry), t \in Token :
                     /\ o = Outcome(g, "NO_ERROR", TokenData(t))
                     /\ Added(g, h, [slot |-> s, owner |-> c, token |-> t])
        <4>1. PICK g \in Seq(Entry), t \in Token :
                     /\ o = Outcome(g, "NO_ERROR", TokenData(t))
                     /\ Added(g, h, [slot |-> s, owner |-> c, token |-> t])
          BY <3>2
        <4>2. o.handles = g /\ o.data = TokenData(t)
          BY <4>1 DEF Outcome
        <4>3. \A i \in DOMAIN h : h[i].slot # s
          BY <1>3 DEF EntriesFor
        <4> QED
          BY <1>3, <4>1, <4>2, <4>3 DEF Explained, Issued, FirstHandle
      <3>3. CASE \E g \in Seq(Entry) :
                     /\ o = Outcome(g, "RNG_FAILED", NoData)
                     /\ SameEntries(g, h) /\ WellFormed(g)
        BY <3>3 DEF Explained, Refused, Outcome
      <3> QED
        BY <3>1, <3>2, <3>3
    <2> QED
      BY <2>1, <2>2, <2>3
  <1> QED
    BY <1>1, <1>2, <1>3

\* Every answer hwkey_chan_handle_msg can give.
LEMMA RequestExplained ==
    ASSUME NEW h \in Seq(Entry), WellFormed(h), NEW c \in Chan, NEW u \in Uuid,
           NEW r, NEW o \in HandleRequest(h, c, u, r)
    PROVE  Explained(o, h, c, u, r)
  <1>1. CASE r.cmd = "GET_KEYSLOT"
    <2>1. o \in handle_slots(h, c, u, r.id)
      BY <1>1 DEF HandleRequest
    <2>2. CASE MatchingSlots(u, r.id) = {}
      <3>1. o \in get_opaque_key(h, u, r.id)
        BY <2>1, <2>2 DEF handle_slots
      <3> QED
        BY <1>1, <3>1, OpaqueKeyExplained
    <2>3. CASE MatchingSlots(u, r.id) # {}
      <3>1. PICK s \in FirstOf(MatchingSlots(u, r.id)) : o \in RunSlot(h, c, s)
        BY <2>1, <2>3 DEF handle_slots
      <3>2. s \in Slot /\ KeySlots[s].uuid = u /\ KeySlots[s].key_id = r.id
        BY <3>1 DEF FirstOf, MatchingSlots
      <3> QED
        BY <1>1, <3>1, <3>2, SlotExplained
    <2> QED
      BY <2>2, <2>3
  <1>2. CASE r.cmd = "DERIVE"
    <2>1. o \in handle_derive_key(h, u, r.kdf, r.ikm)
      BY <1>2 DEF HandleRequest
    <2>2. \/ o = Outcome(h, "NO_ERROR", DerivedData(u))
          \/ \E s \in Status : o = Outcome(h, s, NoData)
      BY <2>1 DEF handle_derive_key, derive_key_v1, Status
    <2> QED
      BY <1>2, <2>2, RefusalExplained DEF Explained, Derived, Outcome
  <1>3. CASE r.cmd \notin {"GET_KEYSLOT", "DERIVE"}
    <2>1. o = Outcome(h, "NOT_IMPLEMENTED", NoData)
      BY <1>3 DEF HandleRequest
    <2> QED
      BY <2>1, RefusalExplained DEF Explained
  <1> QED
    BY <1>1, <1>2, <1>3

-----------------------------------------------------------------------------
(* The refinement mapping: the table that a list of handles stands for.    *)

Cell(e) == [owner |-> e.owner, token |-> e.token]

\* T is the table of the handles in h.
IsTable(T, h) ==
    /\ T = [s \in DOMAIN T |-> T[s]]
    /\ \A s \in DOMAIN T : \E i \in DOMAIN h : h[i].slot = s
    /\ \A i \in DOMAIN h : h[i].slot \in DOMAIN T /\ T[h[i].slot] = Cell(h[i])

TableOf(h) ==
    [s \in {h[i].slot : i \in DOMAIN h} |->
        LET i == CHOOSE j \in DOMAIN h : h[j].slot = s
        IN  [owner |-> h[i].owner, token |-> h[i].token]]

\* A well-formed list has a table: no slot has two entries.
LEMMA TableFacts ==
    ASSUME NEW h, WellFormed(h)
    PROVE  IsTable(TableOf(h), h)
  <1> DEFINE D == {h[i].slot : i \in DOMAIN h}
             at(s) == CHOOSE j \in DOMAIN h : h[j].slot = s
  <1>1. TableOf(h) = [s \in D |-> [owner |-> h[at(s)].owner,
                                   token |-> h[at(s)].token]]
    BY DEF TableOf
  <1>2. ASSUME NEW i \in DOMAIN h PROVE at(h[i].slot) = i
    <2>1. at(h[i].slot) \in DOMAIN h /\ h[at(h[i].slot)].slot = h[i].slot
      OBVIOUS
    <2> QED
      BY <2>1 DEF WellFormed
  <1>3. /\ \A s \in D : \E i \in DOMAIN h : h[i].slot = s
        /\ \A i \in DOMAIN h : h[i].slot \in D
    OBVIOUS
  <1>4. DOMAIN TableOf(h) = D /\ TableOf(h) = [s \in D |-> TableOf(h)[s]]
    BY <1>1
  <1> HIDE DEF at, D
  <1>5. ASSUME NEW i \in DOMAIN h PROVE TableOf(h)[h[i].slot] = Cell(h[i])
    <2>1. TableOf(h)[h[i].slot] = [owner |-> h[at(h[i].slot)].owner,
                                   token |-> h[at(h[i].slot)].token]
      BY <1>1, <1>3
    <2> QED
      BY <1>2, <2>1 DEF Cell
  <1> QED
    BY <1>3, <1>4, <1>5 DEF IsTable

\* Lists with the same entries are the same table.
LEMMA SameTable ==
    ASSUME NEW g, NEW h, SameEntries(g, h), NEW T, NEW U,
           IsTable(T, g), IsTable(U, h)
    PROVE  T = U
  <1>1. ASSUME NEW s \in DOMAIN T PROVE s \in DOMAIN U /\ T[s] = U[s]
    <2>1. PICK i \in DOMAIN g : g[i].slot = s
      BY DEF IsTable
    <2>2. PICK j \in DOMAIN h : g[i] = h[j]
      BY DEF SameEntries
    <2> QED
      BY <2>1, <2>2 DEF IsTable
  <1>2. ASSUME NEW s \in DOMAIN U PROVE s \in DOMAIN T
    <2>1. PICK i \in DOMAIN h : h[i].slot = s
      BY DEF IsTable
    <2>2. PICK j \in DOMAIN g : g[j] = h[i]
      BY DEF SameEntries
    <2> QED
      BY <2>1, <2>2 DEF IsTable
  <1>3. DOMAIN T = DOMAIN U
    BY <1>1, <1>2
  <1> QED
    BY <1>1, <1>3 DEF IsTable

\* What is left of the table when the handles of c are dropped.
NotOwnedBy(c, U) == [s \in {x \in DOMAIN U : U[x].owner # c} |-> U[s]]

\* Deleting the entries of a session is taking back what it was issued.
LEMMA TableWithout ==
    ASSUME NEW g, NEW h, NEW T, NEW U, IsTable(T, g), IsTable(U, h), NEW c,
           \A j \in DOMAIN g : g[j].owner # c /\ \E i \in DOMAIN h : g[j] = h[i],
           \A i \in DOMAIN h : h[i].owner # c => \E j \in DOMAIN g : g[j] = h[i]
    PROVE  T = NotOwnedBy(c, U)
  <1> DEFINE D == {x \in DOMAIN U : U[x].owner # c}
  <1>1. ASSUME NEW s \in DOMAIN T
        PROVE  s \in D /\ T[s] = U[s]
    <2>1. PICK j \in DOMAIN g : g[j].slot = s
      BY DEF IsTable
    <2>2. PICK i \in DOMAIN h : g[j] = h[i]
      OBVIOUS
    <2>3. s \in DOMAIN U /\ T[s] = Cell(h[i]) /\ U[s] = Cell(h[i])
      BY <2>1, <2>2 DEF IsTable
    <2>4. Cell(h[i]).owner # c
      BY <2>2 DEF Cell
    <2> QED
      BY <2>3, <2>4
  <1>2. ASSUME NEW s \in D PROVE s \in DOMAIN T
    <2>1. PICK i \in DOMAIN h : h[i].slot = s
      BY DEF IsTable
    <2>2. U[s] = Cell(h[i]) /\ U[s].owner # c
      BY <2>1 DEF IsTable
    <2>3. Cell(h[i]).owner = h[i].owner
      BY DEF Cell
    <2>4. PICK j \in DOMAIN g : g[j] = h[i]
      BY <2>2, <2>3
    <2> QED
      BY <2>1, <2>4 DEF IsTable
  <1>3. DOMAIN T = D
    BY <1>1, <1>2
  <1>4. T = [s \in DOMAIN T |-> T[s]]
    BY DEF IsTable
  <1> HIDE DEF D
  <1>5. T = [s \in D |-> U[s]]
    BY <1>1, <1>3, <1>4
  <1> QED
    BY <1>5 DEF D, NotOwnedBy

\* The table after a handle was issued.
WithHandle(U, s, c, t) ==
    [x \in DOMAIN U \cup {s} |->
        IF x = s THEN [owner |-> c, token |-> t] ELSE U[x]]

\* Adding the entry for a slot is issuing it.
LEMMA TableWith ==
    ASSUME NEW h, NEW g, NEW T, NEW U, IsSeq(h),
           IsTable(T, g), IsTable(U, h),
           NEW s, NEW c, NEW t, FirstHandle(g, h, s, c, t)
    PROVE  s \notin DOMAIN U /\ T = WithHandle(U, s, c, t)
  <1> DEFINE e == [slot |-> s, owner |-> c, token |-> t]
             n == Len(h) + 1
  <1>1. DOMAIN g = 1..n /\ g[n] = e /\ \A i \in DOMAIN h : g[i] = h[i]
    BY DEF FirstHandle, Added
  <1>2. Len(h) \in Nat /\ DOMAIN h = 1..Len(h)
    BY DEF IsSeq
  <1>3. n \in DOMAIN g /\ \A i : i \in DOMAIN g <=> i = n \/ i \in DOMAIN h
    BY <1>1, <1>2
  <1>4. e.slot = s /\ Cell(e) = [owner |-> c, token |-> t]
    BY DEF Cell
  <1> HIDE DEF e, n
  <1>5. s \in DOMAIN T /\ T[s] = [owner |-> c, token |-> t]
    BY <1>1, <1>3, <1>4 DEF IsTable
  <1>6. ASSUME NEW x \in DOMAIN U
        PROVE  x \in DOMAIN T /\ x # s /\ T[x] = U[x]
    <2>1. PICK i \in DOMAIN h : h[i].slot = x
      BY DEF IsTable
    <2>2. i \in DOMAIN g /\ g[i] = h[i]
      BY <1>1, <1>3
    <2> QED
      BY <2>1, <2>2 DEF IsTable, FirstHandle
  <1>7. ASSUME NEW x \in DOMAIN T, x # s PROVE x \in DOMAIN U
    <2>1. PICK i \in DOMAIN g : g[i].slot = x
      BY DEF IsTable
    <2>2. i \in DOMAIN h /\ g[i] = h[i]
      BY <1>1, <1>3, <1>4, <1>7, <2>1
    <2> QED
      BY <2>1, <2>2 DEF IsTable
  <1>8. DOMAIN T = DOMAIN U \cup {s}
    BY <1>5, <1>6, <1>7
  <1>9. T = [x \in DOMAIN T |-> T[x]]
    BY DEF IsTable
  <1> QED
    BY <1>5, <1>6, <1>8, <1>9 DEF WithHandle

-----------------------------------------------------------------------------
(* The refinement mapping: the payloads of a queue of replies.             *)

DataOf(q) == [k \in DOMAIN q |-> q[k].data]

\* The data of the replies in a queue, in their order.
LEMMA DataOfIsSeq ==
    ASSUME NEW q \in Seq(Reply)
    PROVE  /\ DataOf(q) \in Seq(Data) /\ Len(DataOf(q)) = Len(q)
           /\ \A k \in 1..Len(q) : DataOf(q)[k] = q[k].data
  <1>1. DOMAIN q = 1..Len(q) /\ Len(q) \in Nat
    OBVIOUS
  <1>2. ASSUME NEW k \in 1..Len(q) PROVE q[k].data \in Data
    <2>1. q[k] \in Reply
      OBVIOUS
    <2> QED
      BY <2>1 DEF Reply
  <1>3. /\ DataOf(q) \in [1..Len(q) -> Data]
        /\ \A k \in 1..Len(q) : DataOf(q)[k] = q[k].data
    BY <1>1, <1>2 DEF DataOf
  <1> HIDE DEF DataOf
  <1>4. DataOf(q) \in Seq(Data)
    BY <1>1, <1>3, IsASeq
  <1>5. DOMAIN DataOf(q) = 1..Len(q)
    BY <1>3
  <1>6. Len(DataOf(q)) = Len(q)
    BY <1>1, <1>4, <1>5
  <1> QED
    BY <1>3, <1>4, <1>6

\* No replies, no data.
LEMMA DataOfEmpty == DataOf(<<>>) = <<>>
  BY DEF DataOf

\* Taking a reply is taking its data.
LEMMA DataOfTail ==
    ASSUME NEW q \in Seq(Reply), q # <<>>
    PROVE  DataOf(q) # <<>> /\ DataOf(Tail(q)) = Tail(DataOf(q))
  <1>1. Tail(q) \in Seq(Reply) /\ Len(Tail(q)) = Len(q) - 1
    OBVIOUS
  <1>2. Len(q) # 0 /\ Len(q) \in Nat
    BY EmptySeq
  <1>3. DataOf(q) # <<>>
    BY <1>2, DataOfIsSeq
  <1>4. Tail(DataOf(q)) \in Seq(Data) /\ Len(Tail(DataOf(q))) = Len(q) - 1
    BY <1>2, <1>3, DataOfIsSeq
  <1>5. /\ DataOf(Tail(q)) \in Seq(Data)
        /\ Len(DataOf(Tail(q))) = Len(q) - 1
        /\ \A k \in 1..(Len(q) - 1) : DataOf(Tail(q))[k] = Tail(q)[k].data
    BY <1>1, DataOfIsSeq
  <1>6. ASSUME NEW k \in 1..(Len(q) - 1)
        PROVE  DataOf(Tail(q))[k] = Tail(DataOf(q))[k]
    <2>1. Tail(q)[k] = q[k + 1]
      BY <1>2
    <2>2. k + 1 \in 1..Len(q)
      BY <1>2
    <2>3. DataOf(q) \in Seq(Data) /\ Len(DataOf(q)) = Len(q)
      BY DataOfIsSeq
    <2>4. Tail(DataOf(q))[k] = DataOf(q)[k + 1]
      BY <1>2, <1>3, <2>3
    <2>5. DataOf(q)[k + 1] = q[k + 1].data
      BY <2>2, DataOfIsSeq
    <2> QED
      BY <1>5, <2>1, <2>4, <2>5
  <1>7. DataOf(Tail(q)) = Tail(DataOf(q))
    BY <1>4, <1>5, <1>6, SeqEqual
  <1> QED
    BY <1>3, <1>7

\* Sending a reply is sending its data.
LEMMA DataOfAppend ==
    ASSUME NEW q \in Seq(Reply), NEW p \in Reply
    PROVE  DataOf(Append(q, p)) = Append(DataOf(q), p.data)
  <1>1. /\ Append(q, p) \in Seq(Reply) /\ Len(Append(q, p)) = Len(q) + 1
        /\ Len(q) \in Nat
    OBVIOUS
  <1>2. p.data \in Data
    BY DEF Reply
  <1>3. DataOf(q) \in Seq(Data) /\ Len(DataOf(q)) = Len(q)
    BY DataOfIsSeq
  <1>4. /\ Append(DataOf(q), p.data) \in Seq(Data)
        /\ Len(Append(DataOf(q), p.data)) = Len(q) + 1
    BY <1>2, <1>3
  <1>5. /\ DataOf(Append(q, p)) \in Seq(Data)
        /\ Len(DataOf(Append(q, p))) = Len(q) + 1
        /\ \A k \in 1..(Len(q) + 1) :
              DataOf(Append(q, p))[k] = Append(q, p)[k].data
    BY <1>1, DataOfIsSeq
  <1>6. ASSUME NEW k \in 1..(Len(q) + 1)
        PROVE  DataOf(Append(q, p))[k] = Append(DataOf(q), p.data)[k]
    <2>0. k \in 1..Len(q) \/ k = Len(q) + 1
      BY <1>1
    <2>1. CASE k \in 1..Len(q)
      <3>1. Append(q, p)[k] = q[k]
        BY <2>1
      <3>2. Append(DataOf(q), p.data)[k] = DataOf(q)[k]
        BY <1>2, <1>3, <2>1
      <3>3. DataOf(q)[k] = q[k].data
        BY <2>1, DataOfIsSeq
      <3> QED
        BY <1>5, <3>1, <3>2, <3>3
    <2>2. CASE k = Len(q) + 1
      <3>1. Append(q, p)[k] = p
        BY <2>2
      <3>2. Append(DataOf(q), p.data)[k] = p.data
        BY <1>2, <1>3, <2>2
      <3> QED
        BY <1>5, <3>1, <3>2
    <2> QED
      BY <2>0, <2>1, <2>2
  <1> QED
    BY <1>4, <1>5, <1>6, SeqEqual

-----------------------------------------------------------------------------
(* The mapping and a step.                                                 *)

\* The refinement mapping of the table, before and after a step.
LEMMA TableMapping ==
    AbsTable = TableOf(opaque_handles) /\ AbsTable' = TableOf(opaque_handles')
  BY DEF AbsTable, TableOf

\* The refinement mapping of the inboxes, before and after a step.
LEMMA InboxMapping ==
    /\ AbsInbox = [c \in Chan |-> DataOf(outq[c])]
    /\ AbsInbox' = [c \in Chan |-> DataOf(outq'[c])]
  BY DEF AbsInbox, DataOf

\* Nobody gets or loses a session.
LEMMA SessionsKept ==
    ASSUME \A d \in Chan : /\ st'[d] = "open" <=> st[d] = "open"
                           /\ st[d] = "open" => uuid'[d] = uuid[d]
    PROVE  AbsSession' = AbsSession
  BY DEF AbsSession

\* Only the session of c changes.
LEMMA SessionStep ==
    ASSUME NEW c \in Chan,
           \A d \in Chan \ {c} : st'[d] = st[d] /\ uuid'[d] = uuid[d]
    PROVE  AbsSession' = [AbsSession EXCEPT ![c] =
                              IF st'[c] = "open" THEN uuid'[c] ELSE NoUuid]
  BY DEF AbsSession

\* Only the replies to c change.
LEMMA InboxStep ==
    ASSUME NEW c \in Chan, \A d \in Chan \ {c} : outq'[d] = outq[d]
    PROVE  /\ AbsInbox' = [AbsInbox EXCEPT ![c] = DataOf(outq'[c])]
           /\ AbsInbox[c] = DataOf(outq[c])
  <1> HIDE DEF DataOf
  <1> QED
    BY InboxMapping

\* An open channel is a session of the abstract service.
LEMMA OpenSession ==
    ASSUME Inv, NEW c \in Chan, st[c] = "open"
    PROVE  AbsSession[c] = uuid[c] /\ uuid[c] \in Uuid /\ AbsSession[c] # NoUuid
  BY UuidAssumption DEF AbsSession, Inv, OnlyClientsServed

-----------------------------------------------------------------------------
(* Every step of the service is a step of the table or changes nothing.    *)

AStep == Abstract!ANext \/ UNCHANGED Abstract!avars

\* Nothing that the table shows changes.
LEMMA Unseen ==
    ASSUME AbsSession' = AbsSession, UNCHANGED inq, AbsInbox' = AbsInbox,
           AbsTable' = AbsTable
    PROVE  AStep
  BY DEF AStep, Abstract!avars

\* The end of a session, whatever its last request did to the list.
LEMMA SessionEnds ==
    ASSUME Inv, NEW c \in Chan, st[c] = "open", NEW u,
           NEW h, Extends(h, opaque_handles, c, u), hwkey_ctx_close(c, h)
    PROVE  Abstract!End(c)
  <1> DEFINE old == opaque_handles
             new == opaque_handles'
  <1>1. new \in Keeping(h, {i \in DOMAIN h : h[i].owner # c}) /\ CloseChan(c)
    BY DEF hwkey_ctx_close
  <1>2. h \in Seq(Entry) /\ WellFormed(h) /\ TypeOK
        /\ WellFormed(opaque_handles)
    BY DEF Extends, Inv
  <1>3. /\ WellFormed(new)
        /\ \A j \in DOMAIN new :
              new[j].owner # c /\ \E i \in DOMAIN h : new[j] = h[i]
        /\ \A i \in DOMAIN h :
              h[i].owner # c => \E j \in DOMAIN new : new[j] = h[i]
    BY <1>1, <1>2, ClosedList
  <1>4. ASSUME NEW j \in DOMAIN new
        PROVE  new[j].owner # c /\ \E i \in DOMAIN old : new[j] = old[i]
    <2>1. PICK i \in DOMAIN h : new[j] = h[i]
      BY <1>3
    <2>2. new[j].owner # c
      BY <1>3
    <2> QED
      BY <2>1, <2>2 DEF Extends
  <1>5. ASSUME NEW i \in DOMAIN old, old[i].owner # c
        PROVE  \E j \in DOMAIN new : new[j] = old[i]
    <2>1. PICK k \in DOMAIN h : h[k] = old[i]
      BY DEF Extends
    <2>2. h[k].owner # c
      BY <1>5, <2>1
    <2> QED
      BY <1>3, <2>1, <2>2
  <1>6. IsTable(TableOf(new), new) /\ IsTable(TableOf(old), old)
    BY <1>2, <1>3, TableFacts
  <1>7. TableOf(new) = NotOwnedBy(c, TableOf(old))
    BY <1>4, <1>5, <1>6, TableWithout
  <1>8. AbsTable' = [s \in {x \in DOMAIN AbsTable : AbsTable[x].owner # c} |->
                        AbsTable[s]]
    BY <1>7, TableMapping DEF NotOwnedBy
  <1>9. /\ st'[c] \in {"free", "closed"} /\ outq'[c] \in {outq[c], <<>>}
        /\ inq'[c] = <<>> /\ inq' \in [Chan -> Seq(Requests)]
        /\ \A d \in Chan \ {c} :
              /\ st'[d] = st[d] /\ uuid'[d] = uuid[d]
              /\ inq'[d] = inq[d] /\ outq'[d] = outq[d]
    BY <1>1, <1>2, ClosedChannel
  <1>10. AbsSession[c] # NoUuid
    BY OpenSession
  <1>11. AbsSession' = [AbsSession EXCEPT ![c] = NoUuid]
    BY <1>9, SessionStep
  <1>12. inq' = [inq EXCEPT ![c] = <<>>]
    BY <1>2, <1>9 DEF TypeOK
  <1>13. /\ AbsInbox' = [AbsInbox EXCEPT ![c] = DataOf(outq'[c])]
         /\ AbsInbox[c] = DataOf(outq[c])
    BY <1>9, InboxStep
  <1>14. DataOf(outq'[c]) \in {AbsInbox[c], <<>>}
    BY <1>9, <1>13, DataOfEmpty
  <1>15. \E kept \in {AbsInbox[c], <<>>} :
             AbsInbox' = [AbsInbox EXCEPT ![c] = kept]
    BY <1>13, <1>14
  <1> QED
    BY <1>8, <1>10, <1>11, <1>12, <1>15 DEF Abstract!End

\* A reply reaches the client's queue.
LEMMA Answered ==
    ASSUME Inv, NEW c \in Chan, st[c] = "open", inq[c] # <<>>,
           NEW s \in Status, NEW d \in Data,
           inq' = [inq EXCEPT ![c] = Tail(@)],
           outq' = [outq EXCEPT ![c] = Append(@, [status |-> s, data |-> d])],
           UNCHANGED <<st, uuid>>
    PROVE  Abstract!Answer(c, d)
  <1> DEFINE p == [status |-> s, data |-> d]
  <1>1. p \in Reply /\ p.data = d
    BY DEF Reply
  <1>2. outq \in [Chan -> Seq(Reply)]
    BY DEF Inv, TypeOK
  <1>3. /\ outq'[c] = Append(outq[c], p) /\ outq[c] \in Seq(Reply)
        /\ \A b \in Chan \ {c} : outq'[b] = outq[b]
    BY <1>2
  <1> HIDE DEF p
  <1>4. DataOf(Append(outq[c], p)) = Append(DataOf(outq[c]), d)
    BY <1>1, <1>3, DataOfAppend
  <1>5. /\ AbsInbox' = [AbsInbox EXCEPT ![c] = DataOf(outq'[c])]
        /\ AbsInbox[c] = DataOf(outq[c])
    BY <1>3, InboxStep
  <1>6. AbsInbox' = [AbsInbox EXCEPT ![c] = Append(AbsInbox[c], d)]
    BY <1>3, <1>4, <1>5
  <1>7. AbsSession[c] # NoUuid
    BY OpenSession
  <1>8. AbsSession' = AbsSession
    BY SessionsKept
  <1> QED
    BY <1>6, <1>7, <1>8 DEF Abstract!Answer

\* hwkey_chan_handle_msg: an answer of the table, or the end of the session.
LEMMA MessageStep ==
    ASSUME Inv, NEW c \in Chan, st[c] = "open", inq[c] # <<>>,
           hwkey_chan_handle_msg(c)
    PROVE  AStep
  <1> DEFINE r == Head(inq[c])
             u == uuid[c]
             h == opaque_handles
  <1>1. u \in Uuid /\ AbsSession[c] = u
    BY OpenSession
  <1>2. h \in Seq(Entry) /\ WellFormed(h)
    BY DEF Inv, TypeOK
  <1>3. CASE r.cmd = "SHORT"
    <2>1. hwkey_ctx_close(c, opaque_handles)
      BY <1>3 DEF hwkey_chan_handle_msg
    <2>2. Extends(h, h, c, u)
      BY <1>1, OwnListExtends
    <2>3. Abstract!End(c)
      BY <2>1, <2>2, SessionEnds
    <2> QED
      BY <2>3 DEF AStep, Abstract!ANext
  <1>4. CASE r.cmd # "SHORT"
    <2>1. PICK o \in HandleRequest(h, c, u, r) :
              IF CanSend(c)
              THEN /\ opaque_handles' = o.handles
                   /\ inq' = [inq EXCEPT ![c] = Tail(@)]
                   /\ outq' = [outq EXCEPT ![c] =
                          Append(@, [status |-> o.status, data |-> o.data])]
                   /\ UNCHANGED <<st, uuid, hup, await>>
              ELSE hwkey_ctx_close(c, o.handles)
      BY <1>4 DEF hwkey_chan_handle_msg
    <2>2. Good(o, h, c, u)
      BY <1>1, <1>2, <2>1, RequestIsGood
    <2>3. CASE ~CanSend(c)
      <3>1. Extends(o.handles, h, c, u) /\ hwkey_ctx_close(c, o.handles)
        BY <2>1, <2>2, <2>3 DEF Good
      <3>2. Abstract!End(c)
        BY <3>1, SessionEnds
      <3> QED
        BY <3>2 DEF AStep, Abstract!ANext
    <2>4. CASE CanSend(c)
      <3>0. opaque_handles' = o.handles
        BY <2>1, <2>4
      <3>1. Abstract!Answer(c, o.data)
        <4>1. o.status \in Status /\ o.data \in Data
          BY <2>2 DEF Good
        <4> QED
          BY <2>1, <2>4, <4>1, Answered
      <3>2. Explained(o, h, c, u, r)
        BY <1>1, <1>2, <2>1, RequestExplained
      <3>3. IsTable(AbsTable, h) /\ IsTable(AbsTable', o.handles)
        <4>1. WellFormed(o.handles)
          BY <2>2 DEF Good, Extends
        <4>2. IsTable(TableOf(h), h) /\ IsTable(TableOf(o.handles), o.handles)
          BY <1>2, <4>1, TableFacts
        <4> QED
          BY <3>0, <4>2, TableMapping
      <3>4. AbsTable' = AbsTable \/ o.handles # h
        BY <3>0, TableMapping
      <3> HIDE DEF h, u
      <3>5. CASE Refused(o, h)
        <4>1. AbsTable' = AbsTable /\ o.data = [type |-> "none"]
          BY <3>3, <3>5, SameTable DEF Refused, NoData
        <4>2. Abstract!Refuse(c)
          BY <3>1, <4>1 DEF Abstract!Refuse
        <4> QED
          BY <4>2 DEF AStep, Abstract!ANext
      <3>6. CASE Issued(o, h, c, u, r)
        <4>1. PICK s \in Slot, t \in Token :
                /\ KeySlots[s].handler = "get_key_handle"
                /\ KeySlots[s].uuid = u
                /\ r.cmd = "GET_KEYSLOT" /\ r.id = KeySlots[s].key_id
                /\ o.data = TokenData(t)
                /\ FirstHandle(o.handles, h, s, c, t)
          BY <3>6 DEF Issued
        <4>2. /\ s \notin DOMAIN AbsTable
              /\ AbsTable' = WithHandle(AbsTable, s, c, t)
          <5>1. IsSeq(h)
            BY <1>2 DEF IsSeq
          <5> QED
            BY <3>3, <4>1, <5>1, TableWith
        <4>3. Abstract!Names(c, KeySlots[s].key_id)
          BY <4>1 DEF Abstract!Names
        <4>4. Abstract!Answer(c, [type |-> "token", token |-> t])
          BY <3>1, <4>1 DEF TokenData
        <4>5. Abstract!Issue(c, s, t)
          BY <1>1, <4>1, <4>2, <4>3, <4>4 DEF Abstract!Issue, WithHandle
        <4>6. s \in Abstract!OpaqueSlot
          BY <4>1 DEF Abstract!OpaqueSlot, Slot
        <4> QED
          BY <4>5, <4>6 DEF AStep, Abstract!ANext
      <3>7. CASE Redeemed(o, h, u, r)
        <4>1. PICK i \in DOMAIN h :
                /\ u \in KeySlots[h[i].slot].allowed
                /\ r.cmd = "GET_KEYSLOT" /\ r.id = h[i].token
                /\ o.data = KeyData(h[i].slot) /\ o.handles = h
          BY <3>7 DEF Redeemed
        <4> DEFINE s == h[i].slot
        <4>2. s \in DOMAIN AbsTable /\ AbsTable[s] = Cell(h[i])
          BY <3>3 DEF IsTable
        <4>3. AbsTable[s].token = h[i].token
          BY <4>2 DEF Cell
        <4>4. Abstract!Names(c, AbsTable[s].token)
          BY <4>1, <4>3 DEF Abstract!Names
        <4>5. Abstract!Answer(c, [type |-> "key", slot |-> s])
          BY <3>1, <4>1 DEF KeyData
        <4>6. AbsTable' = AbsTable
          BY <3>4, <4>1
        <4>7. Abstract!Redeem(c, s)
          BY <1>1, <4>1, <4>4, <4>5, <4>6 DEF Abstract!Redeem
        <4> QED
          BY <4>2, <4>7 DEF AStep, Abstract!ANext
      <3>8. CASE OwnKeySent(o, h, u, r)
        <4>1. PICK s \in Slot :
                /\ KeySlots[s].handler # "get_key_handle"
                /\ KeySlots[s].uuid = u
                /\ r.cmd = "GET_KEYSLOT" /\ r.id = KeySlots[s].key_id
                /\ o.data = KeyData(s) /\ o.handles = h
          BY <3>8 DEF OwnKeySent
        <4>2. s \notin Abstract!OpaqueSlot /\ s \in DOMAIN KeySlots
          BY <4>1 DEF Abstract!OpaqueSlot, Slot
        <4>3. Abstract!Names(c, KeySlots[s].key_id)
          BY <4>1 DEF Abstract!Names
        <4>4. Abstract!Answer(c, [type |-> "key", slot |-> s])
          BY <3>1, <4>1 DEF KeyData
        <4>5. AbsTable' = AbsTable
          BY <3>4, <4>1
        <4>6. Abstract!OwnKey(c, s)
          BY <1>1, <4>1, <4>2, <4>3, <4>4, <4>5 DEF Abstract!OwnKey
        <4> QED
          BY <4>2, <4>6 DEF AStep, Abstract!ANext
      <3>9. CASE Derived(o, h, u, r)
        <4>1. /\ r.cmd = "DERIVE" /\ o.handles = h
              /\ o.data = [type |-> "derived", uuid |-> AbsSession[c]]
          BY <1>1, <3>9 DEF Derived, DerivedData
        <4>2. AbsTable' = AbsTable
          BY <3>4, <4>1
        <4>3. Abstract!Derive(c)
          BY <3>1, <4>1, <4>2 DEF Abstract!Derive
        <4> QED
          BY <4>3 DEF AStep, Abstract!ANext
      <3> QED
        BY <3>2, <3>5, <3>6, <3>7, <3>8, <3>9 DEF Explained
    <2> QED
      BY <2>3, <2>4
  <1> QED
    BY <1>3, <1>4

\* hwkey_chan_handler: a hang-up, a message, or nothing.
LEMMA ChanHandlerStep ==
    ASSUME Inv, NEW c \in Chan, NEW event \in SUBSET Pending(c),
           hwkey_chan_handler(c, event)
    PROVE  AStep
  <1>1. st[c] = "open"
    BY DEF hwkey_chan_handler
  <1>2. CASE "HUP" \in event
    <2>1. hwkey_ctx_close(c, opaque_handles)
      BY <1>2 DEF hwkey_chan_handler
    <2>2. uuid[c] \in Uuid
      BY <1>1, OpenSession
    <2>3. Extends(opaque_handles, opaque_handles, c, uuid[c])
      BY <2>2, OwnListExtends
    <2>4. Abstract!End(c)
      BY <1>1, <2>1, <2>3, SessionEnds
    <2> QED
      BY <2>4 DEF AStep, Abstract!ANext
  <1>3. CASE "HUP" \notin event
    <2>1. hwkey_chan_handle_msg(c) /\ inq[c] # <<>>
      BY <1>3 DEF hwkey_chan_handler, Pending
    <2> QED
      BY <1>1, <2>1, MessageStep
  <1> QED
    BY <1>2, <1>3

\* A connection that is refused never had a handle; one that is accepted
\* begins a session.
LEMMA PortHandlerStep ==
    ASSUME Inv, NEW c \in Chan, hwkey_port_handler(c)
    PROVE  AStep
  <1>1. /\ st[c] = "connecting" /\ uuid[c] \in Uuid /\ TypeOK
        /\ inq[c] = <<>> /\ outq[c] = <<>>
    BY DEF Inv, OnlyClientsServed, hwkey_port_handler
  <1>2. ASSUME CloseChan(c), AbsTable' = AbsTable
        PROVE  AStep
    <2>1. /\ st'[c] # "open" /\ outq'[c] = <<>> /\ inq'[c] = <<>>
          /\ \A d \in Chan \ {c} :
                /\ st'[d] = st[d] /\ uuid'[d] = uuid[d]
                /\ inq'[d] = inq[d] /\ outq'[d] = outq[d]
          /\ inq' \in [Chan -> Seq(Requests)] /\ outq' \in [Chan -> Seq(Reply)]
      BY <1>1, <1>2, ClosedChannel
    <2>2. AbsSession' = AbsSession
      BY <1>1, <2>1, SessionsKept
    <2>3. inq' = inq /\ outq' = outq
      BY <1>1, <2>1 DEF TypeOK
    <2>4. AbsInbox' = AbsInbox
      BY <2>3 DEF AbsInbox
    <2> QED
      BY <1>2, <2>2, <2>3, <2>4, Unseen
  <1>3. CASE CloseChan(c) /\ UNCHANGED opaque_handles
    BY <1>2, <1>3, TableMapping
  <1>4. CASE hwkey_ctx_close(c, opaque_handles)
    <2> DEFINE old == opaque_handles
               new == opaque_handles'
    <2>1. /\ new \in Keeping(old, {i \in DOMAIN old : old[i].owner # c})
          /\ CloseChan(c)
      BY <1>4 DEF hwkey_ctx_close
    <2>2. old \in Seq(Entry) /\ WellFormed(old)
      BY DEF Inv, TypeOK
    <2>3. /\ WellFormed(new)
          /\ \A j \in DOMAIN new : \E i \in DOMAIN old : new[j] = old[i]
          /\ \A i \in DOMAIN old :
                old[i].owner # c => \E j \in DOMAIN new : new[j] = old[i]
      BY <2>1, <2>2, ClosedList
    <2>4. \A i \in DOMAIN old : old[i].owner # c
      BY <1>1 DEF Inv, HandlesHaveLiveOwners
    <2>5. SameEntries(new, old)
      BY <2>3, <2>4 DEF SameEntries
    <2>6. IsTable(TableOf(new), new) /\ IsTable(TableOf(old), old)
      BY <2>2, <2>3, TableFacts
    <2>7. TableOf(new) = TableOf(old)
      BY <2>5, <2>6, SameTable
    <2>8. AbsTable' = AbsTable
      BY <2>7, TableMapping
    <2> QED
      BY <1>2, <2>1, <2>8
  <1>5. CASE /\ uuid[c] \in AllowedClients
             /\ st' = [st EXCEPT ![c] = "open"]
             /\ UNCHANGED <<uuid, hup, inq, outq, await, opaque_handles>>
    <2>1. st'[c] = "open" /\ \A d \in Chan \ {c} : st'[d] = st[d]
      BY <1>1, <1>5 DEF TypeOK
    <2>2. AbsSession' = [AbsSession EXCEPT ![c] = uuid[c]]
      BY <1>5, <2>1, SessionStep
    <2>3. AbsSession[c] = NoUuid
      BY <1>1 DEF AbsSession
    <2>4. AbsInbox' = AbsInbox /\ AbsTable' = AbsTable
      BY <1>5 DEF AbsInbox, AbsTable
    <2>5. AbsInbox[c] = <<>>
      BY <1>1, InboxMapping, DataOfEmpty
    <2>6. Abstract!Begin(c, uuid[c])
      BY <1>5, <2>2, <2>3, <2>4, <2>5 DEF Abstract!Begin
    <2> QED
      BY <1>1, <2>6 DEF AStep, Abstract!ANext
  <1> QED
    BY <1>3, <1>4, <1>5 DEF hwkey_port_handler

\* What the clients do: they ask, read, and give up what they have not read.
LEMMA ClientStep ==
    ASSUME Inv, NEW c \in Chan, Client(c)
    PROVE  AStep
  <1>0. TypeOK /\ outq[c] \in Seq(Reply)
    BY DEF Inv, TypeOK
  <1>1. ASSUME NEW u \in Uuid, ClientConnect(c, u)
        PROVE  AStep
    <2>1. /\ st[c] = "free" /\ st'[c] = "connecting"
          /\ \A d \in Chan \ {c} : st'[d] = st[d] /\ uuid'[d] = uuid[d]
          /\ UNCHANGED <<inq, outq, opaque_handles>>
      BY <1>0, <1>1 DEF ClientConnect, TypeOK
    <2>2. AbsSession' = AbsSession
      BY <2>1, SessionsKept
    <2>3. AbsInbox' = AbsInbox /\ AbsTable' = AbsTable
      BY <2>1 DEF AbsInbox, AbsTable
    <2> QED
      BY <2>1, <2>2, <2>3, Unseen
  <1>2. ASSUME NEW r \in Requests, ClientSend(c, r)
        PROVE  AStep
    <2>1. /\ st[c] = "open" /\ UNCHANGED <<st, uuid, outq, opaque_handles>>
          /\ inq' = [inq EXCEPT ![c] = Append(@, r)]
      BY <1>2 DEF ClientSend
    <2>2. AbsSession' = AbsSession /\ AbsInbox' = AbsInbox
          /\ AbsTable' = AbsTable
      BY <2>1 DEF AbsSession, AbsInbox, AbsTable
    <2>3. AbsSession[c] # NoUuid
      BY <2>1, OpenSession
    <2>4. Abstract!Ask(c, r)
      BY <2>1, <2>2, <2>3 DEF Abstract!Ask
    <2> QED
      BY <2>4 DEF AStep, Abstract!ANext
  <1>3. ASSUME outq[c] # <<>>, outq'[c] \in {Tail(outq[c]), <<>>},
               \A d \in Chan \ {c} : outq'[d] = outq[d],
               AbsSession' = AbsSession, UNCHANGED <<inq, opaque_handles>>
        PROVE  AStep
    <2>1. /\ AbsInbox' = [AbsInbox EXCEPT ![c] = DataOf(outq'[c])]
          /\ AbsInbox[c] = DataOf(outq[c])
      BY <1>3, InboxStep
    <2>2. DataOf(outq[c]) # <<>> /\ DataOf(Tail(outq[c])) = Tail(DataOf(outq[c]))
      BY <1>0, <1>3, DataOfTail
    <2>3. DataOf(outq'[c]) \in {Tail(AbsInbox[c]), <<>>}
      BY <1>3, <2>1, <2>2, DataOfEmpty
    <2>4. AbsTable' = AbsTable
      BY <1>3, TableMapping
    <2>5. Abstract!Read(c)
      BY <1>3, <2>1, <2>2, <2>3, <2>4 DEF Abstract!Read
    <2> QED
      BY <2>5 DEF AStep, Abstract!ANext
  <1>4. ASSUME ClientRecv(c)
        PROVE  AStep
    <2>1. /\ outq[c] # <<>> /\ outq'[c] = Tail(outq[c])
          /\ \A d \in Chan \ {c} : outq'[d] = outq[d]
          /\ UNCHANGED <<st, uuid, inq, opaque_handles>>
      BY <1>0, <1>4 DEF ClientRecv, TypeOK
    <2>2. AbsSession' = AbsSession
      BY <2>1, SessionsKept
    <2> QED
      BY <1>3, <2>1, <2>2
  <1>5. ASSUME ClientClose(c)
        PROVE  AStep
    <2>1. /\ UNCHANGED <<inq, opaque_handles>>
          /\ outq'[c] = <<>> /\ outq' \in [Chan -> Seq(Reply)]
          /\ \A d \in Chan \ {c} : outq'[d] = outq[d]
          /\ \A d \in Chan : /\ st'[d] = "open" <=> st[d] = "open"
                             /\ st[d] = "open" => uuid'[d] = uuid[d]
      <3>1. CASE st[c] \in {"connecting", "closed"} /\ Recycle(c)
        <4>1. inq[c] = <<>>
          BY <3>1 DEF Inv, OnlyClientsServed
        <4>2. inq' = inq
          BY <1>0, <3>1, <4>1 DEF Recycle, TypeOK
        <4>3. /\ outq'[c] = <<>> /\ st'[c] = "free"
              /\ \A d \in Chan \ {c} :
                    /\ outq'[d] = outq[d] /\ st'[d] = st[d]
                    /\ uuid'[d] = uuid[d]
          BY <1>0, <3>1 DEF Recycle, TypeOK
        <4>4. <<>> \in Seq(Reply)
          OBVIOUS
        <4>5. outq' \in [Chan -> Seq(Reply)]
          BY <1>0, <3>1, <4>4 DEF Recycle, TypeOK
        <4> QED
          BY <1>5, <3>1, <4>2, <4>3, <4>5 DEF ClientClose
      <3>2. CASE /\ outq' = [outq EXCEPT ![c] = <<>>]
                 /\ UNCHANGED <<st, uuid, inq>>
        <4>1. <<>> \in Seq(Reply)
          OBVIOUS
        <4> QED
          BY <1>0, <1>5, <3>2, <4>1 DEF ClientClose, TypeOK
      <3> QED
        BY <1>5, <3>1, <3>2 DEF ClientClose
    <2>2. AbsSession' = AbsSession
      BY <2>1, SessionsKept
    <2>3. CASE outq[c] # <<>>
      BY <1>3, <2>1, <2>2, <2>3
    <2>4. CASE outq[c] = <<>>
      <3>1. outq' = outq
        BY <1>0, <2>1, <2>4 DEF TypeOK
      <3>2. AbsInbox' = AbsInbox /\ AbsTable' = AbsTable
        BY <2>1, <3>1 DEF AbsInbox, AbsTable
      <3> QED
        BY <2>1, <2>2, <3>2, Unseen
    <2> QED
      BY <2>3, <2>4
  <1> QED
    BY <1>1, <1>2, <1>4, <1>5 DEF Client

-----------------------------------------------------------------------------
(* The theorem.                                                            *)

\* The service starts where the table does.
LEMMA InitialStates == Init => Abstract!AInit
  <1> SUFFICES ASSUME Init PROVE Abstract!AInit
    OBVIOUS
  <1>1. AbsSession = [c \in Chan |-> NoUuid]
    BY DEF Init, AbsSession
  <1>2. AbsInbox = [c \in Chan |-> <<>>]
    BY InboxMapping, DataOfEmpty DEF Init
  <1>3. DOMAIN opaque_handles = {}
    BY DEF Init
  <1>4. AbsTable = [s \in {} |-> <<>>]
    BY <1>3 DEF AbsTable
  <1> QED
    BY <1>1, <1>2, <1>4 DEF Abstract!AInit, Init

\* Each step is a step of the table or leaves it alone.
LEMMA Steps == Inv /\ [Next]_vars => [Abstract!ANext]_(Abstract!avars)
  <1> SUFFICES ASSUME Inv, [Next]_vars PROVE AStep
    BY DEF AStep
  <1>1. ASSUME NEW c \in Chan, Client(c) PROVE AStep
    BY <1>1, ClientStep
  <1>2. ASSUME NEW c \in Chan, hwkey_port_handler(c) PROVE AStep
    BY <1>2, PortHandlerStep
  <1>3. ASSUME NEW c \in Chan, NEW event \in SUBSET Pending(c),
               hwkey_chan_handler(c, event)
        PROVE  AStep
    BY <1>3, ChanHandlerStep
  <1>4. CASE UNCHANGED vars
    <2>1. UNCHANGED <<st, uuid, inq, outq, opaque_handles>>
      BY <1>4 DEF vars
    <2>2. AbsSession' = AbsSession /\ AbsInbox' = AbsInbox
          /\ AbsTable' = AbsTable
      BY <2>1 DEF AbsSession, AbsInbox, AbsTable
    <2> QED
      BY <2>1, <2>2, Unseen
  <1> QED
    BY <1>1, <1>2, <1>3, <1>4 DEF Next, Service

\* The service implements the table of issued handles: at every step of the
\* handlers of hwkey_srv.c and of their clients, a key of an opaque slot is
\* sent only for the token under which the slot is issued at that moment and
\* only to a reader of the slot, a slot is issued to one session at a time,
\* and closing a session takes back exactly what it was issued.
THEOREM Refinement == Spec => ImplementsOpaqueHandles
  BY InitialStates, Steps, Invariance, PTL
     DEF Spec, ImplementsOpaqueHandles, Abstract!ASpec
=============================================================================
