---------------------------- MODULE HwRngProofs ----------------------------
(***************************************************************************)
(* Safety of the hwrng service for every number of sessions, every message *)
(* size, every width of size_t and every mix of requests.                  *)
(***************************************************************************)
EXTENDS HwRng, TLAPS, SequenceTheorems

-----------------------------------------------------------------------------
(* What list_delete and list_add_tail leave of a list.                     *)

\* x is an entry of the list q.
Lists(q, x) == \E i \in DOMAIN q : q[i] = x

\* No node is in the list q twice.
NoDuplicates(q) == \A i, j \in DOMAIN q : q[i] = q[j] => i = j

\* Deleting entries from a list without duplicates leaves one, with the
\* entries that were kept.
LEMMA KeepingKeepsEntries ==
    ASSUME NEW S, NEW h \in Seq(S), NoDuplicates(h), NEW K \in SUBSET DOMAIN h,
           NEW g \in Keeping(h, K)
    PROVE  /\ g \in Seq(S) /\ NoDuplicates(g)
           /\ \A x \in S : Lists(g, x) <=> \E k \in K : h[k] = x
  <1>1. PICK f \in Enumerations(K, Len(h)) : g = [i \in DOMAIN f |-> h[f[i]]]
    BY DEF Keeping
  <1>2. PICK m \in 0..Len(h) : f \in [1..m -> K]
    BY DEF Enumerations
  <1>3. m \in Nat /\ DOMAIN f = 1..m /\ DOMAIN g = 1..m
    BY <1>1, <1>2
  <1>4. \A i \in 1..m : /\ f[i] \in K /\ f[i] \in DOMAIN h /\ f[i] \in Nat
                        /\ g[i] = h[f[i]] /\ h[f[i]] \in S
    BY <1>1, <1>2, <1>3
  <1>5. g \in Seq(S)
    <2>1. g \in [1..m -> S]
      BY <1>1, <1>3, <1>4
    <2> QED
      BY <2>1, <1>3, IsASeq
  <1>6. NoDuplicates(g)
    <2> SUFFICES ASSUME NEW i \in 1..m, NEW j \in 1..m, i # j
                 PROVE  g[i] # g[j]
      BY <1>3 DEF NoDuplicates
    <2>1. i < j \/ j < i
      BY <1>3
    <2>2. f[i] < f[j] \/ f[j] < f[i]
      BY <1>1, <1>3, <2>1 DEF Enumerations
    <2>3. f[i] # f[j]
      BY <1>4, <2>2
    <2> QED
      BY <1>4, <2>3 DEF NoDuplicates
  <1>7. \A x \in S : Lists(g, x) <=> \E k \in K : h[k] = x
    <2>1. \A k \in K : \E j \in 1..m : f[j] = k
      BY <1>1, <1>3 DEF Enumerations
    <2>2. ASSUME NEW x, Lists(g, x) PROVE \E k \in K : h[k] = x
      BY <1>3, <1>4, <2>2 DEF Lists
    <2>3. ASSUME NEW k \in K PROVE Lists(g, h[k])
      <3>1. PICK j \in 1..m : f[j] = k
        BY <2>1
      <3>2. g[j] = h[k]
        BY <1>4, <3>1
      <3> QED
        BY <1>3, <3>2 DEF Lists
    <2> QED
      BY <2>2, <2>3
  <1> QED
    BY <1>5, <1>6, <1>7

\* What deleting the nodes in Y leaves of the list h.
Without(h, Y) == Keeping(h, {i \in DOMAIN h : h[i] \notin Y})

\* Deleting the entries Y from a list keeps all others and adds none.
LEMMA DeletingKeepsEntries ==
    ASSUME NEW S, NEW h \in Seq(S), NoDuplicates(h), NEW Y,
           NEW g \in Without(h, Y)
    PROVE  /\ g \in Seq(S) /\ NoDuplicates(g)
           /\ \A x \in S : Lists(g, x) <=> Lists(h, x) /\ x \notin Y
  <1> DEFINE K == {i \in DOMAIN h : h[i] \notin Y}
  <1>1. K \in SUBSET DOMAIN h /\ g \in Keeping(h, K)
    BY DEF Without
  <1>2. \A x \in S : (\E k \in K : h[k] = x) <=> Lists(h, x) /\ x \notin Y
    BY DEF Lists
  <1> HIDE DEF K
  <1>3. /\ g \in Seq(S) /\ NoDuplicates(g)
        /\ \A x \in S : Lists(g, x) <=> \E k \in K : h[k] = x
    BY <1>1, KeepingKeepsEntries
  <1> QED
    BY <1>2, <1>3

\* list_add_tail of a node that is not in the list.
LEMMA AppendKeepsEntries ==
    ASSUME NEW S, NEW h \in Seq(S), NoDuplicates(h), NEW x \in S, ~Lists(h, x)
    PROVE  /\ Append(h, x) \in Seq(S) /\ NoDuplicates(Append(h, x))
           /\ \A y \in S : Lists(Append(h, x), y) <=> Lists(h, y) \/ y = x
  <1> DEFINE g == Append(h, x)
             n == Len(h) + 1
  <1>1. /\ g \in Seq(S) /\ DOMAIN g = 1..n /\ DOMAIN h = 1..Len(h)
        /\ Len(h) \in Nat
        /\ g[n] = x /\ \A i \in DOMAIN h : g[i] = h[i]
    BY AppendProperties
  <1>2. /\ n \in DOMAIN g /\ n \notin DOMAIN h
        /\ \A i : i \in DOMAIN g <=> i \in DOMAIN h \/ i = n
    BY <1>1
  <1> HIDE DEF g, n
  <1>3. NoDuplicates(g)
    BY <1>1, <1>2 DEF NoDuplicates, Lists
  <1>4. \A y \in S : Lists(g, y) <=> Lists(h, y) \/ y = x
    BY <1>1, <1>2 DEF Lists
  <1> QED
    BY <1>1, <1>3, <1>4 DEF g

-----------------------------------------------------------------------------
(* The state of the service.                                               *)

Messages == Lens \cup {Short}

\* The types of the state of hwrng_srv.c and of the channels it serves.
TypeOK ==
    /\ st \in [Chan -> {"free", "connecting", "open", "closed"}]
    /\ hup \in [Chan -> BOOLEAN]
    /\ inq \in [Chan -> Seq(Messages)]
    /\ outq \in [Chan -> Seq(Nat)]
    /\ unblock \in [Chan -> {"idle", "armed", "raised"}]
    /\ owed \in [Chan -> Int]
    /\ req_size \in [Chan -> Nat]
    /\ send_blocked \in [Chan -> BOOLEAN]
    /\ hwrng_req_list \in Seq(Chan)

-----------------------------------------------------------------------------
(* The inductive invariant.  A handler first changes the list, a request   *)
(* size, a flag or a queue, and then makes a pass over the list.  Ready    *)
(* says what holds between the two, of the values that the pass is given:  *)
(* X are the contexts the handler has closed by then.                      *)

\* What a channel that is not open has left: nothing that a later connection
\* on it would take over.
Clean(s, h, iq, oq, ub, ow) ==
    /\ s # "open" => ~h /\ iq = <<>> /\ ub = "idle"
    /\ s \in {"free", "connecting"} => oq = <<>> /\ ow = 0

\* What is lost when req_size wraps around some number of times.
Wraps(n) == \E k \in Nat : n = k * SizeMod

\* The bytes of an open session of c: never more on their way than are owed,
\* never more owed than the window, and as many while the client is there,
\* but for those that were lost by wrapping around.
Accounted(c, s, h, iq, oq, ow, rs) ==
    s = "open" =>
        /\ Bytes(iq) + rs + Bytes(oq) <= ow
        /\ ow <= Window[c]
        /\ ~h => Wraps(ow - (Bytes(iq) + rs + Bytes(oq)))

\* A session that is marked blocked will be woken.
WillWake(s, h, oq, ub, sb) ==
    (s = "open" /\ ~h /\ sb) => ub = "raised" \/ (ub = "armed" /\ oq # <<>>)

\* Each direction of a channel has one buffer.
AtMostOne(q) == q = <<>> \/ q = <<Head(q)>>

Ready(l, rs, sb, iq, ub, X) ==
    /\ NoDuplicates(l)
    /\ X \subseteq Chan /\ \A c \in X : st[c] = "open"
    /\ \A c \in Chan : AtMostOne(iq[c]) /\ AtMostOne(outq[c])
    /\ \A c \in Chan : hup[c] => outq[c] = <<>>
    /\ \A c \in Chan : Lists(l, c) => c \notin X /\ st[c] = "open"
    /\ \A c \in Chan \ X :
          /\ ~Lists(l, c) => rs[c] = 0 /\ ~sb[c]
          /\ Clean(st[c], hup[c], iq[c], outq[c], ub[c], owed[c])
          /\ Accounted(c, st[c], hup[c], iq[c], outq[c], owed[c], rs[c])
          /\ WillWake(st[c], hup[c], outq[c], ub[c], sb[c])

Inv ==
    /\ TypeOK
    /\ Ready(hwrng_req_list, req_size, send_blocked, inq, unblock, {})
    /\ OnlyBlockedRequestsWait

-----------------------------------------------------------------------------
(* Queues of at most one message, and sizes.                               *)

\* A queue with one message.
LEMMA SingleMessage ==
    ASSUME NEW x
    PROVE  /\ <<x>> # <<>> /\ Head(<<x>>) = x /\ Tail(<<x>>) = <<>>
           /\ Append(<<>>, x) = <<x>>
           /\ Len(<<x>>) = 1 /\ Len(<<>>) = 0
  <1>1. <<x>> # <<>> /\ Head(<<x>>) = x
    OBVIOUS
  <1>2. Tail(<<x>>) = <<>>
    OBVIOUS
  <1>3. Append(<<>>, x) = <<x>>
    OBVIOUS
  <1>4. Len(<<x>>) = 1 /\ Len(<<>>) = 0
    OBVIOUS
  <1> QED
    BY <1>1, <1>2, <1>3, <1>4

\* Receiving takes the only message.
LEMMA TakeMessage ==
    ASSUME NEW S, NEW q \in Seq(S), AtMostOne(q), q # <<>>
    PROVE  Tail(q) = <<>> /\ Head(q) \in S
  <1>1. q = <<Head(q)>>
    BY DEF AtMostOne
  <1>2. Tail(q) = <<>>
    BY <1>1, SingleMessage
  <1> QED
    BY <1>2

\* A queue with a free buffer is empty, and has one message after a send.
LEMMA PutMessage ==
    ASSUME NEW q, AtMostOne(q), ~(Len(q) >= QueueSize), NEW x
    PROVE  q = <<>> /\ Append(q, x) = <<x>> /\ AtMostOne(<<x>>)
  <1>1. q = <<>>
    <2>1. ASSUME q = <<Head(q)>> PROVE Len(q) = 1
      BY <2>1, SingleMessage
    <2> QED
      BY <2>1 DEF AtMostOne, QueueSize
  <1>2. AtMostOne(<<x>>)
    BY SingleMessage DEF AtMostOne
  <1> QED
    BY <1>1, <1>2, SingleMessage

\* The bytes of a queue with at most one message.
LEMMA BytesFacts ==
    /\ Bytes(<<>>) = 0
    /\ \A n \in Nat : Bytes(<<n>>) = n
    /\ Bytes(<<Short>>) = 0
  BY SingleMessage DEF Bytes, Short

\* The bytes of any queue are a number.
LEMMA BytesAreNat ==
    /\ \A q \in Seq(Messages) : Bytes(q) \in Nat
    /\ \A q \in Seq(Nat) : Bytes(q) \in Nat
  <1>1. Lens \subseteq Nat
    BY LensAssumption, MaxMsgAssumption
  <1>2. ASSUME NEW q \in Seq(Messages) PROVE Bytes(q) \in Nat
    <2>1. CASE q = <<>>
      BY <2>1 DEF Bytes
    <2>2. CASE q # <<>>
      <3>1. Head(q) \in Messages
        BY <2>2
      <3> QED
        BY <1>1, <3>1 DEF Bytes, Messages
    <2> QED
      BY <2>1, <2>2
  <1>3. ASSUME NEW q \in Seq(Nat) PROVE Bytes(q) \in Nat
    BY DEF Bytes, Short
  <1> QED
    BY <1>2, <1>3

\* Nothing was lost yet.
LEMMA NoWraps == Wraps(0)
  <1>1. 0 = 0 * SizeMod
    BY MaxMsgAssumption
  <1> QED
    BY <1>1 DEF Wraps

\* What is lost adds up.
LEMMA WrapsAddUp ==
    ASSUME NEW a \in Int, NEW b \in Int, Wraps(a), Wraps(b)
    PROVE  Wraps(a + b)
  <1>1. PICK j \in Nat : a = j * SizeMod
    BY DEF Wraps
  <1>2. PICK k \in Nat : b = k * SizeMod
    BY DEF Wraps
  <1>3. SizeMod \in Nat /\ j + k \in Nat
    BY MaxMsgAssumption
  <1>4. a + b = (j + k) * SizeMod
    BY <1>1, <1>2, <1>3
  <1> QED
    BY <1>3, <1>4 DEF Wraps

\* It is a multiple of SizeMod, and nothing if it is less than that.
LEMMA WrapsAreMultiples ==
    ASSUME NEW a \in Int, Wraps(a)
    PROVE  a % SizeMod = 0 /\ (a < SizeMod => a = 0)
  <1>1. SizeMod \in Nat \ {0}
    BY MaxMsgAssumption
  <1>2. PICK k \in Nat : a = k * SizeMod
    BY DEF Wraps
  <1>3. (k * SizeMod) % SizeMod = 0
    BY <1>1
  <1>4. k # 0 => SizeMod <= k * SizeMod
    BY <1>1
  <1> QED
    BY <1>1, <1>2, <1>3, <1>4

\* What ctx->req_size += req.len computes.
LEMMA SizeSum ==
    ASSUME NEW a \in Nat, NEW n \in Lens
    PROVE  /\ (a + n) % SizeMod \in Nat
           /\ (a + n) % SizeMod <= a + n
           /\ a + n < SizeMod => (a + n) % SizeMod = a + n
           /\ Wraps((a + n) - ((a + n) % SizeMod))
  <1>1. n \in Nat /\ SizeMod \in Nat /\ SizeMod > 0 /\ a + n \in Nat
    BY LensAssumption, MaxMsgAssumption
  <1>2. /\ (a + n) % SizeMod \in Nat
        /\ (a + n) % SizeMod <= a + n
        /\ a + n < SizeMod => (a + n) % SizeMod = a + n
    BY <1>1, SMTT(30)
  <1>3. /\ a + n = (SizeMod * ((a + n) \div SizeMod)) + ((a + n) % SizeMod)
        /\ (a + n) \div SizeMod \in Nat
    BY <1>1
  <1>4. (a + n) - ((a + n) % SizeMod) = ((a + n) \div SizeMod) * SizeMod
    BY <1>1, <1>3
  <1> QED
    BY <1>2, <1>3, <1>4 DEF Wraps

\* A reply is never longer than what is left to send, and is all of it if that
\* fits in a message.
LEMMA ReplyLenFacts ==
    ASSUME NEW n \in Nat
    PROVE  /\ ReplyLen(n) \in Nat /\ ReplyLen(n) <= n
           /\ n <= MaxMsgSize => ReplyLen(n) = n
  BY MaxMsgAssumption DEF ReplyLen

-----------------------------------------------------------------------------
(* The pass over the list.                                                 *)

\* One channel in a pass that finds it ready: whichever of the outcomes of
\* hwrng_handle_req_queue it meets, it is as the invariant wants it.
LEMMA PassOneChannel ==
    ASSUME TypeOK, NEW c \in Chan,
           NEW r \in Nat, NEW b \in BOOLEAN, NEW q \in Seq(Messages),
           NEW u, AtMostOne(q), AtMostOne(outq[c]),
           Accounted(c, st[c], hup[c], q, outq[c], owed[c], r),
           WillWake(st[c], hup[c], outq[c], u, b)
    PROVE  /\ Len(outq[c]) >= QueueSize =>
                  WillWake(st[c], hup[c], outq[c], "armed", TRUE)
           /\ ~(Len(outq[c]) >= QueueSize) =>
                 LET n == ReplyLen(r)
                     oq == Append(outq[c], n)
                 IN  /\ AtMostOne(oq) /\ oq \in Seq(Nat) /\ r - n \in Nat
                     /\ Accounted(c, st[c], hup[c], q, oq, owed[c], r - n)
                     /\ WillWake(st[c], hup[c], oq, u, FALSE)
  <1> DEFINE n == ReplyLen(r)
             oq == Append(outq[c], n)
  <1>1. outq[c] \in Seq(Nat) /\ owed[c] \in Int /\ hup[c] \in BOOLEAN
    BY DEF TypeOK
  <1>2. ASSUME Len(outq[c]) >= QueueSize PROVE outq[c] # <<>>
    BY <1>2, SingleMessage DEF QueueSize
  <1>3. n \in Nat /\ n <= r /\ r - n \in Nat
    BY ReplyLenFacts
  <1>4. ASSUME ~(Len(outq[c]) >= QueueSize)
        PROVE  /\ AtMostOne(oq) /\ oq \in Seq(Nat)
               /\ Accounted(c, st[c], hup[c], q, oq, owed[c], r - n)
    <2>1. outq[c] = <<>> /\ oq = <<n>> /\ AtMostOne(oq)
      BY <1>4, PutMessage
    <2>2. Bytes(outq[c]) = 0 /\ Bytes(oq) = n /\ Bytes(q) \in Nat
      BY <1>3, <2>1, BytesFacts, BytesAreNat
    <2>3. oq \in Seq(Nat)
      BY <1>1, <1>3
    <2> HIDE DEF n, oq
    <2>4. Window[c] \in Nat /\ SizeMod \in Nat
      BY LensAssumption, MaxMsgAssumption
    <2>5. Bytes(q) + (r - n) + Bytes(oq) = Bytes(q) + r + Bytes(outq[c])
      BY <1>3, <2>2
    <2>6. Accounted(c, st[c], hup[c], q, oq, owed[c], r - n)
      BY <2>5 DEF Accounted
    <2> QED
      BY <2>1, <2>3, <2>6
  <1> HIDE DEF n, oq
  <1>5. WillWake(st[c], hup[c], oq, u, FALSE)
    BY DEF WillWake
  <1>6. Len(outq[c]) >= QueueSize =>
            WillWake(st[c], hup[c], outq[c], "armed", TRUE)
    BY <1>2 DEF WillWake
  <1> QED
    BY <1>3, <1>4, <1>5, <1>6 DEF n, oq

\* A pass over a list that is ready restores the invariant, whatever the
\* random source, the buffers and the clients do.
LEMMA PassStep ==
    ASSUME TypeOK,
           NEW l \in Seq(Chan), NEW rs \in [Chan -> Nat],
           NEW sb \in [Chan -> BOOLEAN], NEW iq \in [Chan -> Seq(Messages)],
           NEW ub \in [Chan -> {"idle", "armed", "raised"}], NEW X,
           Ready(l, rs, sb, iq, ub, X),
           hwrng_handle_req_queue(l, rs, sb, iq, ub, X)
    PROVE  Inv'
  <1> DEFINE serviced == {c \in Chan : /\ \E i \in DOMAIN l : l[i] = c
                                       /\ ~sb[c]}
             len(c) == ReplyLen(rs[c])
  <1>1. PICK failed \in SUBSET serviced :
          LET blocked == {c \in serviced \ failed : Len(outq[c]) >= QueueSize}
              sent == serviced \ (failed \cup blocked)
              done == {c \in sent : rs[c] = len(c)}
          IN  /\ {c \in serviced : hup[c]} \subseteq failed
              /\ \E g \in Keeping(l, {i \in DOMAIN l :
                                        l[i] \notin failed \cup done}) :
                    hwrng_req_list' = g
              /\ outq' = [c \in Chan |->
                    IF c \in sent THEN Append(outq[c], len(c)) ELSE outq[c]]
              /\ unblock' = Update(Update(ub, blocked, "armed"),
                                   X \cup failed, "idle")
              /\ CloseChans(X \cup failed, iq, Update(sb, blocked, TRUE),
                    [c \in Chan |-> IF c \in sent THEN rs[c] - len(c)
                                                  ELSE rs[c]])
    BY DEF hwrng_handle_req_queue
  <1> DEFINE blocked == {c \in serviced \ failed : Len(outq[c]) >= QueueSize}
             sent == serviced \ (failed \cup blocked)
             done == {c \in sent : rs[c] = len(c)}
             closed == X \cup failed
  <1>2. /\ {c \in serviced : hup[c]} \subseteq failed
        /\ outq' = [c \in Chan |->
              IF c \in sent THEN Append(outq[c], len(c)) ELSE outq[c]]
        /\ unblock' = Update(Update(ub, blocked, "armed"), closed, "idle")
        /\ CloseChans(closed, iq, Update(sb, blocked, TRUE),
              [c \in Chan |-> IF c \in sent THEN rs[c] - len(c) ELSE rs[c]])
    BY <1>1
  <1>3. /\ serviced \subseteq Chan /\ failed \subseteq serviced
        /\ \A c \in serviced : Lists(l, c) /\ ~sb[c]
        /\ \A c \in Chan : Lists(l, c) /\ c \notin serviced => sb[c]
        /\ \A c \in Chan : Lists(l, c) => c \notin X /\ st[c] = "open"
        /\ X \subseteq Chan /\ \A c \in X : st[c] = "open"
    BY DEF Ready, Lists
  <1>4. \A c \in Chan : c \in closed =>
            /\ st'[c] = IF hup[c] THEN "free" ELSE "closed"
            /\ ~hup'[c] /\ inq'[c] = <<>> /\ outq'[c] = outq[c]
            /\ unblock'[c] = "idle" /\ ~send_blocked'[c] /\ req_size'[c] = 0
            /\ owed'[c] = IF hup[c] THEN 0 ELSE owed[c]
    <2>1. \A c \in Chan : c \in closed => c \notin sent
      BY <1>3
    <2> QED
      BY <1>2, <2>1 DEF CloseChans, Update
  <1>5. \A c \in Chan : c \notin closed =>
            /\ st'[c] = st[c] /\ hup'[c] = hup[c] /\ inq'[c] = iq[c]
            /\ owed'[c] = owed[c]
            /\ unblock'[c] = IF c \in blocked THEN "armed" ELSE ub[c]
            /\ send_blocked'[c] = IF c \in blocked THEN TRUE ELSE sb[c]
            /\ outq'[c] = IF c \in sent THEN Append(outq[c], len(c))
                                         ELSE outq[c]
            /\ req_size'[c] = IF c \in sent THEN rs[c] - len(c) ELSE rs[c]
    BY <1>2 DEF CloseChans, Update
  <1>6. /\ hwrng_req_list' \in Seq(Chan) /\ NoDuplicates(hwrng_req_list')
        /\ \A c \in Chan : Lists(hwrng_req_list', c)
                      <=> Lists(l, c) /\ c \notin failed \cup done
    <2> DEFINE Y == failed \cup done
    <2>1. hwrng_req_list' \in Without(l, Y)
      BY <1>1 DEF Without
    <2>2. NoDuplicates(l)
      BY DEF Ready
    <2> HIDE DEF serviced, Y, done
    <2>3. /\ hwrng_req_list' \in Seq(Chan) /\ NoDuplicates(hwrng_req_list')
          /\ \A c \in Chan : Lists(hwrng_req_list', c)
                                  <=> Lists(l, c) /\ c \notin Y
      BY <2>1, <2>2, DeletingKeepsEntries
    <2> QED
      BY <2>3 DEF Y
  <1> HIDE DEF serviced, blocked, sent, done, closed, len
  <1>7. /\ \A c \in Chan : c \in closed <=> c \in X \/ c \in failed
        /\ \A c \in blocked : c \in serviced /\ Len(outq[c]) >= QueueSize
        /\ \A c \in sent : /\ c \in serviced /\ c \notin blocked
                           /\ ~(Len(outq[c]) >= QueueSize)
        /\ \A c \in serviced : c \in failed \/ c \in blocked \/ c \in sent
        /\ \A c \in done : c \in sent /\ rs[c] = len(c)
        /\ \A c \in sent : rs[c] = len(c) => c \in done
    BY DEF blocked, sent, done, closed
  <1>8. ASSUME NEW c \in Chan, c \notin closed
        PROVE  /\ inq'[c] \in Seq(Messages) /\ AtMostOne(inq'[c])
               /\ outq'[c] \in Seq(Nat) /\ AtMostOne(outq'[c])
               /\ hup'[c] => outq'[c] = <<>>
               /\ req_size'[c] \in Nat
               /\ Clean(st'[c], hup'[c], inq'[c], outq'[c], unblock'[c],
                        owed'[c])
               /\ Accounted(c, st'[c], hup'[c], inq'[c], outq'[c], owed'[c],
                            req_size'[c])
               /\ WillWake(st'[c], hup'[c], outq'[c], unblock'[c],
                           send_blocked'[c])
    <2>1. /\ rs[c] \in Nat /\ sb[c] \in BOOLEAN /\ iq[c] \in Seq(Messages)
          /\ outq[c] \in Seq(Nat) /\ AtMostOne(iq[c]) /\ AtMostOne(outq[c])
          /\ hup[c] => outq[c] = <<>>
          /\ Clean(st[c], hup[c], iq[c], outq[c], ub[c], owed[c])
          /\ Accounted(c, st[c], hup[c], iq[c], outq[c], owed[c], rs[c])
          /\ WillWake(st[c], hup[c], outq[c], ub[c], sb[c])
      BY <1>7, <1>8 DEF Ready, TypeOK
    <2>2. CASE c \in sent
      <3>0. /\ outq'[c] = Append(outq[c], ReplyLen(rs[c]))
            /\ req_size'[c] = rs[c] - ReplyLen(rs[c])
            /\ ~(Len(outq[c]) >= QueueSize)
        BY <1>5, <1>7, <1>8, <2>2 DEF len
      <3>1. /\ AtMostOne(outq'[c]) /\ outq'[c] \in Seq(Nat)
            /\ req_size'[c] \in Nat
            /\ Accounted(c, st[c], hup[c], iq[c], outq'[c], owed[c],
                         req_size'[c])
            /\ WillWake(st[c], hup[c], outq'[c], ub[c], FALSE)
        BY <2>1, <3>0, PassOneChannel
      <3>2. st[c] = "open" /\ send_blocked'[c] = FALSE /\ ~hup[c]
        <4>1. c \in serviced /\ c \notin failed
          BY <1>7, <1>8, <2>2
        <4> QED
          BY <1>2, <1>3, <1>5, <1>7, <1>8, <2>1, <2>2, <4>1
      <3>3. Clean(st[c], hup[c], iq[c], outq'[c], ub[c], owed[c])
        BY <3>2 DEF Clean
      <3> QED
        BY <1>5, <1>7, <1>8, <2>1, <2>2, <3>1, <3>2, <3>3
    <2>3. CASE c \in blocked
      <3>1. WillWake(st[c], hup[c], outq[c], "armed", TRUE)
        BY <1>7, <2>1, <2>3, PassOneChannel
      <3>2. st[c] = "open"
        BY <1>3, <1>7, <2>3
      <3>3. Clean(st[c], hup[c], iq[c], outq[c], "armed", owed[c])
        BY <3>2 DEF Clean
      <3> QED
        BY <1>5, <1>7, <1>8, <2>1, <2>3, <3>1, <3>3
    <2>4. CASE c \notin sent /\ c \notin blocked
      BY <1>5, <1>8, <2>1, <2>4
    <2> QED
      BY <2>2, <2>3, <2>4
  <1>9. ASSUME NEW c \in Chan, c \in closed
        PROVE  /\ inq'[c] \in Seq(Messages) /\ AtMostOne(inq'[c])
               /\ outq'[c] \in Seq(Nat) /\ AtMostOne(outq'[c])
               /\ req_size'[c] \in Nat
               /\ st'[c] \in {"free", "closed"}
               /\ Clean(st'[c], hup'[c], inq'[c], outq'[c], unblock'[c],
                        owed'[c])
               /\ Accounted(c, st'[c], hup'[c], inq'[c], outq'[c], owed'[c],
                            req_size'[c])
               /\ WillWake(st'[c], hup'[c], outq'[c], unblock'[c],
                           send_blocked'[c])
    <2>1. AtMostOne(outq[c]) /\ outq[c] \in Seq(Nat) /\ hup[c] \in BOOLEAN
      BY DEF Ready, TypeOK
    <2>2. /\ st'[c] \in {"free", "closed"} /\ inq'[c] = <<>>
          /\ outq'[c] = outq[c] /\ req_size'[c] = 0
      BY <1>4, <1>9
    <2>3. <<>> \in Seq(Messages) /\ AtMostOne(<<>>)
      BY DEF AtMostOne
    <2>4. /\ Accounted(c, st'[c], hup'[c], inq'[c], outq'[c], owed'[c],
                       req_size'[c])
          /\ WillWake(st'[c], hup'[c], outq'[c], unblock'[c], send_blocked'[c])
      BY <2>2 DEF Accounted, WillWake
    <2>5. hup[c] => outq[c] = <<>>
      BY DEF Ready
    <2>6. Clean(st'[c], hup'[c], inq'[c], outq'[c], unblock'[c], owed'[c])
      BY <1>4, <1>9, <2>1, <2>2, <2>5 DEF Clean
    <2> QED
      BY <2>1, <2>2, <2>3, <2>4, <2>6
  <1>10. TypeOK'
    <2>1. st' \in [Chan -> {"free", "connecting", "open", "closed"}]
      <3>1. st' = [c \in Chan |-> st'[c]]
        BY <1>2 DEF CloseChans
      <3>2. \A c \in Chan : st'[c] \in {"free", "connecting", "open", "closed"}
        BY <1>5, <1>9 DEF TypeOK
      <3> QED
        BY <3>1, <3>2
    <2>2. hup' \in [Chan -> BOOLEAN]
      BY <1>2 DEF CloseChans, Update, TypeOK
    <2>3. inq' \in [Chan -> Seq(Messages)]
      <3>1. inq' = [c \in Chan |-> inq'[c]]
        BY <1>2 DEF CloseChans, Update
      <3>2. \A c \in Chan : inq'[c] \in Seq(Messages)
        BY <1>8, <1>9
      <3> QED
        BY <3>1, <3>2
    <2>4. outq' \in [Chan -> Seq(Nat)]
      <3>1. outq' = [c \in Chan |-> outq'[c]]
        BY <1>2
      <3>2. \A c \in Chan : outq'[c] \in Seq(Nat)
        BY <1>8, <1>9
      <3> QED
        BY <3>1, <3>2
    <2>5. unblock' \in [Chan -> {"idle", "armed", "raised"}]
      BY <1>2 DEF Update
    <2>6. owed' \in [Chan -> Int]
      BY <1>2 DEF CloseChans, Update, TypeOK
    <2>7. req_size' \in [Chan -> Nat]
      <3>1. req_size' = [c \in Chan |-> req_size'[c]]
        BY <1>2 DEF CloseChans, Update
      <3>2. \A c \in Chan : req_size'[c] \in Nat
        BY <1>8, <1>9
      <3> QED
        BY <3>1, <3>2
    <2>8. send_blocked' \in [Chan -> BOOLEAN]
      BY <1>2 DEF CloseChans, Update
    <2> QED
      BY <1>6, <2>1, <2>2, <2>3, <2>4, <2>5, <2>6, <2>7, <2>8 DEF TypeOK
  <1>11. \A c \in Chan : Lists(hwrng_req_list', c) => st'[c] = "open"
    BY <1>3, <1>5, <1>6, <1>7
  <1>12. ASSUME NEW c \in Chan, ~Lists(hwrng_req_list', c)
         PROVE  req_size'[c] = 0 /\ ~send_blocked'[c]
    <2>1. CASE c \in closed
      BY <1>4, <2>1
    <2>2. CASE c \notin closed /\ ~Lists(l, c)
      <3>1. c \notin serviced /\ rs[c] = 0 /\ ~sb[c]
        BY <1>3, <1>7, <2>2 DEF Ready
      <3> QED
        BY <1>5, <1>7, <2>2, <3>1
    <2>3. CASE c \notin closed /\ Lists(l, c)
      <3>1. c \in done
        BY <1>6, <1>7, <1>12, <2>3
      <3>2. c \in sent /\ rs[c] = len(c) /\ ~sb[c] /\ c \notin blocked
        BY <1>3, <1>7, <3>1
      <3>3. req_size'[c] = rs[c] - rs[c] /\ send_blocked'[c] = sb[c]
        BY <1>5, <2>3, <3>2
      <3>4. rs[c] - rs[c] = 0
        OBVIOUS
      <3> QED
        BY <3>2, <3>3, <3>4
    <2> QED
      BY <2>1, <2>2, <2>3
  <1>13. Ready(hwrng_req_list, req_size, send_blocked, inq, unblock, {})'
    <2>1. \A c \in Chan : /\ AtMostOne(inq'[c]) /\ AtMostOne(outq'[c])
                          /\ hup'[c] => outq'[c] = <<>>
      BY <1>4, <1>8, <1>9
    <2>2. \A c \in Chan :
              /\ Clean(st'[c], hup'[c], inq'[c], outq'[c], unblock'[c],
                       owed'[c])
              /\ Accounted(c, st'[c], hup'[c], inq'[c], outq'[c], owed'[c],
                           req_size'[c])
              /\ WillWake(st'[c], hup'[c], outq'[c], unblock'[c],
                          send_blocked'[c])
      BY <1>8, <1>9
    <2> QED
      BY <1>6, <1>11, <1>12, <2>1, <2>2 DEF Ready
  <1>14. OnlyBlockedRequestsWait'
    <2> SUFFICES ASSUME NEW c \in Chan, Lists(hwrng_req_list', c), c \in Modest
                 PROVE  send_blocked'[c]
      BY <1>6 DEF OnlyBlockedRequestsWait, Lists, Modest
    <2>1. Lists(l, c) /\ c \notin failed /\ c \notin done /\ c \notin X
      BY <1>3, <1>6
    <2>2. c \notin closed /\ st[c] = "open"
      BY <1>3, <1>7, <2>1
    <2>3. c \notin sent
      <3>1. rs[c] <= MaxMsgSize
        <4>1. /\ Accounted(c, st[c], hup[c], iq[c], outq[c], owed[c], rs[c])
              /\ iq[c] \in Seq(Messages) /\ outq[c] \in Seq(Nat)
              /\ owed[c] \in Int /\ rs[c] \in Nat
          BY <2>1 DEF Ready, TypeOK
        <4>2. Bytes(iq[c]) \in Nat /\ Bytes(outq[c]) \in Nat
          BY <4>1, BytesAreNat
        <4>3. /\ Window[c] \in Nat /\ MaxMsgSize \in Nat
              /\ Window[c] <= MaxMsgSize
          BY LensAssumption, MaxMsgAssumption DEF Modest
        <4>4. /\ Bytes(iq[c]) + rs[c] + Bytes(outq[c]) <= owed[c]
              /\ owed[c] <= Window[c]
          BY <2>2, <4>1 DEF Accounted
        <4> QED
          BY <4>1, <4>2, <4>3, <4>4
      <3>2. rs[c] = len(c)
        BY <3>1, ReplyLenFacts DEF len
      <3> QED
        BY <1>7, <2>1, <3>2
    <2> QED
      BY <1>3, <1>5, <1>7, <2>1, <2>2, <2>3
  <1> QED
    BY <1>10, <1>13, <1>14 DEF Inv

-----------------------------------------------------------------------------
(* What the handlers do before the pass.                                   *)

\* hwrng_close_chan of c leaves the list ready for a pass.
LEMMA CloseStep ==
    ASSUME Inv, NEW c \in Chan, st[c] = "open",
           NEW sb \in [Chan -> BOOLEAN],
           NEW ub \in [Chan -> {"idle", "armed", "raised"}],
           \A d \in Chan \ {c} : sb[d] = send_blocked[d] /\ ub[d] = unblock[d],
           CloseAndKick(c, sb, ub)
    PROVE  Inv'
  <1>1. PICK l \in Keeping(hwrng_req_list, {i \in DOMAIN hwrng_req_list :
                                                 hwrng_req_list[i] # c}) :
            hwrng_handle_req_queue(l, req_size, sb, inq, ub, {c})
    BY DEF CloseAndKick, hwrng_kick_req_queue
  <1>2. /\ TypeOK /\ hwrng_req_list \in Seq(Chan)
        /\ req_size \in [Chan -> Nat] /\ inq \in [Chan -> Seq(Messages)]
    BY DEF Inv, TypeOK
  <1>3. NoDuplicates(hwrng_req_list)
    BY DEF Inv, Ready
  <1>4. /\ l \in Seq(Chan) /\ NoDuplicates(l)
        /\ \A d \in Chan : Lists(l, d) <=> Lists(hwrng_req_list, d) /\ d # c
    <2>1. l \in Without(hwrng_req_list, {c})
      BY DEF Without
    <2>2. \A d : d \notin {c} <=> d # c
      OBVIOUS
    <2> QED
      BY <1>2, <1>3, <2>1, <2>2, DeletingKeepsEntries
  <1>5. Ready(l, req_size, sb, inq, ub, {c})
    <2>1. Ready(hwrng_req_list, req_size, send_blocked, inq, unblock, {})
      BY DEF Inv
    <2> QED
      BY <1>4, <2>1 DEF Ready
  <1> QED
    BY <1>1, <1>2, <1>4, <1>5, PassStep

\* hwrng_chan_handle_msg: the request leaves the queue for req_size, without a
\* byte being lost on the way, but SizeMod of them if the sum wraps around.
LEMMA RequestAccounted ==
    ASSUME TypeOK, NEW c \in Chan, st[c] = "open", NEW n \in Lens,
           inq[c] = <<n>>,
           NEW r \in Nat, r = req_size[c],
           Accounted(c, st[c], hup[c], inq[c], outq[c], owed[c], r)
    PROVE  /\ (r + n) % SizeMod \in Nat
           /\ Accounted(c, st[c], hup[c], <<>>, outq[c], owed[c],
                        (r + n) % SizeMod)
           /\ n \in Nat /\ (r = 0 => (r + n) % SizeMod = n)
  <1> DEFINE m == (r + n) % SizeMod
  <1>1. n \in Nat /\ n < SizeMod /\ SizeMod \in Nat /\ Window[c] \in Nat
    BY LensAssumption, MaxMsgAssumption
  <1>2. /\ m \in Nat /\ m <= r + n /\ (r + n < SizeMod => m = r + n)
        /\ Wraps((r + n) - m)
    BY SizeSum
  <1> HIDE DEF m
  <1>3. /\ Bytes(inq[c]) = n /\ Bytes(<<>>) = 0 /\ Bytes(outq[c]) \in Nat
        /\ owed[c] \in Int
    BY <1>1, BytesFacts, BytesAreNat DEF TypeOK
  <1>4. /\ n + r + Bytes(outq[c]) <= owed[c] /\ owed[c] <= Window[c]
        /\ ~hup[c] => Wraps(owed[c] - (n + r + Bytes(outq[c])))
    BY <1>3 DEF Accounted
  <1>5. 0 + m + Bytes(outq[c]) <= owed[c]
    BY <1>1, <1>2, <1>3, <1>4
  <1>6. ASSUME ~hup[c] PROVE Wraps(owed[c] - (0 + m + Bytes(outq[c])))
    <2> DEFINE b == owed[c] - (n + r + Bytes(outq[c]))
               d == (r + n) - m
    <2>1. b \in Int /\ d \in Int /\ b + d = owed[c] - (0 + m + Bytes(outq[c]))
      <3>1. \A x, y \in Int : /\ x - (n + r + y) \in Int /\ (r + n) - m \in Int
                                /\ (x - (n + r + y)) + ((r + n) - m) = x - (0 + m + y)
        BY <1>1, <1>2
      <3>2. owed[c] \in Int /\ Bytes(outq[c]) \in Int
        BY <1>3
      <3> QED
        BY <3>1, <3>2, Zenon
    <2>2. Wraps(b) /\ Wraps(d)
      BY <1>2, <1>4, <1>6
    <2> HIDE DEF b, d
    <2>3. Wraps(b + d)
      BY <2>1, <2>2, WrapsAddUp
    <2> QED
      BY <2>1, <2>3
  <1>7. Accounted(c, st[c], hup[c], <<>>, outq[c], owed[c], m)
    BY <1>3, <1>4, <1>5, <1>6 DEF Accounted
  <1>8. r = 0 => m = n
    BY <1>1, <1>2
  <1> QED
    BY <1>1, <1>2, <1>7, <1>8 DEF m

\* hwrng_chan_handle_msg and the pass after it: a request that is extended, a
\* new one, or a message that is too short.
LEMMA MessageStep ==
    ASSUME Inv, NEW c \in Chan, st[c] = "open", inq[c] # <<>>,
           NEW sb \in [Chan -> BOOLEAN],
           NEW ub \in [Chan -> {"idle", "armed", "raised"}],
           \A d \in Chan \ {c} : sb[d] = send_blocked[d] /\ ub[d] = unblock[d],
           Ready(hwrng_req_list, req_size, sb, inq, ub, {}),
           MsgAndKick(c, sb, ub)
    PROVE  Inv'
  <1> DEFINE n == Head(inq[c])
             iq == [inq EXCEPT ![c] = Tail(@)]
             rs == [req_size EXCEPT ![c] = (@ + n) % SizeMod]
  <1>1. /\ TypeOK /\ hwrng_req_list \in Seq(Chan)
        /\ req_size \in [Chan -> Nat] /\ inq \in [Chan -> Seq(Messages)]
    BY DEF Inv, TypeOK
  <1>2. inq[c] = <<n>> /\ Tail(inq[c]) = <<>> /\ n \in Messages
    <2>1. AtMostOne(inq[c]) /\ inq[c] \in Seq(Messages)
      BY <1>1 DEF Ready
    <2> QED
      BY <2>1, TakeMessage DEF AtMostOne
  <1>3. CASE n = Short
    <2>1. CloseAndKick(c, sb, ub)
      BY <1>3 DEF MsgAndKick
    <2> QED
      BY <2>1, CloseStep
  <1>4. CASE n # Short
    <2>1. n \in Lens
      BY <1>2, <1>4 DEF Messages
    <2>2. Accounted(c, st[c], hup[c], inq[c], outq[c], owed[c], req_size[c])
      BY DEF Ready
    <2>3. /\ (req_size[c] + n) % SizeMod \in Nat
          /\ Accounted(c, st[c], hup[c], <<>>, outq[c], owed[c],
                       (req_size[c] + n) % SizeMod)
          /\ n \in Nat /\ (req_size[c] = 0 => (req_size[c] + n) % SizeMod = n)
      <3>1. req_size[c] \in Nat
        BY <1>1
      <3> HIDE DEF n
      <3> QED
        BY <1>1, <1>2, <2>1, <2>2, <3>1, RequestAccounted
    <2>4. /\ iq \in [Chan -> Seq(Messages)] /\ iq[c] = <<>>
          /\ \A d \in Chan \ {c} : iq[d] = inq[d]
      BY <1>1, <1>2
    <2>5. /\ rs \in [Chan -> Nat] /\ rs[c] = (req_size[c] + n) % SizeMod
          /\ \A d \in Chan \ {c} : rs[d] = req_size[d]
      BY <1>1, <2>3
    <2> HIDE DEF n, iq, rs
    <2>6. ASSUME NEW l \in Seq(Chan), NoDuplicates(l),
                 \A d \in Chan :
                     Lists(l, d) <=> Lists(hwrng_req_list, d) \/ d = c
          PROVE  Ready(l, rs, sb, iq, ub, {})
      <3>1. \A d \in Chan : AtMostOne(iq[d])
        BY <2>4 DEF Ready, AtMostOne
      <3>2. /\ Clean(st[c], hup[c], iq[c], outq[c], ub[c], owed[c])
            /\ Accounted(c, st[c], hup[c], iq[c], outq[c], owed[c], rs[c])
        BY <2>3, <2>4, <2>5 DEF Clean
      <3>3. \A d \in Chan \ {c} :
              /\ Clean(st[d], hup[d], iq[d], outq[d], ub[d], owed[d])
              /\ Accounted(d, st[d], hup[d], iq[d], outq[d], owed[d], rs[d])
        BY <2>4, <2>5 DEF Ready
      <3> QED
        BY <2>5, <2>6, <3>1, <3>2, <3>3 DEF Ready
    <2>7. CASE InList(c)
      <3>1. hwrng_handle_req_queue(hwrng_req_list, rs, sb, iq, ub, {})
        BY <1>4, <2>7 DEF MsgAndKick, hwrng_kick_req_queue, n, iq, rs
      <3>2. NoDuplicates(hwrng_req_list) /\ Lists(hwrng_req_list, c)
        BY <2>7 DEF Ready, InList, Lists
      <3> QED
        BY <1>1, <2>4, <2>5, <2>6, <3>1, <3>2, PassStep
    <2>8. CASE ~InList(c)
      <3>1. NoDuplicates(hwrng_req_list) /\ ~Lists(hwrng_req_list, c)
        BY <2>8 DEF Ready, InList, Lists
      <3>2. req_size[c] = 0
        BY <3>1 DEF Ready
      <3>3. rs = [req_size EXCEPT ![c] = n]
        BY <2>3, <3>2 DEF rs
      <3> DEFINE l == Append(hwrng_req_list, c)
      <3>4. hwrng_handle_req_queue(l, rs, sb, iq, ub, {})
        BY <1>4, <2>8, <3>3 DEF MsgAndKick, hwrng_kick_req_queue, n, iq
      <3>5. /\ l \in Seq(Chan) /\ NoDuplicates(l)
            /\ \A d \in Chan :
                  Lists(l, d) <=> Lists(hwrng_req_list, d) \/ d = c
        BY <1>1, <3>1, AppendKeepsEntries
      <3> HIDE DEF l
      <3> QED
        BY <1>1, <2>4, <2>5, <2>6, <3>4, <3>5, PassStep
    <2> QED
      BY <2>7, <2>8
  <1> QED
    BY <1>3, <1>4

\* hwrng_chan_handler for every event it can be called with.
LEMMA ChanHandlerStep ==
    ASSUME Inv, NEW c \in Chan, NEW event \in SUBSET Pending(c),
           hwrng_chan_handler(c, event)
    PROVE  Inv'
  <1> DEFINE woken == "SEND_UNBLOCKED" \in event
             sb == IF woken THEN [send_blocked EXCEPT ![c] = FALSE]
                            ELSE send_blocked
             ub == IF woken THEN [unblock EXCEPT ![c] = "idle"] ELSE unblock
  <1>1. /\ TypeOK /\ hwrng_req_list \in Seq(Chan)
        /\ req_size \in [Chan -> Nat] /\ inq \in [Chan -> Seq(Messages)]
        /\ send_blocked \in [Chan -> BOOLEAN]
        /\ unblock \in [Chan -> {"idle", "armed", "raised"}]
        /\ Ready(hwrng_req_list, req_size, send_blocked, inq, unblock, {})
    BY DEF Inv, TypeOK
  <1>2. st[c] = "open" /\ event # {}
    BY DEF hwrng_chan_handler
  <1>3. CASE "HUP" \in event
    <2>1. CloseAndKick(c, send_blocked, unblock)
      BY <1>3 DEF hwrng_chan_handler
    <2> QED
      BY <1>1, <1>2, <2>1, CloseStep
  <1>4. CASE "HUP" \notin event
    <2>1. /\ sb \in [Chan -> BOOLEAN]
          /\ ub \in [Chan -> {"idle", "armed", "raised"}]
          /\ \A d \in Chan \ {c} : sb[d] = send_blocked[d] /\ ub[d] = unblock[d]
          /\ \/ sb[c] = send_blocked[c] /\ ub[c] = unblock[c]
             \/ sb[c] = FALSE /\ ub[c] = "idle"
      BY <1>1
    <2>2. /\ "MSG" \in event => MsgAndKick(c, sb, ub)
          /\ "MSG" \notin event => hwrng_handle_req_queue(hwrng_req_list,
                                         req_size, sb, inq, ub, {})
      BY <1>4 DEF hwrng_chan_handler, hwrng_kick_req_queue
    <2>3. "MSG" \in event => inq[c] # <<>>
      BY DEF Pending
    <2> HIDE DEF sb, ub, woken
    <2>4. Ready(hwrng_req_list, req_size, sb, inq, ub, {})
      <3>1. ASSUME NEW d \in Chan
            PROVE  /\ ~Lists(hwrng_req_list, d) => req_size[d] = 0 /\ ~sb[d]
                   /\ Clean(st[d], hup[d], inq[d], outq[d], ub[d], owed[d])
                   /\ WillWake(st[d], hup[d], outq[d], ub[d], sb[d])
        BY <1>1, <2>1 DEF Ready, Clean, WillWake
      <3> QED
        BY <1>1, <3>1 DEF Ready
    <2> QED
      BY <1>1, <1>2, <2>1, <2>2, <2>3, <2>4, MessageStep, PassStep
  <1> QED
    BY <1>3, <1>4

\* Steps that leave the list, the sizes and the flags alone and change one
\* channel only.
LEMMA ChannelStep ==
    ASSUME Inv, TypeOK', NEW c \in Chan,
           UNCHANGED <<req_size, send_blocked, hwrng_req_list>>,
           \A d \in Chan \ {c} :
               /\ st'[d] = st[d] /\ hup'[d] = hup[d] /\ inq'[d] = inq[d]
               /\ outq'[d] = outq[d] /\ unblock'[d] = unblock[d]
               /\ owed'[d] = owed[d],
           st[c] = "open" => st'[c] = "open",
           AtMostOne(inq'[c]), AtMostOne(outq'[c]),
           hup'[c] => outq'[c] = <<>>,
           Clean(st'[c], hup'[c], inq'[c], outq'[c], unblock'[c], owed'[c]),
           Accounted(c, st'[c], hup'[c], inq'[c], outq'[c], owed'[c],
                     req_size[c]),
           WillWake(st'[c], hup'[c], outq'[c], unblock'[c], send_blocked[c])
    PROVE  Inv'
  <1>1. Ready(hwrng_req_list, req_size, send_blocked, inq, unblock, {})
    BY DEF Inv
  <1>2. \A d \in Chan : Lists(hwrng_req_list, d) => st'[d] = "open"
    BY <1>1 DEF Ready
  <1>3. \A d \in Chan : /\ AtMostOne(inq'[d]) /\ AtMostOne(outq'[d])
                        /\ hup'[d] => outq'[d] = <<>>
    BY <1>1 DEF Ready
  <1>4. \A d \in Chan :
            /\ Clean(st'[d], hup'[d], inq'[d], outq'[d], unblock'[d], owed'[d])
            /\ Accounted(d, st'[d], hup'[d], inq'[d], outq'[d], owed'[d],
                         req_size[d])
            /\ WillWake(st'[d], hup'[d], outq'[d], unblock'[d],
                        send_blocked[d])
    BY <1>1 DEF Ready
  <1>5. Ready(hwrng_req_list, req_size, send_blocked, inq, unblock, {})'
    BY <1>1, <1>2, <1>3, <1>4 DEF Ready
  <1>6. OnlyBlockedRequestsWait'
    BY DEF Inv, OnlyBlockedRequestsWait
  <1> QED
    BY <1>5, <1>6 DEF Inv

\* What is known of channel c before a step of the kernel or of its client.
LEMMA ChannelFacts ==
    ASSUME Inv, NEW c \in Chan
    PROVE  /\ AtMostOne(inq[c]) /\ AtMostOne(outq[c])
           /\ hup[c] => outq[c] = <<>>
           /\ Clean(st[c], hup[c], inq[c], outq[c], unblock[c], owed[c])
           /\ Accounted(c, st[c], hup[c], inq[c], outq[c], owed[c], req_size[c])
           /\ WillWake(st[c], hup[c], outq[c], unblock[c], send_blocked[c])
           /\ st[c] # "open" => req_size[c] = 0 /\ ~send_blocked[c]
           /\ inq[c] \in Seq(Messages) /\ outq[c] \in Seq(Nat)
           /\ owed[c] \in Int /\ req_size[c] \in Nat /\ hup[c] \in BOOLEAN
           /\ unblock[c] \in {"idle", "armed", "raised"}
           /\ TypeOK
  BY DEF Inv, Ready, TypeOK

\* hwrng_port_handler: a new session starts with nothing owed.
LEMMA PortHandlerStep ==
    ASSUME Inv, NEW c \in Chan, hwrng_port_handler(c)
    PROVE  Inv'
  <1>1. PICK s \in {"open", "closed"} : st' = [st EXCEPT ![c] = s]
    BY DEF hwrng_port_handler
  <1>2. /\ st[c] = "connecting"
        /\ UNCHANGED <<hup, inq, outq, unblock, owed, req_size, send_blocked,
                       hwrng_req_list>>
    BY DEF hwrng_port_handler
  <1>3. TypeOK' /\ st'[c] = s /\ \A d \in Chan \ {c} : st'[d] = st[d]
    BY <1>1, <1>2 DEF Inv, TypeOK
  <1>4. /\ ~hup[c] /\ inq[c] = <<>> /\ unblock[c] = "idle" /\ outq[c] = <<>>
        /\ owed[c] = 0 /\ req_size[c] = 0 /\ ~send_blocked[c]
    BY <1>2, ChannelFacts DEF Clean
  <1>5. Clean(st'[c], hup'[c], inq'[c], outq'[c], unblock'[c], owed'[c])
    BY <1>2, <1>3, <1>4 DEF Clean
  <1>6. Accounted(c, st'[c], hup'[c], inq'[c], outq'[c], owed'[c], req_size[c])
    <2>1. Window[c] \in Nat
      BY LensAssumption
    <2>2. Bytes(inq'[c]) = 0 /\ Bytes(outq'[c]) = 0 /\ owed'[c] = 0
      BY <1>2, <1>4, BytesFacts
    <2>3. owed'[c] - (Bytes(inq'[c]) + req_size[c] + Bytes(outq'[c])) = 0
      BY <1>4, <2>2
    <2> QED
      BY <1>4, <2>1, <2>2, <2>3, NoWraps DEF Accounted
  <1>7. WillWake(st'[c], hup'[c], outq'[c], unblock'[c], send_blocked[c])
    BY <1>4 DEF WillWake
  <1> QED
    BY <1>2, <1>3, <1>4, <1>5, <1>6, <1>7, ChannelStep DEF AtMostOne

\* What clients do: connect, ask, read and hang up.
LEMMA ConnectStep ==
    ASSUME Inv, NEW c \in Chan, ClientConnect(c)
    PROVE  Inv'
  <1>1. /\ st[c] = "free" /\ st'[c] = "connecting"
        /\ \A d \in Chan \ {c} : st'[d] = st[d]
        /\ UNCHANGED <<hup, inq, outq, unblock, owed, req_size, send_blocked,
                       hwrng_req_list>>
        /\ TypeOK'
    BY DEF Inv, TypeOK, ClientConnect
  <1>2. /\ Clean(st'[c], hup'[c], inq'[c], outq'[c], unblock'[c], owed'[c])
        /\ Accounted(c, st'[c], hup'[c], inq'[c], outq'[c], owed'[c],
                     req_size[c])
        /\ WillWake(st'[c], hup'[c], outq'[c], unblock'[c], send_blocked[c])
    BY <1>1, ChannelFacts DEF Clean, Accounted, WillWake
  <1> QED
    BY <1>1, <1>2, ChannelFacts, ChannelStep

\* A client asks for more, within its window.
LEMMA SendStep ==
    ASSUME Inv, NEW c \in Chan, NEW n \in Messages, ClientSend(c, n)
    PROVE  Inv'
  <1> DEFINE k == IF n = Short THEN 0 ELSE n
  <1>1. /\ st[c] = "open" /\ ~hup[c] /\ ~(Len(inq[c]) >= QueueSize)
        /\ n # Short => owed[c] + n <= Window[c]
        /\ inq' = [inq EXCEPT ![c] = Append(inq[c], n)]
        /\ owed' = [owed EXCEPT ![c] = owed[c] + k]
        /\ UNCHANGED <<st, hup, outq, unblock, req_size, send_blocked,
                       hwrng_req_list>>
    <2>1. Len(inq[c]) \in Nat
      BY ChannelFacts
    <2> QED
      BY <2>1 DEF ClientSend, QueueSize
  <1>2. inq[c] = <<>> /\ Append(inq[c], n) = <<n>> /\ AtMostOne(<<n>>)
    BY <1>1, ChannelFacts, PutMessage
  <1>3. k \in Nat /\ Bytes(<<n>>) = k /\ Bytes(inq[c]) = 0
    <2>1. n \in Lens => n \in Nat /\ n # Short
      BY LensAssumption, MaxMsgAssumption DEF Short
    <2> QED
      BY <1>2, <2>1, BytesFacts DEF Messages
  <1> HIDE DEF k
  <1>4. /\ inq'[c] = <<n>> /\ owed'[c] = owed[c] + k
        /\ \A d \in Chan \ {c} : inq'[d] = inq[d] /\ owed'[d] = owed[d]
    BY <1>1, <1>2 DEF Inv, TypeOK
  <1>5. TypeOK'
    <2>1. Append(inq[c], n) \in Seq(Messages) /\ owed[c] + k \in Int
      BY <1>3, ChannelFacts
    <2> QED
      BY <1>1, <2>1 DEF Inv, TypeOK
  <1>6. Accounted(c, st'[c], hup'[c], inq'[c], outq'[c], owed'[c], req_size[c])
    <2>1. /\ Bytes(outq[c]) \in Nat /\ req_size[c] \in Nat /\ owed[c] \in Int
          /\ Window[c] \in Nat
      BY BytesAreNat, ChannelFacts, LensAssumption
    <2>2. /\ 0 + req_size[c] + Bytes(outq[c]) <= owed[c]
          /\ owed[c] <= Window[c]
          /\ Wraps(owed[c] - (0 + req_size[c] + Bytes(outq[c])))
      BY <1>1, <1>3, ChannelFacts DEF Accounted
    <2>3. owed[c] + k <= Window[c]
      BY <1>1, <2>1, <2>2 DEF k
    <2>4. /\ k + req_size[c] + Bytes(outq[c]) <= owed[c] + k
          /\ (owed[c] + k) - (k + req_size[c] + Bytes(outq[c]))
                = owed[c] - (0 + req_size[c] + Bytes(outq[c]))
      BY <1>3, <2>1, <2>2
    <2> QED
      BY <1>1, <1>3, <1>4, <2>2, <2>3, <2>4 DEF Accounted
  <1>7. Clean(st'[c], hup'[c], inq'[c], outq'[c], unblock'[c], owed'[c])
    BY <1>1 DEF Clean
  <1> QED
    BY <1>1, <1>2, <1>4, <1>5, <1>6, <1>7, ChannelFacts, ChannelStep

\* A client reads, which raises SEND_UNBLOCKED for a blocked session.
LEMMA RecvStep ==
    ASSUME Inv, NEW c \in Chan, ClientRecv(c)
    PROVE  Inv'
  <1> DEFINE n == Head(outq[c])
  <1>1. /\ st[c] \in {"open", "closed"} /\ ~hup[c] /\ outq[c] # <<>>
        /\ outq' = [outq EXCEPT ![c] = Tail(outq[c])]
        /\ owed' = [owed EXCEPT ![c] = owed[c] - n]
        /\ unblock' = [unblock EXCEPT ![c] =
                          IF unblock[c] = "armed" THEN "raised" ELSE unblock[c]]
        /\ UNCHANGED <<st, hup, inq, req_size, send_blocked, hwrng_req_list>>
    BY DEF ClientRecv
  <1>2. n \in Nat /\ Tail(outq[c]) = <<>> /\ outq[c] = <<n>>
    BY <1>1, ChannelFacts, TakeMessage DEF AtMostOne
  <1>3. Bytes(outq[c]) = n /\ Bytes(<<>>) = 0
    BY <1>2, BytesFacts
  <1> HIDE DEF n
  <1>4. /\ outq'[c] = <<>> /\ owed'[c] = owed[c] - n
        /\ unblock'[c] = IF unblock[c] = "armed" THEN "raised" ELSE unblock[c]
        /\ \A d \in Chan \ {c} : /\ outq'[d] = outq[d] /\ owed'[d] = owed[d]
                                  /\ unblock'[d] = unblock[d]
    BY <1>1, <1>2 DEF Inv, TypeOK
  <1>5. TypeOK'
    <2>1. /\ <<>> \in Seq(Nat) /\ owed[c] - n \in Int
          /\ unblock'[c] \in {"idle", "armed", "raised"}
      BY <1>2, <1>4, ChannelFacts
    <2> QED
      BY <1>1, <1>2, <2>1 DEF Inv, TypeOK
  <1>6. Accounted(c, st'[c], hup'[c], inq'[c], outq'[c], owed'[c], req_size[c])
    <2>1. /\ Bytes(inq[c]) \in Nat /\ req_size[c] \in Nat /\ owed[c] \in Int
          /\ Window[c] \in Nat
      BY BytesAreNat, ChannelFacts, LensAssumption
    <2>2. st[c] = "open" =>
          /\ Bytes(inq[c]) + req_size[c] + n <= owed[c]
          /\ owed[c] <= Window[c]
          /\ Wraps(owed[c] - (Bytes(inq[c]) + req_size[c] + n))
      BY <1>1, <1>3, ChannelFacts DEF Accounted
    <2>3. st[c] = "open" =>
          /\ Bytes(inq[c]) + req_size[c] + 0 <= owed[c] - n
          /\ owed[c] - n <= Window[c]
          /\ (owed[c] - n) - (Bytes(inq[c]) + req_size[c] + 0)
                = owed[c] - (Bytes(inq[c]) + req_size[c] + n)
      BY <1>2, <2>1, <2>2
    <2> QED
      BY <1>1, <1>3, <1>4, <2>2, <2>3 DEF Accounted
  <1>7. Clean(st'[c], hup'[c], inq'[c], outq'[c], unblock'[c], owed'[c])
    BY <1>1, <1>4, ChannelFacts DEF Clean
  <1>8. WillWake(st'[c], hup'[c], outq'[c], unblock'[c], send_blocked[c])
    BY <1>1, <1>4, ChannelFacts DEF WillWake
  <1>9. AtMostOne(outq'[c])
    BY <1>4 DEF AtMostOne
  <1> QED
    BY <1>1, <1>4, <1>5, <1>6, <1>7, <1>8, <1>9, ChannelFacts, ChannelStep

\* A client hangs up: what was on its way to it is dropped.
LEMMA HangUpStep ==
    ASSUME Inv, NEW c \in Chan, ClientClose(c)
    PROVE  Inv'
  <1>1. /\ outq' = [outq EXCEPT ![c] = <<>>]
        /\ UNCHANGED <<inq, unblock, req_size, send_blocked, hwrng_req_list>>
    BY DEF ClientClose
  <1>2. /\ outq'[c] = <<>> /\ \A d \in Chan \ {c} : outq'[d] = outq[d]
        /\ outq' \in [Chan -> Seq(Nat)]
        /\ AtMostOne(outq'[c])
    <2>1. <<>> \in Seq(Nat)
      OBVIOUS
    <2> QED
      BY <1>1, <2>1 DEF Inv, TypeOK, AtMostOne
  <1>3. CASE /\ st[c] \in {"connecting", "closed"}
             /\ st' = [st EXCEPT ![c] = "free"]
             /\ owed' = [owed EXCEPT ![c] = 0]
             /\ UNCHANGED hup
    <2>1. /\ st'[c] = "free" /\ owed'[c] = 0 /\ TypeOK'
          /\ \A d \in Chan \ {c} : st'[d] = st[d] /\ owed'[d] = owed[d]
      BY <1>1, <1>2, <1>3 DEF Inv, TypeOK
    <2>2. /\ Clean(st'[c], hup'[c], inq'[c], outq'[c], unblock'[c], owed'[c])
          /\ Accounted(c, st'[c], hup'[c], inq'[c], outq'[c], owed'[c],
                       req_size[c])
          /\ WillWake(st'[c], hup'[c], outq'[c], unblock'[c], send_blocked[c])
      BY <1>1, <1>2, <1>3, <2>1, ChannelFacts DEF Clean, Accounted, WillWake
    <2> QED
      BY <1>1, <1>2, <1>3, <2>1, <2>2, ChannelFacts, ChannelStep
  <1>4. CASE /\ st[c] = "open" /\ ~hup[c]
             /\ hup' = [hup EXCEPT ![c] = TRUE]
             /\ UNCHANGED <<st, owed>>
    <2>1. /\ hup'[c] = TRUE /\ TypeOK'
          /\ \A d \in Chan \ {c} : hup'[d] = hup[d]
      BY <1>1, <1>2, <1>4 DEF Inv, TypeOK
    <2>2. Accounted(c, st'[c], hup'[c], inq'[c], outq'[c], owed'[c],
                    req_size[c])
      <3>1. /\ Bytes(outq[c]) \in Nat /\ Bytes(inq[c]) \in Nat
            /\ Bytes(outq'[c]) = 0
            /\ owed[c] \in Int /\ req_size[c] \in Nat
        BY <1>2, BytesAreNat, BytesFacts, ChannelFacts
      <3>2. /\ Bytes(inq[c]) + req_size[c] + Bytes(outq[c]) <= owed[c]
            /\ owed[c] <= Window[c]
        BY <1>4, ChannelFacts DEF Accounted
      <3>3. Bytes(inq[c]) + req_size[c] + Bytes(outq'[c]) <= owed[c]
        BY <3>1, <3>2
      <3> QED
        BY <1>1, <1>4, <2>1, <3>2, <3>3 DEF Accounted
    <2>3. /\ Clean(st'[c], hup'[c], inq'[c], outq'[c], unblock'[c], owed'[c])
          /\ WillWake(st'[c], hup'[c], outq'[c], unblock'[c], send_blocked[c])
      BY <1>4, <2>1 DEF Clean, WillWake
    <2> QED
      BY <1>1, <1>2, <1>4, <2>1, <2>2, <2>3, ChannelFacts, ChannelStep
  <1> QED
    BY <1>3, <1>4 DEF ClientClose

-----------------------------------------------------------------------------
(* The theorems.                                                           *)

\* Before the first connection nothing is owed.
LEMMA InitInv == Init => Inv
  <1> SUFFICES ASSUME Init PROVE Inv
    OBVIOUS
  <1>1. TypeOK
    BY DEF Init, TypeOK
  <1>2. ASSUME NEW c \in Chan
        PROVE  /\ AtMostOne(inq[c]) /\ AtMostOne(outq[c])
               /\ hup[c] => outq[c] = <<>>
               /\ ~Lists(hwrng_req_list, c)
               /\ req_size[c] = 0 /\ ~send_blocked[c]
               /\ Clean(st[c], hup[c], inq[c], outq[c], unblock[c], owed[c])
               /\ Accounted(c, st[c], hup[c], inq[c], outq[c], owed[c],
                            req_size[c])
               /\ WillWake(st[c], hup[c], outq[c], unblock[c], send_blocked[c])
    BY DEF Init, AtMostOne, Lists, Clean, Accounted, WillWake
  <1>3. NoDuplicates(hwrng_req_list) /\ OnlyBlockedRequestsWait
    BY DEF Init, NoDuplicates, OnlyBlockedRequestsWait
  <1>4. Ready(hwrng_req_list, req_size, send_blocked, inq, unblock, {})
    BY <1>2, <1>3 DEF Ready
  <1> QED
    BY <1>1, <1>3, <1>4 DEF Inv

\* Every step of the service, of the kernel and of the clients.
LEMMA NextInv == Inv /\ [Next]_vars => Inv'
  <1> SUFFICES ASSUME Inv, [Next]_vars PROVE Inv'
    OBVIOUS
  <1>1. CASE Next
    <2>1. PICK c \in Chan : Client(c) \/ Service(c)
      BY <1>1 DEF Next
    <2>2. CASE Client(c)
      BY <2>2, ConnectStep, SendStep, RecvStep, HangUpStep DEF Client, Messages
    <2>3. CASE Service(c)
      BY <2>3, PortHandlerStep, ChanHandlerStep DEF Service
    <2> QED
      BY <2>1, <2>2, <2>3
  <1>2. CASE UNCHANGED vars
    BY <1>2 DEF vars, Inv, TypeOK, Ready, OnlyBlockedRequestsWait
  <1> QED
    BY <1>1, <1>2

\* The inductive invariant holds in every reachable state of the service.
THEOREM Invariance == Spec => []Inv
  BY InitInv, NextInv, PTL DEF Spec

\* The state of the service always has its type.
THEOREM TypeCorrect == Spec => []TypeOK
  <1>1. Inv => TypeOK
    BY DEF Inv
  <1> QED
    BY <1>1, Invariance, PTL

\* hwrng_req_list never holds a context twice or after it was freed, and a
\* context that is not in it is idle: no handler corrupts the list.
THEOREM ListConsistent == Spec => []ReqListConsistent
  <1>1. Inv => ReqListConsistent
    <2> SUFFICES ASSUME Inv PROVE ReqListConsistent
      OBVIOUS
    <2>1. /\ TypeOK
          /\ Ready(hwrng_req_list, req_size, send_blocked, inq, unblock, {})
      BY DEF Inv
    <2>2. \A i \in DOMAIN hwrng_req_list : hwrng_req_list[i] \in Chan
      BY <2>1 DEF TypeOK
    <2> QED
      BY <2>1, <2>2 DEF Ready, NoDuplicates, Lists, InList, ReqListConsistent
  <1> QED
    BY <1>1, Invariance, PTL

\* A context marked send_blocked always has its SEND_UNBLOCKED coming, in
\* whatever combination of bits the events are fetched.
THEOREM WakeupsKept == Spec => []NoLostWakeup
  <1>1. Inv => NoLostWakeup
    BY DEF Inv, Ready, WillWake, NoLostWakeup
  <1> QED
    BY <1>1, Invariance, PTL

\* After each pass a modest client in the queue waits only for its own reads.
THEOREM ModestServed == Spec => []OnlyBlockedRequestsWait
  <1>1. Inv => OnlyBlockedRequestsWait
    BY DEF Inv
  <1> QED
    BY <1>1, Invariance, PTL

\* No byte is sent twice or unasked, and none is dropped but SizeMod at a time
\* by req_size += req.len, for any number of clients and any requests.
THEOREM AllBytesConserved == Spec => []BytesConserved
  <1>1. Inv => BytesConserved
    <2> SUFFICES ASSUME Inv, NEW c \in Chan, st[c] = "open", ~hup[c]
                 PROVE  LET known == Bytes(inq[c]) + req_size[c] + Bytes(outq[c])
                        IN  known <= owed[c] /\ (owed[c] - known) % SizeMod = 0
      BY DEF BytesConserved
    <2> DEFINE known == Bytes(inq[c]) + req_size[c] + Bytes(outq[c])
    <2>1. known <= owed[c] /\ Wraps(owed[c] - known) /\ owed[c] - known \in Int
      BY ChannelFacts, BytesAreNat DEF Accounted
    <2> HIDE DEF known
    <2>2. (owed[c] - known) % SizeMod = 0
      BY <2>1, WrapsAreMultiples
    <2> QED
      BY <2>1, <2>2 DEF known
  <1> QED
    BY <1>1, Invariance, PTL

\* The account of client c is even.
Conserved(c) ==
    (st[c] = "open" /\ ~hup[c]) =>
        owed[c] = Bytes(inq[c]) + req_size[c] + Bytes(outq[c])

\* A client that keeps less than SizeMod bytes outstanding is sent exactly
\* what it asks for, whatever the other clients ask for: it is the client's
\* own window alone that keeps req_size += req.len from wrapping around.
THEOREM OwnBytesConserved ==
    ASSUME NEW c \in Chan, Window[c] < SizeMod
    PROVE  Spec => []Conserved(c)
  <1>1. ASSUME Inv, st[c] = "open", ~hup[c]
        PROVE  owed[c] = Bytes(inq[c]) + req_size[c] + Bytes(outq[c])
    <2> DEFINE known == Bytes(inq[c]) + req_size[c] + Bytes(outq[c])
    <2>1. /\ known <= owed[c] /\ Wraps(owed[c] - known) /\ owed[c] - known \in Int
          /\ owed[c] <= Window[c] /\ known \in Nat /\ owed[c] \in Int
      BY <1>1, ChannelFacts, BytesAreNat DEF Accounted
    <2>2. Window[c] \in Nat /\ SizeMod \in Nat
      BY LensAssumption, MaxMsgAssumption
    <2> HIDE DEF known
    <2>3. owed[c] - known = 0
      BY <2>1, <2>2, WrapsAreMultiples
    <2>4. owed[c] = known
      BY <2>1, <2>3
    <2> QED
      BY <2>4 DEF known
  <1>2. Inv => Conserved(c)
    BY <1>1 DEF Conserved
  <1> QED
    BY <1>2, Invariance, PTL
=============================================================================
