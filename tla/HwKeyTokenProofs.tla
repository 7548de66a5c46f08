-------------------------- MODULE HwKeyTokenProofs --------------------------
(***************************************************************************)
(* Access tokens: every token get_key_handle hands out is a string, and a  *)
(* request finds the handles whose text it carries, for every size of a    *)
(* handle and of a request, every range of bytes and every random source.  *)
(*                                                                         *)
(* A token is written in place while it is in the list, and a round that   *)
(* fell short leaves its bytes behind.  The invariant says how much of the *)
(* token the current round has written; the terminator is never written.   *)
(***************************************************************************)
EXTENDS HwKeyToken, TLAPS

Tokens == [1..HandleSize -> Byte]
Requests == [1..(MaxPayload + 1) -> Byte]

\* The first n bytes of t are text.
Text(t, n) == \A k \in 1..n : t[k] # 0

\* Types of the variables.
TypeInv ==
    /\ counter \in Nat
    /\ at \in {"draw", "copy"} /\ i \in Nat
    /\ token_offset \in 0..(HandleSize - 1)
    /\ token \in [DOMAIN token -> Tokens]
    /\ req_data \in Requests

\* The tokens: one at most is being written, and its round has filled
\* token_offset bytes of it.
TokenInv ==
    /\ filling \subseteq DOMAIN token
    /\ \A s, t \in filling : s = t
    /\ \A s \in DOMAIN token : token[s][HandleSize] = 0
    /\ \A s \in DOMAIN token \ filling : Text(token[s], HandleSize - 1)
    /\ filling = {} => at = "draw"
    /\ at = "copy" => \A s \in filling : Text(token[s], token_offset)

\* The last lookup: made on the tokens that are in the list now.
FoundInv ==
    /\ filling # {} => found = <<>>
    /\ HandlesFoundByText

Inv == TypeInv /\ TokenInv /\ FoundInv

-----------------------------------------------------------------------------
(* The comparison.                                                         *)

\* A token: text up to the terminator.
IsToken(t) == t \in Tokens /\ Text(t, HandleSize - 1) /\ t[HandleSize] = 0

\* A function on the first n numbers is a sequence of n elements.
LEMMA LenOf ==
    ASSUME NEW n \in Nat, NEW S, NEW t \in [1..n -> S]
    PROVE  t \in Seq(S) /\ Len(t) = n
OBVIOUS

\* A payload that is received leaves a buffer of bytes.
LEMMA Overwritten ==
    ASSUME NEW p \in Payloads, req_data \in Requests
    PROVE  /\ Overwrite(req_data, p) \in Requests
           /\ \A k \in 1..Len(p) : Overwrite(req_data, p)[k] = p[k]
<1>1. p \in Seq(Byte) /\ Len(p) \in Nat /\ Len(p) <= MaxPayload
  BY PayloadsAssumption
<1>2. \A k \in 1..Len(p) : p[k] \in Byte
  BY <1>1
<1> QED
  BY <1>1, <1>2, SizeAssumption DEF Overwrite, Requests

\* What Receive leaves in the buffer: the request, its terminator, and behind
\* it what was there.
LEMMA Received ==
    ASSUME NEW p \in Payloads, req_data \in Requests
    PROVE  /\ Receive(p) \in Requests
           /\ Len(p) \in Nat /\ Len(p) <= MaxPayload
           /\ \A k \in 1..Len(p) : Receive(p)[k] = p[k]
           /\ Receive(p)[Len(p) + 1] = 0
<1>1. p \in Seq(Byte) /\ Len(p) \in Nat /\ Len(p) <= MaxPayload
  BY PayloadsAssumption
<1>2. 0 \in Byte
  BY SizeAssumption DEF Byte
<1>3. Len(p) + 1 \in 1..(MaxPayload + 1)
  BY <1>1, SizeAssumption
<1> QED
  BY <1>1, <1>2, <1>3, Overwritten, SizeAssumption DEF Receive, Requests

\* The only length the text of a token has.
LEMMA TokenText ==
    ASSUME NEW t, IsToken(t)
    PROVE  /\ Len(t) = HandleSize
           /\ TextLength(t, HandleSize - 1)
           /\ \A n \in 0..HandleSize : TextLength(t, n) => n = HandleSize - 1
<1>1. t \in [1..HandleSize -> Byte] /\ HandleSize \in Nat \ {0}
  BY SizeAssumption DEF IsToken, Tokens
<1>2. Len(t) = HandleSize
  BY <1>1, LenOf
<1>3. (\A k \in 1..(HandleSize - 1) : t[k] # 0) /\ t[HandleSize] = 0
  BY DEF IsToken, Text
<1>4. TextLength(t, HandleSize - 1)
  BY <1>1, <1>2, <1>3 DEF TextLength
<1>5. ASSUME NEW n \in 0..HandleSize, TextLength(t, n)
      PROVE  n = HandleSize - 1
  <2>1. n # HandleSize
    BY <1>1, <1>3, <1>5 DEF TextLength
  <2>2. ~(n < HandleSize - 1)
    BY <1>1, <1>2, <1>3, <1>5 DEF TextLength
  <2> QED
    BY <1>1, <2>1, <2>2
<1> QED
  BY <1>2, <1>4, <1>5

\* Comparing HandleSize bytes of the buffer is comparing texts: the bytes that
\* an earlier request left behind the terminator never decide.
LEMMA ComparesText ==
    ASSUME NEW t, IsToken(t), NEW p \in Payloads, req_data \in Requests
    PROVE  (\A k \in 1..HandleSize : t[k] = Receive(p)[k]) <=> SameText(t, p)
<1> DEFINE r == Receive(p)
           m == HandleSize - 1
<1>1. /\ Len(p) \in Nat /\ Len(p) <= MaxPayload
      /\ \A k \in 1..Len(p) : r[k] = p[k]
      /\ r[Len(p) + 1] = 0
  BY Received
<1>2. /\ Len(t) = HandleSize
      /\ TextLength(t, m)
      /\ \A n \in 0..HandleSize : TextLength(t, n) => n = m
  BY TokenText
<1>3. (\A k \in 1..m : t[k] # 0) /\ t[HandleSize] = 0
  BY DEF IsToken, Text
<1>4. HandleSize \in Nat /\ m \in Nat /\ HandleSize = m + 1 /\ m \in 0..HandleSize
  BY SizeAssumption
<1> HIDE DEF r, m
<1>5. ASSUME \A k \in 1..HandleSize : t[k] = r[k]
      PROVE  SameText(t, p)
  <2>1. m <= Len(p)
    <3>1. SUFFICES ASSUME Len(p) < m PROVE FALSE
      BY <1>1, <1>4
    <3>2. Len(p) + 1 \in 1..m /\ Len(p) + 1 \in 1..HandleSize
      BY <3>1, <1>1, <1>4
    <3> QED
      BY <3>2, <1>1, <1>3, <1>5
  <2>2. \A k \in 1..m : t[k] = p[k]
    BY <2>1, <1>1, <1>4, <1>5
  <2>3. m < Len(p) => p[m + 1] = 0
    BY <1>1, <1>3, <1>4, <1>5
  <2>4. TextLength(p, m)
    BY <2>2, <2>3, <1>3 DEF TextLength
  <2> QED
    BY <1>2, <1>4, <2>1, <2>2, <2>4 DEF SameText
<1>6. ASSUME SameText(t, p)
      PROVE  \A k \in 1..HandleSize : t[k] = r[k]
  <2>1. PICK n \in 0..Len(t) : /\ n <= Len(p) /\ TextLength(t, n) /\ TextLength(p, n)
                               /\ \A k \in 1..n : t[k] = p[k]
    BY <1>6 DEF SameText
  <2>2. n = m
    BY <1>2, <2>1
  <2>3. \A k \in 1..m : t[k] = r[k]
    BY <2>1, <2>2, <1>1, <1>4
  <2>4. r[m + 1] = 0
    <3>1. CASE m < Len(p)
      <4>1. p[m + 1] = 0
        BY <2>1, <2>2, <3>1 DEF TextLength
      <4> QED
        BY <4>1, <3>1, <1>1, <1>4
    <3>2. CASE m = Len(p)
      BY <3>2, <1>1
    <3> QED
      BY <2>1, <2>2, <3>1, <3>2, <1>1, <1>4
  <2> QED
    BY <2>3, <2>4, <1>3, <1>4
<1> QED
  BY <1>5, <1>6 DEF r

-----------------------------------------------------------------------------
(* Every step keeps the invariant.                                         *)

\* Nothing is in the list at start-up, and req_data is zero.
LEMMA InitInv == Init => Inv
<1> SUFFICES ASSUME Init PROVE Inv
  OBVIOUS
<1>1. TypeInv
  BY SizeAssumption DEF Init, TypeInv, Requests, Byte, Zeros
<1>2. TokenInv
  BY DEF Init, TokenInv
<1>3. FoundInv
  BY DEF Init, FoundInv, HandlesFoundByText
<1> QED
  BY <1>1, <1>2, <1>3 DEF Inv

\* A draw leaves the counter a number.
LEMMA DrawsCount ==
    ASSUME NEW n \in Nat, counter \in Nat, Draw(n)
    PROVE  counter' \in Nat
BY SizeAssumption DEF Draw

\* A lookup stays right while the list and the lookup stay as they are.
LEMMA SameLookup ==
    ASSUME HandlesFoundByText, UNCHANGED <<token, found>>
    PROVE  HandlesFoundByText'
BY DEF HandlesFoundByText, SameText, TextLength

\* Removing the entry of one slot.
LEMMA RemovesToken ==
    ASSUME NEW s, TypeInv, TokenInv, token' = Without(s), filling \subseteq {s},
           filling' = {}, at' = "draw"
    PROVE  token' \in [DOMAIN token' -> Tokens] /\ TokenInv'
<1>1. /\ DOMAIN token' = DOMAIN token \ {s}
      /\ \A x \in DOMAIN token' : token'[x] = token[x]
  BY DEF Without
<1>2. token' \in [DOMAIN token' -> Tokens]
  BY <1>1 DEF Without, TypeInv
<1>3. \A x \in DOMAIN token' : x \in DOMAIN token \ filling
  BY <1>1
<1> QED
  BY <1>1, <1>2, <1>3 DEF TokenInv, Text

\* One step per operation; the copying loop is the one that could disturb it.
LEMMA NextInv == Inv /\ [Next]_vars => Inv'
<1> SUFFICES ASSUME Inv, [Next]_vars PROVE Inv'
  OBVIOUS
<1> USE DEF Inv
<1>1. ASSUME NEW s \in Slot, GetKeyHandle(s) PROVE Inv'
  <2>1. /\ DOMAIN token' = DOMAIN token \cup {s}
        /\ token'[s] = Zeros(HandleSize)
        /\ \A x \in DOMAIN token : token'[x] = token[x]
        /\ filling' = {s} /\ filling = {} /\ s \notin DOMAIN token
    BY <1>1 DEF GetKeyHandle
  <2>2. Zeros(HandleSize) \in Tokens /\ Zeros(HandleSize)[HandleSize] = 0
    BY SizeAssumption DEF Zeros, Tokens, Byte
  <2>3. token' \in [DOMAIN token' -> Tokens]
    BY <1>1, <2>1, <2>2 DEF GetKeyHandle, TypeInv
  <2>4. TypeInv'
    BY <1>1, <2>3 DEF GetKeyHandle, TypeInv, loop
  <2>5. TokenInv'
    <3>1. at' = "draw"
      BY <1>1 DEF GetKeyHandle, TokenInv, loop
    <3>2. \A x \in DOMAIN token' \ filling' : x \in DOMAIN token \ filling
      BY <2>1
    <3>3. \A x \in DOMAIN token' \ filling' : Text(token'[x], HandleSize - 1)
      BY <2>1, <3>2 DEF TokenInv, Text
    <3> QED
      BY <2>1, <2>2, <3>1, <3>3 DEF TokenInv
  <2>6. FoundInv'
    BY <1>1 DEF GetKeyHandle, FoundInv, HandlesFoundByText
  <2> QED
    BY <2>4, <2>5, <2>6
<1>2. ASSUME NEW s \in Slot, GetKeyHandleDraws(s) PROVE Inv'
  <2>1. counter' \in Nat
    <3>1. RandomSize \in Nat
      BY SizeAssumption DEF RandomSize
    <3> QED
      BY <1>2, <3>1, DrawsCount DEF GetKeyHandleDraws, TypeInv
  <2>2. s \in filling /\ filling # {} /\ found' = <<>> /\ filling \subseteq {s}
    BY <1>2 DEF GetKeyHandleDraws, FoundInv, TokenInv
  <2>3. FoundInv'
    BY <2>2 DEF FoundInv, HandlesFoundByText
  <2>4. CASE token' = Without(s) /\ filling' = {} /\ UNCHANGED loop
    <3>1. at' = "draw" /\ i' = i /\ token_offset' = token_offset
      BY <1>2, <2>4 DEF GetKeyHandleDraws, loop
    <3>2. token' \in [DOMAIN token' -> Tokens] /\ TokenInv'
      BY <2>2, <2>4, <3>1, RemovesToken
    <3>3. TypeInv'
      BY <1>2, <2>1, <3>1, <3>2 DEF GetKeyHandleDraws, TypeInv
    <3> QED
      BY <2>3, <3>2, <3>3
  <2>5. CASE /\ at' = "copy" /\ i' = 0 /\ token_offset' = 0
             /\ UNCHANGED <<token, filling>>
    <3>1. TypeInv'
      BY <1>2, <2>1, <2>5, SizeAssumption DEF GetKeyHandleDraws, TypeInv
    <3>2. \A x \in filling' : Text(token'[x], token_offset')
      BY <2>5 DEF Text
    <3>3. TokenInv'
      BY <2>2, <2>5, <3>2 DEF TokenInv, Text
    <3> QED
      BY <2>3, <3>1, <3>3
  <2> QED
    BY <1>2, <2>4, <2>5 DEF GetKeyHandleDraws
<1>3. ASSUME NEW s \in Slot, GetKeyHandleCopies(s) PROVE Inv'
  <2>1. PICK b \in random_buf :
          \/ b = 0 /\ UNCHANGED <<token, token_offset>>
          \/ /\ b # 0
             /\ token' = [token EXCEPT ![s][token_offset + 1] = b]
             /\ token_offset' = token_offset + 1
    BY <1>3 DEF GetKeyHandleCopies
  <2>2. b \in Byte
    <3>1. CASE source = "fake"
      <4>1. counter - RandomSize + i \in Int /\ ByteMod \in Nat \ {0}
        BY SizeAssumption DEF RandomSize, TypeInv
      <4>2. (counter - RandomSize + i) % ByteMod \in 0..(ByteMod - 1)
        BY <4>1
      <4> QED
        BY <2>1, <3>1, <4>2 DEF random_buf, Byte
    <3> QED
      BY <2>1, <3>1 DEF random_buf
  <2>3. /\ s \in filling /\ filling \subseteq {s} /\ filling # {} /\ found' = <<>>
        /\ filling' = filling /\ at = "copy" /\ at' = "copy"
        /\ counter' = counter /\ req_data' = req_data /\ i' = i + 1
    BY <1>3 DEF GetKeyHandleCopies, FoundInv, TokenInv
  <2>4. FoundInv'
    BY <2>3 DEF FoundInv, HandlesFoundByText
  <2>5. CASE UNCHANGED <<token, token_offset>>
    <3>1. TypeInv'
      BY <2>3, <2>5 DEF TypeInv
    <3>2. TokenInv'
      BY <2>3, <2>5 DEF TokenInv, Text
    <3> QED
      BY <2>4, <3>1, <3>2
  <2>6. CASE /\ b # 0
             /\ token' = [token EXCEPT ![s][token_offset + 1] = b]
             /\ token_offset' = token_offset + 1
    <3>1. /\ token_offset \in Nat /\ token_offset + 1 \in 1..(HandleSize - 1)
          /\ token_offset + 1 \in 1..HandleSize /\ token_offset + 1 # HandleSize
      BY <1>3, SizeAssumption DEF GetKeyHandleCopies, MoreToCopy, TypeInv
    <3>2. s \in DOMAIN token /\ token[s] \in Tokens
      BY <2>3 DEF TokenInv, TypeInv
    <3>3. /\ DOMAIN token' = DOMAIN token
          /\ token'[s] = [token[s] EXCEPT ![token_offset + 1] = b]
          /\ \A x \in DOMAIN token \ {s} : token'[x] = token[x]
      BY <2>6, <3>2 DEF TypeInv
    <3>4. /\ token'[s] \in Tokens
          /\ token'[s][token_offset + 1] = b
          /\ \A k \in 1..HandleSize : k # token_offset + 1 => token'[s][k] = token[s][k]
      BY <2>2, <3>1, <3>2, <3>3 DEF Tokens
    <3>5. token' \in [DOMAIN token' -> Tokens]
      BY <2>6, <3>3, <3>4 DEF TypeInv
    <3>6. TypeInv'
      BY <2>3, <2>6, <3>1, <3>5 DEF TypeInv
    <3>7. Text(token'[s], token_offset')
      BY <2>3, <2>6, <3>1, <3>4, SizeAssumption DEF TokenInv, Text
    <3>8. ASSUME NEW x \in DOMAIN token' PROVE token'[x][HandleSize] = 0
      <4>1. token[x][HandleSize] = 0 /\ HandleSize \in 1..HandleSize
        BY <3>3, <3>8, SizeAssumption DEF TokenInv
      <4>2. CASE x = s
        BY <4>1, <4>2, <3>1, <3>4
      <4> QED
        BY <4>1, <4>2, <3>3, <3>8
    <3>9. \A x \in DOMAIN token' \ filling' : Text(token'[x], HandleSize - 1)
      BY <2>3, <3>3 DEF TokenInv
    <3>10. TokenInv'
      BY <2>3, <3>3, <3>7, <3>8, <3>9 DEF TokenInv
    <3> QED
      BY <2>4, <3>6, <3>10
  <2> QED
    BY <2>1, <2>5, <2>6
<1>4. ASSUME NEW s \in Slot, GetKeyHandleRoundEnds(s) PROVE Inv'
  <2>1. /\ s \in filling /\ filling \subseteq {s} /\ found' = <<>>
        /\ filling' \in {{}, filling} /\ at = "copy" /\ at' = "draw"
        /\ counter' = counter /\ req_data' = req_data /\ i' = 0
        /\ token_offset' = 0 /\ token' = token
    BY <1>4 DEF GetKeyHandleRoundEnds, FoundInv, TokenInv
  <2>2. FoundInv'
    BY <2>1 DEF FoundInv, HandlesFoundByText
  <2>3. TypeInv'
    BY <2>1, SizeAssumption DEF TypeInv
  <2>4. ASSUME NEW x \in DOMAIN token' \ filling' PROVE Text(token[x], HandleSize - 1)
    <3>1. CASE filling' = filling
      BY <2>1, <2>4, <3>1 DEF TokenInv
    <3>2. CASE filling' # filling
      <4>1. token_offset = HandleSize - 1
        BY <1>4, <3>2 DEF GetKeyHandleRoundEnds, Filled
      <4>2. Text(token[s], HandleSize - 1)
        BY <2>1, <4>1 DEF TokenInv
      <4> QED
        BY <2>1, <2>4, <4>2 DEF TokenInv
    <3> QED
      BY <3>1, <3>2
  <2>5. TokenInv'
    BY <2>1, <2>4 DEF TokenInv
  <2> QED
    BY <2>2, <2>3, <2>5
<1>5. ASSUME NEW s \in Slot, Close(s) PROVE Inv'
  <2>1. /\ filling = {} /\ filling' = {} /\ at' = "draw" /\ found' = <<>>
        /\ i' = i /\ token_offset' = token_offset
        /\ counter' = counter /\ req_data' = req_data /\ token' = Without(s)
    BY <1>5 DEF Close, loop, TokenInv
  <2>2. token' \in [DOMAIN token' -> Tokens] /\ TokenInv'
    BY <2>1, RemovesToken
  <2>3. TypeInv'
    BY <2>1, <2>2 DEF TypeInv
  <2>4. FoundInv'
    BY <2>1 DEF FoundInv, HandlesFoundByText
  <2> QED
    BY <2>2, <2>3, <2>4
<1>6. ASSUME NEW p \in Payloads, GetOpaqueKey(p) PROVE Inv'
  <2>1. /\ filling = {} /\ filling' = {} /\ UNCHANGED <<counter, token, at, i, token_offset>>
        /\ req_data' = Receive(p)
    BY <1>6 DEF GetOpaqueKey, loop
  <2>2. req_data' \in Requests
    BY <2>1, Received DEF TypeInv
  <2>3. TypeInv'
    BY <2>1, <2>2 DEF TypeInv
  <2>4. TokenInv'
    BY <2>1 DEF TokenInv, Text
  <2>5. \A s \in DOMAIN token : IsToken(token[s])
    BY <2>1 DEF TokenInv, TypeInv, IsToken
  <2>6. \A s \in DOMAIN token :
           (\A k \in 1..HandleSize : token[s][k] = req_data'[k]) <=> SameText(token[s], p)
    BY <2>1, <2>5, ComparesText DEF TypeInv
  <2>7. /\ found'[1] = p
        /\ \A s \in DOMAIN token :
              s \in found'[2] <=> \A k \in 1..HandleSize : token[s][k] = req_data'[k]
    BY <1>6 DEF GetOpaqueKey
  <2>8. \A s \in DOMAIN token : s \in found'[2] <=> SameText(token[s], found'[1])
    BY <2>6, <2>7
  <2>9. HandlesFoundByText'
    BY <2>1, <2>8 DEF HandlesFoundByText, SameText, TextLength
  <2> QED
    BY <2>1, <2>3, <2>4, <2>9 DEF FoundInv
<1>7. ASSUME NEW p \in Payloads, Derive(p) PROVE Inv'
  <2>1. /\ UNCHANGED <<counter, token, filling, at, i, token_offset>>
        /\ found' = <<>>
        /\ req_data' = Overwrite(req_data, Zeros(Len(p)))
    BY <1>7 DEF Derive, loop
  <2>2. req_data' \in Requests
    <3>1. Len(p) \in Nat /\ 0 \in Byte
      BY PayloadsAssumption, SizeAssumption DEF Byte
    <3>2. Zeros(Len(p)) \in [1..Len(p) -> {0}]
      BY DEF Zeros
    <3>3. Len(Zeros(Len(p))) = Len(p)
      BY <3>1, <3>2, LenOf
    <3>4. \A k \in 1..(MaxPayload + 1) : k <= Len(p) => Zeros(Len(p))[k] = 0
      BY <3>1, SizeAssumption DEF Zeros
    <3> QED
      BY <2>1, <3>1, <3>3, <3>4 DEF Overwrite, TypeInv, Requests
  <2>3. TypeInv'
    BY <2>1, <2>2 DEF TypeInv
  <2>4. TokenInv'
    BY <2>1 DEF TokenInv, Text
  <2>5. FoundInv'
    BY <2>1 DEF FoundInv, HandlesFoundByText
  <2> QED
    BY <2>3, <2>4, <2>5
<1>8. ASSUME NEW n \in RngRequests, HwrngRequest(n) PROVE Inv'
  <2>1. /\ UNCHANGED <<token, filling, at, i, token_offset, req_data, found>>
        /\ Draw(n) /\ n \in Nat
    BY <1>8, PayloadsAssumption DEF HwrngRequest, loop
  <2>2. counter' \in Nat
    BY <2>1, DrawsCount DEF TypeInv
  <2>3. TypeInv'
    BY <2>1, <2>2 DEF TypeInv
  <2>4. TokenInv'
    BY <2>1 DEF TokenInv, Text
  <2>5. FoundInv'
    BY <2>1, SameLookup DEF FoundInv
  <2> QED
    BY <2>3, <2>4, <2>5
<1>9. ASSUME NEW p \in Payloads, Unsupported(p) PROVE Inv'
  <2>1. /\ UNCHANGED <<counter, token, filling, at, i, token_offset>>
        /\ found' = <<>>
        /\ req_data' = Overwrite(req_data, p)
    BY <1>9 DEF Unsupported, loop
  <2>2. TypeInv'
    BY <2>1, Overwritten DEF TypeInv
  <2>3. TokenInv'
    BY <2>1 DEF TokenInv, Text
  <2>4. FoundInv'
    BY <2>1 DEF FoundInv, HandlesFoundByText
  <2> QED
    BY <2>2, <2>3, <2>4
<1>10. CASE UNCHANGED vars
  <2>1. UNCHANGED <<counter, token, filling, at, i, token_offset, req_data, found>>
    BY <1>10 DEF vars, loop
  <2>2. TypeInv'
    BY <2>1 DEF TypeInv
  <2>3. TokenInv'
    BY <2>1 DEF TokenInv, Text
  <2>4. FoundInv'
    BY <2>1, SameLookup DEF FoundInv
  <2> QED
    BY <2>2, <2>3, <2>4
<1> QED
  BY <1>1, <1>2, <1>3, <1>4, <1>5, <1>6, <1>7, <1>8, <1>9, <1>10
     DEF Next, GetKeyHandleStep

-----------------------------------------------------------------------------
(* The theorems.                                                           *)

\* The invariant above holds after every step of get_key_handle, get_opaque_key
\* and the other requests.
THEOREM Invariance == Spec => []Inv
<1>1. Init => Inv
  BY InitInv
<1>2. Inv /\ [Next]_vars => Inv'
  BY NextInv
<1> QED
  BY <1>1, <1>2, PTL DEF Spec

\* get_key_handle hands out "a null-terminated opaque handle with no interior
\* null bytes", however often the draws fall short.
THEOREM AllTokensAreStrings == Spec => []TokensAreStrings
<1>1. Inv => TokensAreStrings
  <2> SUFFICES ASSUME Inv, NEW s \in DOMAIN token \ filling, NEW k \in 1..HandleSize
               PROVE  token[s][k] = 0 <=> k = HandleSize
    BY DEF TokensAreStrings
  <2> QED
    BY SizeAssumption DEF Inv, TokenInv, Text
<1> QED
  BY <1>1, Invariance, PTL

\* get_opaque_key finds the handles whose text a request carries and no other,
\* whatever earlier requests left in req_data.
THEOREM LookupsByText == Spec => []HandlesFoundByText
<1>1. Inv => HandlesFoundByText
  BY DEF Inv, FoundInv
<1> QED
  BY <1>1, Invariance, PTL
=============================================================================
