---------------------------- MODULE MemrefProofs ----------------------------
(***************************************************************************)
(* memref-test, for every page size, every width of size_t and however     *)
(* often the lender fails to start: the lender stays within its page       *)
(* whatever a client asks for, and the tests recv_ref and leak_creation    *)
(* pass, round after round.                                                *)
(***************************************************************************)
EXTENDS Memref, TLAPS

\* A message whose offset and size are natural numbers.
HasRegion(m) == m.offset \in Nat /\ m.size \in Nat

\* What the proof needs besides: the message in the queue has a region that
\* a size_t can hold, and the test program is at a step of one of its tests.
RegionInv ==
    /\ RegionsInPage
    /\ inq # <<>> => HasRegion(inq[1])
    /\ test \in {"free", "recv_ref", "leak_creation"}
    /\ pos \in Nat \ {0}

-----------------------------------------------------------------------------

\* A region that lender_check_region lets through is in the page, though its
\* end is the sum of two numbers a client has chosen.
LEMMA CheckedRegion ==
    ASSUME NEW m, HasRegion(m), lender_check_region(m.offset, m.size)
    PROVE  Region(m) \subseteq Index
  BY MemrefAssumption DEF HasRegion, lender_check_region, Region, Index

\* A request, accepted or refused, leaves the lender within its page and
\* the queue empty.
LEMMA MessageInPage ==
    ASSUME NEW m, HasRegion(m), RegionsInPage, lender_on_message(m)
    PROVE  RegionsInPage' /\ inq' = <<>>
<1>1. Region(m) \subseteq Index \/ ~lender_check_region(m.offset, m.size)
  BY CheckedRegion
<1>2. CASE m.cmd \in Kind /\ lender_lend(m.cmd)
  BY <1>2 DEF lender_lend, Answer, CloseSession, RegionsInPage
<1>3. CASE m.cmd = "READ_BSS" /\ lender_read_bss(m)
  BY <1>1, <1>3 DEF lender_read_bss, Answer, CloseSession, RegionsInPage
<1>4. CASE m.cmd = "WRITE_BSS" /\ lender_write_bss(m)
  BY <1>1, <1>4 DEF lender_write_bss, Answer, CloseSession, RegionsInPage
<1>5. CASE m.cmd \in {"INVALID", "SHORT"} /\ CloseSession /\ UNCHANGED <<page, touched>>
  BY <1>5 DEF CloseSession, RegionsInPage
<1> QED
  BY <1>2, <1>3, <1>4, <1>5 DEF lender_on_message

-----------------------------------------------------------------------------

\* A step of a test that sends, sends a message with a region.
SendStep(s) == s.op = "send" => HasRegion(s.arg)

\* recv_ref and leak_creation send messages with a region only.
LEMMA ScriptSends ==
    ASSUME NEW t \in {"recv_ref", "leak_creation"}
    PROVE  /\ Len(Script[t]) \in Nat
           /\ \A i \in 1..Len(Script[t]) : SendStep(Script[t][i])
<1>1. /\ Len(recv_ref) = 15
      /\ \A k \in 1..15 : SendStep(recv_ref[k])
  BY DEF recv_ref, connect, lender_lend_bss, read_bss, write_bss, Closes, Step,
         Plain, Read, Write, Msg, SendStep, HasRegion
<1>2. /\ Len(leak_creation) = 7
      /\ \A k \in 1..7 : SendStep(leak_creation[k])
  BY DEF leak_creation, connect, lender_lend_bss, Step, Plain, Msg, SendStep, HasRegion
<1>3. CASE t = "recv_ref"
  <2>1. Script[t] = recv_ref
    BY <1>3 DEF Script
  <2>2. Len(Script[t]) = 15 /\ \A k \in 1..15 : SendStep(Script[t][k])
    BY <1>1, <2>1, Zenon
  <2> QED
    BY <2>2
<1>4. CASE t = "leak_creation"
  <2>1. Script[t] = leak_creation
    BY <1>4 DEF Script
  <2>2. Len(Script[t]) = 7 /\ \A k \in 1..7 : SendStep(Script[t][k])
    BY <1>2, <2>1, Zenon
  <2> QED
    BY <2>2
<1> QED
  BY <1>3, <1>4

-----------------------------------------------------------------------------

\* Before the lender has started nothing was touched and nothing is queued.
LEMMA RegionInit == MemInit => RegionInv
  BY DEF MemInit, RegionInv, RegionsInPage

\* Every step keeps the invariant: the lender's event loop by MessageInPage,
\* the clients' because of what they send.
LEMMA RegionStep == RegionInv /\ [MemNext]_memvars => RegionInv'
<1> SUFFICES ASSUME RegionInv, [MemNext]_memvars PROVE RegionInv'
  OBVIOUS
<1> USE DEF RegionInv
<1>1. CASE init
  BY <1>1 DEF init, Exit, testvars, clientvars, RegionsInPage
<1>2. CASE EventLoop
  <2>1. UNCHANGED <<test, pos>>
    BY <1>2 DEF EventLoop, testvars
  <2>2. CASE inq # <<>> /\ inq[1].cmd = "SUICIDE" /\ Exit
    BY <2>1, <2>2 DEF Exit, RegionsInPage
  <2>3. CASE inq # <<>> /\ lender_on_message(inq[1])
    BY <2>1, <2>3, MessageInPage
  <2>4. CASE UNCHANGED <<inq, touched>>
    BY <2>1, <2>4 DEF RegionsInPage
  <2> QED
    BY <1>2, <2>2, <2>3, <2>4 DEF EventLoop
<1>3. CASE TestStep
  <2> DEFINE s == Script[test][pos]
  <2>1. test \in {"recv_ref", "leak_creation"} /\ pos \in 1..Len(Script[test])
    <3>1. test \in {"recv_ref", "leak_creation"} /\ pos <= Len(Script[test])
      BY <1>3 DEF TestStep
    <3> QED
      BY <3>1, ScriptSends
  <2>2. SendStep(s)
    BY <2>1, ScriptSends
  <2>3. test' = test /\ pos' = pos + 1
    BY <1>3 DEF TestStep
  <2>4. \/ s.op = "send" /\ send(s.arg)
        \/ UNCHANGED <<inq, touched>>
    BY <1>3 DEF TestStep, lender_connect, recv, poke, close_memref, close_chan,
                lendervars, clientvars
  <2>5. touched' = touched /\ (inq' # <<>> => HasRegion(inq'[1]))
    BY <2>2, <2>4 DEF send, SendStep
  <2> QED
    BY <2>3, <2>5 DEF RegionsInPage, HasRegion
<1>4. CASE TestEnd
  BY <1>4 DEF TestEnd, Script, lendervars, RegionsInPage
<1>5. CASE FreeStep
  <2>1. UNCHANGED <<test, pos>>
    BY <1>5 DEF FreeStep, testvars
  <2>2. CASE \E m \in FreeMessages : send(m)
    <3> PICK m \in FreeMessages : send(m)
      BY <2>2
    <3>1. HasRegion(m)
      BY DEF FreeMessages, Plain, Read, Write, Msg, Size, HasRegion
    <3> QED
      BY <2>1, <3>1 DEF send, RegionsInPage
  <2>3. CASE UNCHANGED <<inq, touched>>
    BY <2>1, <2>3 DEF RegionsInPage
  <2> QED
    BY <1>5, <2>2, <2>3 DEF FreeStep, lender_connect, recv, poke, close_memref,
                            close_chan, lendervars
<1>6. CASE UNCHANGED memvars
  BY <1>6 DEF memvars, lendervars, testvars, RegionsInPage
<1> QED
  BY <1>1, <1>2, <1>3, <1>4, <1>5, <1>6 DEF MemNext

\* Whatever offset and size a client of the lender asks for, and however wide
\* size_t is: lender_read_bss and lender_write_bss touch bytes of bss_page only.
THEOREM LenderInPage == MemSpec => []RegionsInPage
<1>1. RegionInv => RegionsInPage
  BY DEF RegionInv
<1> QED
  BY <1>1, RegionInit, RegionStep, PTL DEF MemSpec
-----------------------------------------------------------------------------
(* The tests.  What holds before each of their steps: how far the lender   *)
(* is with what the steps before have asked of it, and what is in the page. *)

NoSession == sess = "none" /\ inq = <<>>

\* The lender serves and can lend its page.
Serving == lender = "serve" /\ "BSS" \in memref

\* It has not noticed yet that the client left, and may have been told to
\* exit before.
Left == Serving /\ sess = "gone" /\ inq \in {<<>>, <<Plain("SUICIDE")>>}

\* The client has no connection: between two tests.
Idle ==
    /\ link = "none" /\ outq = <<>> /\ handle = "none"
    /\ \/ lender \in {"off", "init"} /\ NoSession /\ events = <<>>
       \/ Serving /\ NoSession /\ events = <<>>
       \/ Left /\ events = <<"chan">>

Open == Serving /\ sess = "open" /\ link = "open"
Quiet == Open /\ inq = <<>> /\ outq = <<>> /\ events = <<>>

\* The client waits for its connection.  A lender that was told to exit has
\* that before the connection.
Connecting ==
    \/ /\ link = "queued" /\ outq = <<>> /\ handle = "none"
       /\ \/ lender = "init" /\ NoSession /\ events = <<>>
          \/ Serving /\ NoSession /\ events = <<"port">>
          \/ Left /\ events = <<"chan", "port">>
    \/ Quiet

\* It has sent m, and r is or will be the answer.
Pending(m, r) ==
    /\ Open
    /\ \/ inq = <<m>> /\ outq = <<>> /\ events = <<"chan">>
       \/ inq = <<>> /\ outq = <<r>> /\ events = <<>>

\* It has told the lender to exit.
Told ==
    /\ outq = <<>> /\ handle = "none"
    /\ \/ Open /\ inq = <<Plain("SUICIDE")>> /\ events = <<"chan">>
       \/ lender = "off" /\ NoSession /\ events = <<>> /\ link = "hup"

\* Before step pos of either test, of recv_ref and of leak_creation.
BothAt ==
    /\ pos = 1 => Idle
    /\ pos = 2 => Connecting
    /\ pos = 3 => Quiet
    /\ pos = 4 => Pending(Plain("BSS"), [handle |-> "BSS"])
    /\ pos = 5 => Quiet /\ handle = "BSS"

RecvRefAt ==
    /\ pos \in {6, 8} \cup 10..15 => Quiet
    /\ pos \in 6..14 => handle = "BSS"
    /\ pos \in 6..11 => page[0] = 1
    /\ pos \in {10, 11} => page[1] = 42
    /\ pos = 7 => Pending(Read(0, 1), [data |-> << 1 >>])
    /\ pos = 9 => /\ Pending(Write(1, 1, << 42 >>), [ack |-> TRUE])
                  /\ outq # <<>> => page[1] = 42
    /\ pos = 15 => handle = "none"
    /\ pos = 16 => Idle

LeakCreationAt ==
    /\ pos = 6 => Quiet /\ handle = "none"
    /\ pos = 7 => Told
    /\ pos = 8 => Idle

\* The page is memory: a function on its indices.
PageOK == page = [i \in Index |-> page[i]]

\* The inductive invariant of the tests; a free client only has to leave the
\* page a page.
TestInv ==
    /\ failed = FALSE
    /\ PageOK
    /\ \/ test = "free"
       \/ test = "recv_ref" /\ pos \in 1..16 /\ BothAt /\ RecvRefAt
       \/ test = "leak_creation" /\ pos \in 1..8 /\ BothAt /\ LeakCreationAt

-----------------------------------------------------------------------------
(* What the lender does meanwhile.                                         *)

\* While nobody asks anything the lender at most starts, notices that its
\* client left, or exits as it was told.
LEMMA IdleKept ==
    ASSUME Idle, init \/ EventLoop
    PROVE  Idle'
<1>0. CASE init
  <2>1. lender = "init" /\ NoSession /\ events = <<>> /\ link = "none"
    BY <1>0 DEF init, Idle, Serving, Left
  <2>2. CASE Exit
    BY <2>1, <2>2 DEF Exit, Idle, NoSession
  <2>3. CASE ~Exit
    BY <1>0, <2>1, <2>3 DEF init, Idle, NoSession, Serving, clientvars, Kind
  <2> QED
    BY <2>2, <2>3
<1> SUFFICES ASSUME EventLoop PROVE Idle'
  BY <1>0
<1>1. lender = "serve" /\ events = <<"chan">> /\ EventLoop /\ Left
  BY DEF Idle, EventLoop, Serving, Left
<1>2. CASE inq = <<>>
  BY <1>1, <1>2 DEF EventLoop, Idle, Left, Serving, NoSession, clientvars
<1>3. CASE inq = <<Plain("SUICIDE")>>
  <2>1. inq # <<>> /\ inq[1].cmd = "SUICIDE"
    BY <1>3 DEF Plain, Msg
  <2>2. Exit
    BY <1>1, <2>1 DEF EventLoop
  <2> QED
    BY <1>1, <2>2 DEF Exit, Idle, Left, Serving, NoSession
<1> QED
  BY <1>1, <1>2, <1>3 DEF Left

\* A connection is answered by the lender it started, or by one that has
\* dealt with all that the client before it had sent.
LEMMA ConnectingKept ==
    ASSUME Connecting, init \/ EventLoop
    PROVE  Connecting'
<1>0. link = "queued" /\ outq = <<>> /\ handle = "none"
  BY DEF Connecting, Quiet, Open, Serving, init, EventLoop
<1>1. CASE lender = "init" /\ NoSession /\ events = <<>>
  <2>1. init
    BY <1>1 DEF EventLoop
  <2>2. CASE Exit
    BY <1>0, <1>1, <2>2 DEF Exit, Connecting, NoSession
  <2>3. CASE ~Exit
    BY <1>0, <1>1, <2>1, <2>3 DEF init, Connecting, NoSession, Serving, clientvars, Kind
  <2> QED
    BY <2>2, <2>3
<1>2. CASE Serving /\ NoSession /\ events = <<"port">>
  <2>1. EventLoop
    BY <1>2 DEF init, Serving
  <2> QED
    BY <1>0, <1>2, <2>1 DEF EventLoop, Connecting, Quiet, Open, Serving, NoSession
<1>3. CASE Left /\ events = <<"chan", "port">>
  <2>1. EventLoop /\ Head(events) = "chan" /\ Tail(events) = <<"port">>
    BY <1>3 DEF init, Serving, Left
  <2>2. CASE inq = <<>>
    BY <1>0, <1>3, <2>1, <2>2 DEF EventLoop, Connecting, Left, Serving, NoSession, clientvars
  <2>3. CASE inq = <<Plain("SUICIDE")>>
    <3>1. inq # <<>> /\ inq[1].cmd = "SUICIDE"
      BY <2>3 DEF Plain, Msg
    <3>2. Exit
      BY <2>1, <3>1 DEF EventLoop
    <3> QED
      BY <1>0, <1>3, <3>2 DEF Exit, Connecting, Left, NoSession
  <2> QED
    BY <1>3, <2>2, <2>3 DEF Left
<1> QED
  BY <1>0, <1>1, <1>2, <1>3 DEF Connecting, Quiet, Open

\* A lender that has nothing to do does nothing.
LEMMA QuietLender == Quiet => ~init /\ ~EventLoop
  BY DEF Quiet, Open, Serving, init, EventLoop

\* A lender that has answered does nothing; one that has not, handles the
\* message.
LEMMA HandlesMessage ==
    ASSUME NEW m, NEW r, Pending(m, r), m.cmd # "SUICIDE", init \/ EventLoop
    PROVE  /\ inq = <<m>> /\ outq = <<>> /\ Open
           /\ lender_on_message(m) /\ events' = <<>>
<1>1. EventLoop /\ inq = <<m>> /\ outq = <<>> /\ events = <<"chan">> /\ Open
  BY DEF Pending, Open, Serving, init, EventLoop
<1>2. Head(events) = "chan" /\ Tail(events) = <<>> /\ inq # <<>> /\ inq[1] = m /\ sess # "gone"
  BY <1>1 DEF Open
<1> QED
  BY <1>1, <1>2 DEF EventLoop

\* It answers with r if it can.
LEMMA Answers ==
    ASSUME NEW m, NEW r, Open, outq = <<>>, events' = <<>>, Answer(r),
           UNCHANGED <<lender, memref>>
    PROVE  Pending(m, r)' /\ handle' = handle /\ outq' # <<>>
  BY DEF Pending, Open, Serving, Answer

\* The page is lent.
LEMMA Lends ==
    ASSUME Pending(Plain("BSS"), [handle |-> "BSS"]), init \/ EventLoop
    PROVE  Pending(Plain("BSS"), [handle |-> "BSS"])'
<1> DEFINE m == Plain("BSS")
           r == [handle |-> "BSS"]
<1>1. m.cmd = "BSS"
  BY DEF Plain, Msg
<1>2. inq = <<m>> /\ outq = <<>> /\ Open /\ lender_on_message(m) /\ events' = <<>>
  BY <1>1, HandlesMessage
<1>3. lender_lend("BSS") /\ UNCHANGED <<lender, memref>>
  BY <1>1, <1>2 DEF lender_on_message, Kind
<1>4. CanSend(0) /\ "BSS" \in memref
  BY <1>2, MemrefAssumption DEF CanSend, Open, Serving
<1>5. Answer(r)
  BY <1>3, <1>4 DEF lender_lend
<1> HIDE DEF m, r
<1> QED
  BY <1>2, <1>3, <1>5, Answers DEF m, r

\* What the client stored in the page is what the lender reads there.
LEMMA Reads ==
    ASSUME Pending(Read(0, 1), [data |-> << 1 >>]), page[0] = 1, init \/ EventLoop
    PROVE  /\ Pending(Read(0, 1), [data |-> << 1 >>])'
           /\ handle' = handle /\ page' = page
<1> DEFINE m == Read(0, 1)
           r == [data |-> << 1 >>]
<1>1. m.cmd = "READ_BSS" /\ m.offset = 0 /\ m.size = 1
  BY DEF Read, Msg
<1>2. inq = <<m>> /\ outq = <<>> /\ Open /\ lender_on_message(m) /\ events' = <<>>
  BY <1>1, HandlesMessage
<1>3. lender_read_bss(m) /\ UNCHANGED <<lender, memref>>
  BY <1>1, <1>2 DEF lender_on_message, Kind
<1>4. CanSend(m.size) /\ lender_check_region(m.offset, m.size)
  BY <1>1, <1>2, MemrefAssumption DEF CanSend, Open, lender_check_region
<1>5. Stored(m.offset + 1 - 1) = 1
  BY <1>1, MemrefAssumption DEF Stored, Index
<1>6. [i \in 1..m.size |-> Stored(m.offset + i - 1)] = << 1 >>
  BY <1>1, <1>5
<1>7. Answer(r) /\ page' = page
  BY <1>3, <1>4, <1>6 DEF lender_read_bss
<1> HIDE DEF m, r
<1> QED
  BY <1>2, <1>3, <1>7, Answers DEF m, r

\* What the lender writes is in the page when the client has the answer, and
\* the byte before it is as it was.
LEMMA Writes ==
    ASSUME Pending(Write(1, 1, << 42 >>), [ack |-> TRUE]), init \/ EventLoop
    PROVE  /\ Pending(Write(1, 1, << 42 >>), [ack |-> TRUE])'
           /\ handle' = handle
           /\ page'[0] = page[0] /\ page'[1] = 42
           /\ page' = [i \in Index |-> page'[i]]
<1> DEFINE m == Write(1, 1, << 42 >>)
           r == [ack |-> TRUE]
<1>1. m.cmd = "WRITE_BSS" /\ m.offset = 1 /\ m.size = 1 /\ m.data = << 42 >>
  BY DEF Write, Msg
<1>2. inq = <<m>> /\ outq = <<>> /\ Open /\ lender_on_message(m) /\ events' = <<>>
  BY <1>1, HandlesMessage
<1>3. lender_write_bss(m) /\ UNCHANGED <<lender, memref>>
  BY <1>1, <1>2 DEF lender_on_message, Kind
<1>4. CanSend(0) /\ lender_check_region(m.offset, m.size) /\ Len(m.data) = m.size
  <2>1. Len(<< 42 >>) = 1
    OBVIOUS
  <2>2. CanSend(0)
    BY <1>2, MemrefAssumption DEF CanSend, Open
  <2>3. lender_check_region(1, 1)
    BY MemrefAssumption DEF lender_check_region
  <2> QED
    BY <1>1, <2>1, <2>2, <2>3, Zenon
<1>5. Answer(r)
      /\ page' = [i \in Index |-> IF i \in Region(m) THEN m.data[i - m.offset + 1] ELSE page[i]]
  BY <1>3, <1>4 DEF lender_write_bss
<1>6. Region(m) = {1} /\ 0 \in Index /\ 1 \in Index /\ m.data[1 - m.offset + 1] = 42
  BY <1>1, MemrefAssumption DEF Region, Index
<1>7. page'[0] = page[0] /\ page'[1] = 42 /\ page' = [i \in Index |-> page'[i]]
  BY <1>5, <1>6
<1> HIDE DEF m, r
<1> QED
  BY <1>2, <1>3, <1>5, <1>7, Answers DEF m, r

\* A lender that was told to exit does.
LEMMA Exits ==
    ASSUME Told, init \/ EventLoop
    PROVE  Told'
<1>1. EventLoop /\ inq = <<Plain("SUICIDE")>> /\ events = <<"chan">> /\ Open
  BY DEF Told, Open, Serving, init, EventLoop
<1>2. inq # <<>> /\ inq[1].cmd = "SUICIDE"
  BY <1>1 DEF Plain, Msg
<1>3. Exit
  BY <1>1, <1>2 DEF EventLoop
<1> QED
  BY <1>1, <1>3 DEF Exit, Told, Open, NoSession

-----------------------------------------------------------------------------
(* The steps of the tests.                                                 *)

\* The steps of leak_creation, one by one.
LEMMA LeakCreationSteps ==
    /\ Len(Script["leak_creation"]) = 7
    /\ Script["leak_creation"][1] = Step("connect", 0)
    /\ Script["leak_creation"][2] = Step("connected", 0)
    /\ Script["leak_creation"][3] = Step("send", Plain("BSS"))
    /\ Script["leak_creation"][4] = Step("recv", [handle |-> "BSS"])
    /\ Script["leak_creation"][5] = Step("close_memref", 0)
    /\ Script["leak_creation"][6] = Step("send", Plain("SUICIDE"))
    /\ Script["leak_creation"][7] = Step("close_chan", 0)
<1>1. Script["leak_creation"] = leak_creation
  BY DEF Script
<1>2. /\ Len(leak_creation) = 7
      /\ leak_creation[1] = Step("connect", 0)
      /\ leak_creation[2] = Step("connected", 0)
      /\ leak_creation[3] = Step("send", Plain("BSS"))
      /\ leak_creation[4] = Step("recv", [handle |-> "BSS"])
      /\ leak_creation[5] = Step("close_memref", 0)
      /\ leak_creation[6] = Step("send", Plain("SUICIDE"))
      /\ leak_creation[7] = Step("close_chan", 0)
  BY DEF leak_creation, connect, lender_lend_bss
<1> QED
  BY <1>1, <1>2, Zenon

\* The steps of recv_ref.
LEMMA RecvRefSteps ==
    /\ Len(Script["recv_ref"]) = 15
    /\ Script["recv_ref"][1] = Step("connect", 0)
    /\ Script["recv_ref"][2] = Step("connected", 0)
    /\ Script["recv_ref"][3] = Step("send", Plain("BSS"))
    /\ Script["recv_ref"][4] = Step("recv", [handle |-> "BSS"])
    /\ Script["recv_ref"][5] = Step("poke", <<0, 1>>)
    /\ Script["recv_ref"][6] = Step("send", Read(0, 1))
    /\ Script["recv_ref"][7] = Step("recv", [data |-> << 1 >>])
    /\ Script["recv_ref"][8] = Step("send", Write(1, 1, << 42 >>))
    /\ Script["recv_ref"][9] = Step("recv", [ack |-> TRUE])
    /\ Script["recv_ref"][10] = Step("peek", <<0, 1>>)
    /\ Script["recv_ref"][11] = Step("peek", <<1, 42>>)
    /\ Script["recv_ref"][12] = Step("poke", <<0, 0>>)
    /\ Script["recv_ref"][13] = Step("poke", <<1, 0>>)
    /\ Script["recv_ref"][14] = Step("close_memref", 0)
    /\ Script["recv_ref"][15] = Step("close_chan", 0)
<1>1. Script["recv_ref"] = recv_ref
  BY DEF Script
<1>2. Len(<< 1 >>) = 1 /\ Len(<< 42 >>) = 1
  OBVIOUS
<1>3. /\ Len(recv_ref) = 15
      /\ recv_ref[1] = Step("connect", 0)
      /\ recv_ref[2] = Step("connected", 0)
      /\ recv_ref[3] = Step("send", Plain("BSS"))
      /\ recv_ref[4] = Step("recv", [handle |-> "BSS"])
      /\ recv_ref[5] = Step("poke", <<0, 1>>)
      /\ recv_ref[6] = Step("send", Read(0, 1))
      /\ recv_ref[7] = Step("recv", [data |-> << 1 >>])
      /\ recv_ref[8] = Step("send", Write(1, 1, << 42 >>))
      /\ recv_ref[9] = Step("recv", [ack |-> TRUE])
      /\ recv_ref[10] = Step("peek", <<0, 1>>)
      /\ recv_ref[11] = Step("peek", <<1, 42>>)
      /\ recv_ref[12] = Step("poke", <<0, 0>>)
      /\ recv_ref[13] = Step("poke", <<1, 0>>)
      /\ recv_ref[14] = Step("close_memref", 0)
      /\ recv_ref[15] = Step("close_chan", 0)
  BY <1>2 DEF recv_ref, connect, lender_lend_bss, read_bss, write_bss, Closes
<1> QED
  BY <1>1, <1>3, Zenon

-----------------------------------------------------------------------------

\* The test program makes call op.
Calls(op, arg) == TestStep /\ Script[test][pos] = Step(op, arg)

\* It finds what it expects.
Meets(op, arg) ==
    /\ op = "connected" => link = "open"
    /\ op = "send" => CanAsk
    /\ op = "recv" => outq = <<arg>>
    /\ op = "peek" => handle = "BSS" /\ page[arg[1]] = arg[2]

\* What each call does, and that the test goes on if it finds what it expects.
LEMMA OneStep ==
    ASSUME NEW op, NEW arg, Calls(op, arg)
    PROVE  /\ test' = test /\ pos' = pos + 1
           /\ Meets(op, arg) => failed' = FALSE
           /\ op = "connect" => lender_connect
           /\ op = "connected" => link # "queued" /\ UNCHANGED <<lendervars, clientvars>>
           /\ op = "send" /\ CanAsk => send(arg)
           /\ op = "recv" => Returns /\ recv
           /\ op = "poke" => poke(arg[1], arg[2])
           /\ op = "peek" => UNCHANGED <<lendervars, clientvars>>
           /\ op = "close_memref" => close_memref
           /\ op = "close_chan" => close_chan
<1> DEFINE s == Script[test][pos]
<1>1. s.op = op /\ s.arg = arg
  BY DEF Step, Calls
<1>2. /\ test' = test /\ pos' = pos + 1
      /\ s.op = "connected" => link # "queued"
      /\ s.op = "recv" => Returns
      /\ failed' = ~Passes(s)
      /\ \/ s.op = "connect" /\ lender_connect
         \/ s.op = "send" /\ CanAsk /\ send(s.arg)
         \/ s.op = "recv" /\ recv
         \/ s.op = "poke" /\ poke(s.arg[1], s.arg[2])
         \/ s.op = "close_memref" /\ close_memref
         \/ s.op = "close_chan" /\ close_chan
         \/ /\ \/ s.op \in {"connected", "peek"}
               \/ s.op = "send" /\ ~CanAsk
            /\ UNCHANGED <<lendervars, clientvars>>
  BY DEF TestStep, Calls
<1> HIDE DEF s
<1>3. ASSUME Meets(op, arg)
      PROVE  failed' = FALSE
  <2>1. Passes(s)
    BY <1>1, <1>3, Zenon DEF Passes, Meets
  <2> QED
    BY <1>2, <2>1
<1> QED
  BY <1>1, <1>2, <1>3

\* Events are queued behind those that are there.
LEMMA EventFacts ==
    /\ Event(<<>>, "port") = <<"port">>
    /\ Event(<<"chan">>, "port") = <<"chan", "port">>
    /\ Event(<<>>, "chan") = <<"chan">>
    /\ Event(<<"chan">>, "chan") = <<"chan">>
<1>1. DOMAIN <<>> = {} /\ DOMAIN <<"chan">> = {1} /\ <<"chan">>[1] = "chan"
  OBVIOUS
<1>2. /\ Append(<<>>, "port") = <<"port">> /\ Append(<<>>, "chan") = <<"chan">>
      /\ Append(<<"chan">>, "port") = <<"chan", "port">>
  <2>1. Append(<<>>, "port") = <<"port">>
    OBVIOUS
  <2>2. Append(<<>>, "chan") = <<"chan">>
    OBVIOUS
  <2>3. Append(<<"chan">>, "port") = <<"chan", "port">>
    <3> DEFINE e == Append(<<"chan">>, "port")
               E == {"chan", "port"}
               f == <<"chan", "port">>
    <3>1. <<"chan">> \in Seq(E) /\ Len(<<"chan">>) = 1 /\ "port" \in E
      OBVIOUS
    <3>2. e \in Seq(E) /\ Len(e) = 2
      BY <3>1
    <3>3. e[1] = "chan" /\ e[2] = "port"
      BY <3>1, <1>1
    <3>4. f \in Seq(E) /\ Len(f) = 2 /\ f[1] = "chan" /\ f[2] = "port"
      OBVIOUS
    <3> HIDE DEF e, f
    <3>5. e \in [1..2 -> E] /\ f \in [1..2 -> E]
      BY <3>2, <3>4
    <3>6. \A i \in 1..2 : e[i] = f[i]
      BY <3>3, <3>4
    <3>7. e = f
      BY <3>5, <3>6
    <3> QED
      BY <3>7 DEF e, f
  <2> QED
    BY <2>1, <2>2, <2>3
<1>3. Event(<<>>, "port") = <<"port">> /\ Event(<<>>, "chan") = <<"chan">>
  BY <1>1, <1>2 DEF Event
<1>4. Event(<<"chan">>, "port") = <<"chan", "port">>
  <2>1. ~ \E i \in DOMAIN <<"chan">> : <<"chan">>[i] = "port"
    BY <1>1
  <2> QED
    BY <1>2, <2>1, Zenon DEF Event
<1>5. Event(<<"chan">>, "chan") = <<"chan">>
  <2>1. \E i \in DOMAIN <<"chan">> : <<"chan">>[i] = "chan"
    BY <1>1
  <2> QED
    BY <2>1, Zenon DEF Event
<1> QED
  BY <1>3, <1>4, <1>5

\* A connection is made while the lender is off, has nothing to do, or has
\* still to deal with the client before.
LEMMA Connects ==
    ASSUME Idle, Calls("connect", 0)
    PROVE  failed' = FALSE /\ Connecting' /\ page' = page
<1>0. Meets("connect", 0)
  BY DEF Meets
<1>1. failed' = FALSE /\ lender_connect
  BY <1>0, OneStep
<1> QED
  BY <1>1, EventFacts DEF Idle, Connecting, lender_connect, NoSession, Serving, Left

\* It was not hung up.
LEMMA Connected ==
    ASSUME Connecting, Calls("connected", 0)
    PROVE  failed' = FALSE /\ Quiet' /\ page' = page
<1>1. link # "queued" /\ UNCHANGED <<lendervars, clientvars>>
  BY OneStep
<1>2. Quiet /\ link = "open"
  BY <1>1 DEF Connecting, Quiet, Open
<1>3. Meets("connected", 0)
  BY <1>2 DEF Meets
<1>4. failed' = FALSE
  BY <1>3, OneStep
<1> QED
  BY <1>1, <1>2, <1>4 DEF Quiet, Open, Serving, lendervars, clientvars

\* In a quiet session a message can be sent, and the answer is pending.
LEMMA Sends ==
    ASSUME NEW m, NEW r, Quiet, Calls("send", m)
    PROVE  /\ failed' = FALSE /\ send(m) /\ Pending(m, r)'
           /\ page' = page /\ handle' = handle /\ outq' = <<>>
<1>1. CanAsk
  BY DEF Quiet, Open, CanAsk
<1>2. Meets("send", m)
  BY <1>1 DEF Meets
<1>3. failed' = FALSE /\ send(m)
  BY <1>1, <1>2, OneStep
<1> QED
  BY <1>3, EventFacts DEF Quiet, Open, Serving, send, Pending

\* The client gets the answer that is pending, and no hang-up.
LEMMA Receives ==
    ASSUME NEW m, NEW r, Pending(m, r), Calls("recv", r)
    PROVE  failed' = FALSE /\ recv /\ outq = <<r>> /\ Quiet' /\ page' = page
<1>1. Returns /\ recv
  BY OneStep
<1>2. outq = <<r>>
  BY <1>1 DEF Pending, Open, Returns
<1>3. Meets("recv", r)
  BY <1>2 DEF Meets
<1>4. failed' = FALSE
  BY <1>3, OneStep
<1> QED
  BY <1>1, <1>2, <1>4 DEF Quiet, Open, Serving, recv, Pending, lendervars

\* The client stores a byte through its mapping: it is in the page.
LEMMA Stores ==
    ASSUME NEW a \in {0, 1}, NEW b, Quiet, handle = "BSS", Calls("poke", <<a, b>>),
           page = [i \in Index |-> page[i]]
    PROVE  /\ failed' = FALSE /\ Quiet' /\ handle' = handle
           /\ page' = [page EXCEPT ![a] = b] /\ page'[a] = b
           /\ page' = [i \in Index |-> page'[i]]
<1>0. Meets("poke", <<a, b>>)
  BY DEF Meets
<1>1. failed' = FALSE /\ poke(a, b)
  <2>1. failed' = FALSE /\ poke(<<a, b>>[1], <<a, b>>[2])
    BY <1>0, OneStep, Zenon
  <2> QED
    BY <2>1
<1>2. a \in Index
  BY MemrefAssumption DEF Index
<1>3. page' = [page EXCEPT ![a] = b]
  BY <1>1 DEF poke
<1> QED
  BY <1>1, <1>2, <1>3 DEF poke, Quiet, Open, Serving, clientvars

\* It finds the byte there that it expects.
LEMMA Finds ==
    ASSUME NEW a, NEW b, Quiet, handle = "BSS", page[a] = b, Calls("peek", <<a, b>>)
    PROVE  failed' = FALSE /\ Quiet' /\ handle' = handle /\ page' = page
<1>0. Meets("peek", <<a, b>>)
  BY DEF Meets
<1>1. failed' = FALSE /\ UNCHANGED <<lendervars, clientvars>>
  BY <1>0, OneStep
<1> QED
  BY <1>1 DEF Quiet, Open, Serving, lendervars, clientvars

\* It gives the memref back.
LEMMA ClosesMemref ==
    ASSUME Quiet, Calls("close_memref", 0)
    PROVE  failed' = FALSE /\ Quiet' /\ handle' = "none" /\ page' = page
<1>0. Meets("close_memref", 0)
  BY DEF Meets
<1>1. failed' = FALSE /\ close_memref
  BY <1>0, OneStep
<1> QED
  BY <1>1 DEF close_memref, Quiet, Open, Serving, lendervars

\* It leaves, with nothing asked or with the lender told to exit.
LEMMA ClosesChannel ==
    ASSUME (Quiet /\ handle = "none") \/ Told, Calls("close_chan", 0)
    PROVE  failed' = FALSE /\ Idle' /\ page' = page
<1>0. Meets("close_chan", 0)
  BY DEF Meets
<1>1. failed' = FALSE /\ close_chan
  BY <1>0, OneStep
<1>2. CASE Quiet /\ handle = "none"
  BY <1>1, <1>2, EventFacts
     DEF close_chan, Quiet, Open, Serving, Idle, Left
<1>3. CASE Told
  BY <1>1, <1>3, EventFacts
     DEF close_chan, Told, Open, Serving, Idle, Left, NoSession
<1> QED
  BY <1>2, <1>3

\* The memref that was asked for comes with the answer.
LEMMA ReceivesMemref ==
    ASSUME Pending(Plain("BSS"), [handle |-> "BSS"]), Calls("recv", [handle |-> "BSS"])
    PROVE  failed' = FALSE /\ Quiet' /\ handle' = "BSS" /\ page' = page
<1>1. /\ failed' = FALSE /\ recv /\ outq = <<[handle |-> "BSS"]>> /\ Quiet' /\ page' = page
  BY Receives
<1>2. /\ outq # <<>> /\ "handle" \in DOMAIN outq[1] /\ outq[1].handle = "BSS"
  BY <1>1
<1> QED
  BY <1>1, <1>2 DEF recv

\* An answer to READ_BSS or WRITE_BSS brings no memref.
LEMMA ReceivesOther ==
    ASSUME NEW m, NEW r, "handle" \notin DOMAIN r, Pending(m, r), Calls("recv", r)
    PROVE  /\ failed' = FALSE /\ Quiet' /\ handle' = handle /\ page' = page
           /\ outq # <<>>
<1>1. failed' = FALSE /\ recv /\ outq = <<r>> /\ Quiet' /\ page' = page
  BY Receives
<1>2. outq # <<>> /\ "handle" \notin DOMAIN outq[1]
  BY <1>1
<1> QED
  BY <1>1, <1>2 DEF recv

\* lender_suicide: nobody waits for an answer.
LEMMA TellsToExit ==
    ASSUME Quiet, handle = "none", Calls("send", Plain("SUICIDE"))
    PROVE  failed' = FALSE /\ Told' /\ page' = page
<1>1. CanAsk
  BY DEF Quiet, Open, CanAsk
<1>2. Meets("send", Plain("SUICIDE"))
  BY <1>1 DEF Meets
<1>3. failed' = FALSE /\ send(Plain("SUICIDE"))
  BY <1>1, <1>2, OneStep
<1> QED
  BY <1>3, EventFacts DEF Quiet, Open, Serving, send, Told

-----------------------------------------------------------------------------
(* The tests pass.                                                         *)

\* Each step of recv_ref is as the one after it needs it.
LEMMA RecvRefStep ==
    ASSUME TestInv, TestStep, test = "recv_ref"
    PROVE  TestInv'
<1>1. /\ failed = FALSE /\ PageOK /\ BothAt /\ RecvRefAt /\ pos \in 1..15
  <2>1. pos <= 15
    BY RecvRefSteps DEF TestStep
  <2> QED
    BY <2>1 DEF TestInv, PageOK
<1>2. /\ pos = 1 => Calls("connect", 0)
      /\ pos = 2 => Calls("connected", 0)
      /\ pos = 3 => Calls("send", Plain("BSS"))
      /\ pos = 4 => Calls("recv", [handle |-> "BSS"])
      /\ pos = 5 => Calls("poke", <<0, 1>>)
      /\ pos = 6 => Calls("send", Read(0, 1))
      /\ pos = 7 => Calls("recv", [data |-> << 1 >>])
      /\ pos = 8 => Calls("send", Write(1, 1, << 42 >>))
      /\ pos = 9 => Calls("recv", [ack |-> TRUE])
      /\ pos = 10 => Calls("peek", <<0, 1>>)
      /\ pos = 11 => Calls("peek", <<1, 42>>)
      /\ pos = 12 => Calls("poke", <<0, 0>>)
      /\ pos = 13 => Calls("poke", <<1, 0>>)
      /\ pos = 14 => Calls("close_memref", 0)
      /\ pos = 15 => Calls("close_chan", 0)
  BY RecvRefSteps, Zenon DEF Calls
<1>3. test' = "recv_ref" /\ pos' = pos + 1 /\ pos' \in 1..16
  BY <1>1 DEF TestStep
<1>4. CASE pos = 1
  <2>1. Idle
    BY <1>1, <1>4 DEF BothAt, PageOK
  <2>2. failed' = FALSE /\ Connecting' /\ page' = page
    BY <1>2, <1>4, <2>1, Connects
  <2>3. pos' = 2
    BY <1>3, <1>4
  <2>4. PageOK'
    BY <1>1, <2>2 DEF PageOK
  <2>5. BothAt' /\ RecvRefAt'
    BY <2>1, <2>2, <2>3 DEF BothAt, RecvRefAt
  <2> QED
    BY <1>3, <2>2, <2>4, <2>5 DEF TestInv, PageOK
<1>5. CASE pos = 2
  <2>1. Connecting
    BY <1>1, <1>5 DEF BothAt, PageOK
  <2>2. failed' = FALSE /\ Quiet' /\ page' = page
    BY <1>2, <1>5, <2>1, Connected
  <2>3. pos' = 3
    BY <1>3, <1>5
  <2>4. PageOK'
    BY <1>1, <2>2 DEF PageOK
  <2>5. BothAt' /\ RecvRefAt'
    BY <2>1, <2>2, <2>3 DEF BothAt, RecvRefAt
  <2> QED
    BY <1>3, <2>2, <2>4, <2>5 DEF TestInv, PageOK
<1>6. CASE pos = 3
  <2>1. Quiet
    BY <1>1, <1>6 DEF BothAt, PageOK
  <2>2. failed' = FALSE /\ Pending(Plain("BSS"), [handle |-> "BSS"])' /\ page' = page
    BY <1>2, <1>6, <2>1, Sends
  <2>3. pos' = 4
    BY <1>3, <1>6
  <2>4. PageOK'
    BY <1>1, <2>2 DEF PageOK
  <2>5. BothAt' /\ RecvRefAt'
    BY <2>1, <2>2, <2>3 DEF BothAt, RecvRefAt
  <2> QED
    BY <1>3, <2>2, <2>4, <2>5 DEF TestInv, PageOK
<1>7. CASE pos = 4
  <2>1. Pending(Plain("BSS"), [handle |-> "BSS"])
    BY <1>1, <1>7 DEF BothAt, PageOK
  <2>2. failed' = FALSE /\ Quiet' /\ handle' = "BSS" /\ page' = page
    BY <1>2, <1>7, <2>1, ReceivesMemref
  <2>3. pos' = 5
    BY <1>3, <1>7
  <2>4. PageOK'
    BY <1>1, <2>2 DEF PageOK
  <2>5. BothAt' /\ RecvRefAt'
    BY <2>1, <2>2, <2>3 DEF BothAt, RecvRefAt
  <2> QED
    BY <1>3, <2>2, <2>4, <2>5 DEF TestInv, PageOK
<1>8. CASE pos = 5
  <2>1. Quiet /\ handle = "BSS" /\ PageOK
    BY <1>1, <1>8 DEF BothAt, PageOK
  <2>2. /\ failed' = FALSE /\ Quiet' /\ handle' = "BSS"
        /\ page'[0] = 1 /\ PageOK'
    BY <1>2, <1>8, <2>1, Stores DEF PageOK
  <2>3. pos' = 6
    BY <1>3, <1>8
  <2>4. PageOK'
    BY <1>1, <2>2 DEF PageOK
  <2>5. BothAt' /\ RecvRefAt'
    BY <2>1, <2>2, <2>3 DEF BothAt, RecvRefAt
  <2> QED
    BY <1>3, <2>2, <2>4, <2>5 DEF TestInv, PageOK
<1>9. CASE pos = 6
  <2>1. Quiet /\ handle = "BSS" /\ page[0] = 1
    BY <1>1, <1>9 DEF RecvRefAt, PageOK
  <2>2. /\ failed' = FALSE /\ Pending(Read(0, 1), [data |-> << 1 >>])'
        /\ page' = page /\ handle' = handle
    BY <1>2, <1>9, <2>1, Sends
  <2>3. pos' = 7
    BY <1>3, <1>9
  <2>4. PageOK'
    BY <1>1, <2>2 DEF PageOK
  <2>5. BothAt' /\ RecvRefAt'
    BY <2>1, <2>2, <2>3 DEF BothAt, RecvRefAt
  <2> QED
    BY <1>3, <2>2, <2>4, <2>5 DEF TestInv, PageOK
<1>10. CASE pos = 7
  <2>1. Pending(Read(0, 1), [data |-> << 1 >>]) /\ handle = "BSS" /\ page[0] = 1
    BY <1>1, <1>10 DEF RecvRefAt, PageOK
  <2>2. failed' = FALSE /\ Quiet' /\ handle' = handle /\ page' = page
    BY <1>2, <1>10, <2>1, ReceivesOther
  <2>3. pos' = 8
    BY <1>3, <1>10
  <2>4. PageOK'
    BY <1>1, <2>2 DEF PageOK
  <2>5. BothAt' /\ RecvRefAt'
    BY <2>1, <2>2, <2>3 DEF BothAt, RecvRefAt
  <2> QED
    BY <1>3, <2>2, <2>4, <2>5 DEF TestInv, PageOK
<1>11. CASE pos = 8
  <2>1. Quiet /\ handle = "BSS" /\ page[0] = 1
    BY <1>1, <1>11 DEF RecvRefAt, PageOK
  <2>2. /\ failed' = FALSE /\ Pending(Write(1, 1, << 42 >>), [ack |-> TRUE])'
        /\ page' = page /\ handle' = handle /\ outq' = <<>>
    BY <1>2, <1>11, <2>1, Sends
  <2>3. pos' = 9
    BY <1>3, <1>11
  <2>4. PageOK'
    BY <1>1, <2>2 DEF PageOK
  <2>5. BothAt' /\ RecvRefAt'
    BY <2>1, <2>2, <2>3 DEF BothAt, RecvRefAt
  <2> QED
    BY <1>3, <2>2, <2>4, <2>5 DEF TestInv, PageOK
<1>12. CASE pos = 9
  <2>1. /\ Pending(Write(1, 1, << 42 >>), [ack |-> TRUE]) /\ handle = "BSS"
        /\ page[0] = 1 /\ (outq # <<>> => page[1] = 42)
    BY <1>1, <1>12 DEF RecvRefAt, PageOK
  <2>2. /\ failed' = FALSE /\ Quiet' /\ handle' = handle /\ page' = page
        /\ outq # <<>>
    BY <1>2, <1>12, <2>1, ReceivesOther
  <2>3. pos' = 10
    BY <1>3, <1>12
  <2>4. PageOK'
    BY <1>1, <2>2 DEF PageOK
  <2>5. BothAt' /\ RecvRefAt'
    BY <2>1, <2>2, <2>3 DEF BothAt, RecvRefAt
  <2> QED
    BY <1>3, <2>2, <2>4, <2>5 DEF TestInv, PageOK
<1>13. CASE pos = 10
  <2>1. Quiet /\ handle = "BSS" /\ page[0] = 1 /\ page[1] = 42
    BY <1>1, <1>13 DEF RecvRefAt, PageOK
  <2>2. failed' = FALSE /\ Quiet' /\ handle' = handle /\ page' = page
    BY <1>2, <1>13, <2>1, Finds
  <2>3. pos' = 11
    BY <1>3, <1>13
  <2>4. PageOK'
    BY <1>1, <2>2 DEF PageOK
  <2>5. BothAt' /\ RecvRefAt'
    BY <2>1, <2>2, <2>3 DEF BothAt, RecvRefAt
  <2> QED
    BY <1>3, <2>2, <2>4, <2>5 DEF TestInv, PageOK
<1>14. CASE pos = 11
  <2>1. Quiet /\ handle = "BSS" /\ page[0] = 1 /\ page[1] = 42
    BY <1>1, <1>14 DEF RecvRefAt, PageOK
  <2>2. failed' = FALSE /\ Quiet' /\ handle' = handle /\ page' = page
    BY <1>2, <1>14, <2>1, Finds
  <2>3. pos' = 12
    BY <1>3, <1>14
  <2>4. PageOK'
    BY <1>1, <2>2 DEF PageOK
  <2>5. BothAt' /\ RecvRefAt'
    BY <2>1, <2>2, <2>3 DEF BothAt, RecvRefAt
  <2> QED
    BY <1>3, <2>2, <2>4, <2>5 DEF TestInv, PageOK
<1>15. CASE pos = 12
  <2>1. Quiet /\ handle = "BSS" /\ PageOK
    BY <1>1, <1>15 DEF RecvRefAt, PageOK
  <2>2. failed' = FALSE /\ Quiet' /\ handle' = "BSS" /\ PageOK'
    BY <1>2, <1>15, <2>1, Stores DEF PageOK
  <2>3. pos' = 13
    BY <1>3, <1>15
  <2>4. PageOK'
    BY <1>1, <2>2 DEF PageOK
  <2>5. BothAt' /\ RecvRefAt'
    BY <2>1, <2>2, <2>3 DEF BothAt, RecvRefAt
  <2> QED
    BY <1>3, <2>2, <2>4, <2>5 DEF TestInv, PageOK
<1>16. CASE pos = 13
  <2>1. Quiet /\ handle = "BSS" /\ PageOK
    BY <1>1, <1>16 DEF RecvRefAt, PageOK
  <2>2. failed' = FALSE /\ Quiet' /\ handle' = "BSS" /\ PageOK'
    BY <1>2, <1>16, <2>1, Stores DEF PageOK
  <2>3. pos' = 14
    BY <1>3, <1>16
  <2>4. PageOK'
    BY <1>1, <2>2 DEF PageOK
  <2>5. BothAt' /\ RecvRefAt'
    BY <2>1, <2>2, <2>3 DEF BothAt, RecvRefAt
  <2> QED
    BY <1>3, <2>2, <2>4, <2>5 DEF TestInv, PageOK
<1>17. CASE pos = 14
  <2>1. Quiet
    BY <1>1, <1>17 DEF RecvRefAt, PageOK
  <2>2. failed' = FALSE /\ Quiet' /\ handle' = "none" /\ page' = page
    BY <1>2, <1>17, <2>1, ClosesMemref
  <2>3. pos' = 15
    BY <1>3, <1>17
  <2>4. PageOK'
    BY <1>1, <2>2 DEF PageOK
  <2>5. BothAt' /\ RecvRefAt'
    BY <2>1, <2>2, <2>3 DEF BothAt, RecvRefAt
  <2> QED
    BY <1>3, <2>2, <2>4, <2>5 DEF TestInv, PageOK
<1>18. CASE pos = 15
  <2>1. Quiet /\ handle = "none"
    BY <1>1, <1>18 DEF RecvRefAt, PageOK
  <2>2. failed' = FALSE /\ Idle' /\ page' = page
    BY <1>2, <1>18, <2>1, ClosesChannel
  <2>3. pos' = 16
    BY <1>3, <1>18
  <2>4. PageOK'
    BY <1>1, <2>2 DEF PageOK
  <2>5. BothAt' /\ RecvRefAt'
    BY <2>1, <2>2, <2>3 DEF BothAt, RecvRefAt
  <2> QED
    BY <1>3, <2>2, <2>4, <2>5 DEF TestInv, PageOK
<1> QED
  BY <1>1, <1>4, <1>5, <1>6, <1>7, <1>8, <1>9, <1>10, <1>11, <1>12,
     <1>13, <1>14, <1>15, <1>16, <1>17, <1>18

\* Each step of leak_creation is as the one after it needs it.
LEMMA LeakCreationStep ==
    ASSUME TestInv, TestStep, test = "leak_creation"
    PROVE  TestInv'
<1>1. /\ failed = FALSE /\ PageOK /\ BothAt /\ LeakCreationAt /\ pos \in 1..7
  <2>1. pos <= 7
    BY LeakCreationSteps DEF TestStep
  <2> QED
    BY <2>1 DEF TestInv, PageOK
<1>2. /\ pos = 1 => Calls("connect", 0)
      /\ pos = 2 => Calls("connected", 0)
      /\ pos = 3 => Calls("send", Plain("BSS"))
      /\ pos = 4 => Calls("recv", [handle |-> "BSS"])
      /\ pos = 5 => Calls("close_memref", 0)
      /\ pos = 6 => Calls("send", Plain("SUICIDE"))
      /\ pos = 7 => Calls("close_chan", 0)
  BY LeakCreationSteps, Zenon DEF Calls
<1>3. test' = "leak_creation" /\ pos' = pos + 1 /\ pos' \in 1..8
  BY <1>1 DEF TestStep
<1>4. CASE pos = 1
  <2>1. Idle
    BY <1>1, <1>4 DEF BothAt, PageOK
  <2>2. failed' = FALSE /\ Connecting' /\ page' = page
    BY <1>2, <1>4, <2>1, Connects
  <2>3. pos' = 2
    BY <1>3, <1>4
  <2>4. PageOK'
    BY <1>1, <2>2 DEF PageOK
  <2>5. BothAt' /\ LeakCreationAt'
    BY <2>1, <2>2, <2>3 DEF BothAt, LeakCreationAt
  <2> QED
    BY <1>3, <2>2, <2>4, <2>5 DEF TestInv, PageOK
<1>5. CASE pos = 2
  <2>1. Connecting
    BY <1>1, <1>5 DEF BothAt, PageOK
  <2>2. failed' = FALSE /\ Quiet' /\ page' = page
    BY <1>2, <1>5, <2>1, Connected
  <2>3. pos' = 3
    BY <1>3, <1>5
  <2>4. PageOK'
    BY <1>1, <2>2 DEF PageOK
  <2>5. BothAt' /\ LeakCreationAt'
    BY <2>1, <2>2, <2>3 DEF BothAt, LeakCreationAt
  <2> QED
    BY <1>3, <2>2, <2>4, <2>5 DEF TestInv, PageOK
<1>6. CASE pos = 3
  <2>1. Quiet
    BY <1>1, <1>6 DEF BothAt, PageOK
  <2>2. failed' = FALSE /\ Pending(Plain("BSS"), [handle |-> "BSS"])' /\ page' = page
    BY <1>2, <1>6, <2>1, Sends
  <2>3. pos' = 4
    BY <1>3, <1>6
  <2>4. PageOK'
    BY <1>1, <2>2 DEF PageOK
  <2>5. BothAt' /\ LeakCreationAt'
    BY <2>1, <2>2, <2>3 DEF BothAt, LeakCreationAt
  <2> QED
    BY <1>3, <2>2, <2>4, <2>5 DEF TestInv, PageOK
<1>7. CASE pos = 4
  <2>1. Pending(Plain("BSS"), [handle |-> "BSS"])
    BY <1>1, <1>7 DEF BothAt, PageOK
  <2>2. failed' = FALSE /\ Quiet' /\ handle' = "BSS" /\ page' = page
    BY <1>2, <1>7, <2>1, ReceivesMemref
  <2>3. pos' = 5
    BY <1>3, <1>7
  <2>4. PageOK'
    BY <1>1, <2>2 DEF PageOK
  <2>5. BothAt' /\ LeakCreationAt'
    BY <2>1, <2>2, <2>3 DEF BothAt, LeakCreationAt
  <2> QED
    BY <1>3, <2>2, <2>4, <2>5 DEF TestInv, PageOK
<1>8. CASE pos = 5
  <2>1. Quiet
    BY <1>1, <1>8 DEF BothAt, PageOK
  <2>2. failed' = FALSE /\ Quiet' /\ handle' = "none" /\ page' = page
    BY <1>2, <1>8, <2>1, ClosesMemref
  <2>3. pos' = 6
    BY <1>3, <1>8
  <2>4. PageOK'
    BY <1>1, <2>2 DEF PageOK
  <2>5. BothAt' /\ LeakCreationAt'
    BY <2>1, <2>2, <2>3 DEF BothAt, LeakCreationAt
  <2> QED
    BY <1>3, <2>2, <2>4, <2>5 DEF TestInv, PageOK
<1>9. CASE pos = 6
  <2>1. Quiet /\ handle = "none"
    BY <1>1, <1>9 DEF LeakCreationAt, PageOK
  <2>2. failed' = FALSE /\ Told' /\ page' = page
    BY <1>2, <1>9, <2>1, TellsToExit
  <2>3. pos' = 7
    BY <1>3, <1>9
  <2>4. PageOK'
    BY <1>1, <2>2 DEF PageOK
  <2>5. BothAt' /\ LeakCreationAt'
    BY <2>1, <2>2, <2>3 DEF BothAt, LeakCreationAt
  <2> QED
    BY <1>3, <2>2, <2>4, <2>5 DEF TestInv, PageOK
<1>10. CASE pos = 7
  <2>1. Told
    BY <1>1, <1>10 DEF LeakCreationAt, PageOK
  <2>2. failed' = FALSE /\ Idle' /\ page' = page
    BY <1>2, <1>10, <2>1, ClosesChannel
  <2>3. pos' = 8
    BY <1>3, <1>10
  <2>4. PageOK'
    BY <1>1, <2>2 DEF PageOK
  <2>5. BothAt' /\ LeakCreationAt'
    BY <2>1, <2>2, <2>3 DEF BothAt, LeakCreationAt
  <2> QED
    BY <1>3, <2>2, <2>4, <2>5 DEF TestInv, PageOK
<1> QED
  BY <1>1, <1>4, <1>5, <1>6, <1>7, <1>8, <1>9, <1>10

\* The page stays memory whatever the lender does.
LEMMA LenderPage ==
    ASSUME PageOK, init \/ EventLoop
    PROVE  PageOK'
<1>1. CASE UNCHANGED page
  BY <1>1 DEF PageOK
<1>2. CASE Exit
  BY <1>2 DEF Exit, Zero, PageOK
<1>3. CASE inq # <<>> /\ lender_on_message(inq[1])
  <2>1. \/ page' = page
        \/ page' = [i \in Index |-> IF i \in Region(inq[1])
                                    THEN inq[1].data[i - inq[1].offset + 1] ELSE page[i]]
    BY <1>3 DEF lender_on_message, lender_lend, lender_read_bss, lender_write_bss
  <2> QED
    BY <1>1, <2>1 DEF PageOK
<1>4. CASE init
  BY <1>1, <1>2, <1>4 DEF init
<1>5. CASE EventLoop
  BY <1>1, <1>2, <1>3, <1>5 DEF EventLoop
<1> QED
  BY <1>4, <1>5

\* The lender's steps leave each step of the tests as it needs it.
LEMMA LenderStep ==
    ASSUME TestInv, init \/ EventLoop
    PROVE  TestInv'
<1>1. UNCHANGED <<test, pos, failed>>
  BY DEF init, EventLoop, testvars
<1>2. failed' = FALSE /\ PageOK'
  BY <1>1, LenderPage DEF TestInv, PageOK
<1>3. ~Quiet
  BY QuietLender
<1>4. ASSUME BothAt PROVE BothAt'
  <2>1. pos = 1 => Idle'
    BY <1>4, IdleKept DEF BothAt
  <2>2. pos = 2 => Connecting'
    BY <1>4, ConnectingKept DEF BothAt
  <2>3. pos # 3 /\ pos # 5
    BY <1>3, <1>4 DEF BothAt
  <2>4. pos = 4 => Pending(Plain("BSS"), [handle |-> "BSS"])'
    BY <1>4, Lends DEF BothAt
  <2> QED
    BY <1>1, <2>1, <2>2, <2>3, <2>4 DEF BothAt
<1>5. CASE test = "free"
  BY <1>1, <1>2, <1>5 DEF TestInv, PageOK
<1>6. CASE test = "recv_ref"
  <2>1. pos \in 1..16 /\ BothAt /\ RecvRefAt
    BY <1>6 DEF TestInv
  <2>2. pos \notin {6, 8} \cup 10..15
    BY <1>3, <2>1 DEF RecvRefAt
  <2>3. RecvRefAt'
    <3>1. CASE pos = 7
      <4>1. /\ Pending(Read(0, 1), [data |-> << 1 >>])'
            /\ handle' = "BSS" /\ page'[0] = 1
        BY <2>1, <3>1, Reads DEF RecvRefAt
      <4> QED
        BY <1>1, <3>1, <4>1 DEF RecvRefAt
    <3>2. CASE pos = 9
      <4>1. /\ Pending(Write(1, 1, << 42 >>), [ack |-> TRUE])'
            /\ handle' = "BSS" /\ page'[0] = 1 /\ page'[1] = 42
        BY <2>1, <3>2, Writes DEF RecvRefAt
      <4> QED
        BY <1>1, <3>2, <4>1 DEF RecvRefAt
    <3>3. CASE pos = 16
      <4>1. Idle'
        BY <2>1, <3>3, IdleKept DEF RecvRefAt
      <4> QED
        BY <1>1, <3>3, <4>1 DEF RecvRefAt
    <3>4. CASE pos \in 1..5
      BY <1>1, <3>4 DEF RecvRefAt
    <3> QED
      BY <2>1, <2>2, <3>1, <3>2, <3>3, <3>4
  <2> QED
    BY <1>1, <1>2, <1>4, <1>6, <2>1, <2>3 DEF TestInv, PageOK
<1>7. CASE test = "leak_creation"
  <2>1. pos \in 1..8 /\ BothAt /\ LeakCreationAt
    BY <1>7 DEF TestInv
  <2>2. pos # 6
    BY <1>3, <2>1 DEF LeakCreationAt
  <2>3. pos = 7 => Told'
    BY <2>1, Exits DEF LeakCreationAt
  <2>4. pos = 8 => Idle'
    BY <2>1, IdleKept DEF LeakCreationAt
  <2>5. LeakCreationAt' /\ BothAt'
    BY <1>1, <1>4, <2>1, <2>2, <2>3, <2>4 DEF LeakCreationAt
  <2> QED
    BY <1>1, <1>2, <1>7, <2>1, <2>5 DEF TestInv, PageOK
<1> QED
  BY <1>5, <1>6, <1>7 DEF TestInv

\* At the start no test has begun, and the lender is being started.
LEMMA TestInit == MemInit => TestInv
<1> SUFFICES ASSUME MemInit PROVE TestInv
  OBVIOUS
<1>1. Idle
  BY DEF MemInit, Idle, NoSession
<1>2. BothAt /\ RecvRefAt
  BY <1>1 DEF MemInit, BothAt, RecvRefAt
<1> QED
  BY <1>2 DEF MemInit, TestInv, PageOK, Zero

\* Every step of the lender, of the tests and of free clients keeps it.
LEMMA TestNext == TestInv /\ [MemNext]_memvars => TestInv'
<1> SUFFICES ASSUME TestInv, [MemNext]_memvars PROVE TestInv'
  OBVIOUS
<1>1. CASE init \/ EventLoop
  BY <1>1, LenderStep
<1>2. CASE TestStep
  <2>1. test \in {"recv_ref", "leak_creation"}
    BY <1>2 DEF TestStep, TestInv
  <2> QED
    BY <1>2, <2>1, RecvRefStep, LeakCreationStep
<1>3. CASE TestEnd
  <2>1. /\ test # "free" /\ pos > Len(Script[test]) /\ pos' = 1
        /\ test' \in {"recv_ref", "leak_creation"}
        /\ UNCHANGED <<lendervars, clientvars, failed>>
    BY <1>3 DEF TestEnd, Script
  <2>2. Idle
    <3>1. CASE test = "recv_ref"
      <4>1. pos = 16 /\ RecvRefAt
        BY <2>1, <3>1, RecvRefSteps DEF TestInv
      <4> QED
        BY <4>1 DEF RecvRefAt
    <3>2. CASE test = "leak_creation"
      <4>1. pos = 8 /\ LeakCreationAt
        BY <2>1, <3>2, LeakCreationSteps DEF TestInv
      <4> QED
        BY <4>1 DEF LeakCreationAt
    <3> QED
      BY <2>1, <3>1, <3>2 DEF TestInv
  <2>3. Idle' /\ PageOK'
    BY <2>1, <2>2 DEF Idle, NoSession, Serving, Left, lendervars, clientvars, TestInv, PageOK
  <2>4. BothAt' /\ RecvRefAt' /\ LeakCreationAt'
    BY <2>1, <2>3 DEF BothAt, RecvRefAt, LeakCreationAt
  <2> QED
    BY <2>1, <2>3, <2>4 DEF TestInv, PageOK
<1>4. CASE FreeStep
  <2>1. test' = "free" /\ failed' = FALSE
    BY <1>4 DEF FreeStep, testvars, TestInv
  <2>2. page' = page \/ \E i \in Index, b \in FreeBytes : page' = [page EXCEPT ![i] = b]
    BY <1>4 DEF FreeStep, lender_connect, send, recv, close_chan, close_memref, poke,
                lendervars
  <2>3. PageOK'
    BY <2>2 DEF TestInv, PageOK
  <2> QED
    BY <2>1, <2>3 DEF TestInv, PageOK
<1>5. CASE UNCHANGED memvars
  <2>1. UNCHANGED <<lendervars, clientvars, test, pos, failed>>
    BY <1>5 DEF memvars, testvars
  <2> QED
    BY <2>1 DEF TestInv, PageOK, BothAt, RecvRefAt, LeakCreationAt, Idle, Connecting, Quiet,
                Pending, Told, Open, Left, NoSession, Serving, lendervars, clientvars
<1> QED
  BY <1>1, <1>2, <1>3, <1>4, <1>5 DEF MemNext

\* No assertion of recv_ref or leak_creation fails, in any number of rounds, for
\* every page size and every width of size_t, and however often init of the
\* lender fails.
THEOREM TestsAlwaysPass == MemSpec => []MemrefTestsPass
<1>1. TestInv => MemrefTestsPass
  BY DEF TestInv, MemrefTestsPass
<1> QED
  BY <1>1, TestInit, TestNext, PTL DEF MemSpec
=============================================================================
