------------------------------- MODULE Memref -------------------------------
(***************************************************************************)
(* memref-test: the lender, a server that lends pages of its memory and    *)
(* reads and writes one of them on request, and its client, which is       *)
(* either the test application (tests recv_ref and leak_creation, again    *)
(* and again) or any client that calls the same functions in any order     *)
(* with any arguments (test = "free").                                     *)
(*                                                                         *)
(* The lender's manifest does not defer its start: it is started at boot,  *)
(* like the client.  LENDER_PORT is a start port: once the lender has      *)
(* exited, the kernel starts it again when somebody connects or is still   *)
(* waiting.                                                                *)
(* The event loop of the tipc library handles events in the order in which *)
(* they came.                                                              *)
(***************************************************************************)
EXTENDS Integers, Sequences

CONSTANTS
    PageSize,   \* PAGE_SIZE
    MaxWrite,   \* MAX_WRITE
    HeaderSize, \* sizeof(struct lender_msg)
    SizeMod,    \* 2^32 or 2^64: where offset + size wraps
    FreeBytes,  \* what free clients write
    MaxFaults   \* bound: how often init fails

ASSUME MemrefAssumption ==
    /\ SizeMod \in Nat /\ PageSize \in 2..(SizeMod - 1)
    /\ {MaxWrite, HeaderSize} \subseteq Nat \ {0}
    /\ MaxFaults \in Nat

Byte == {0, 1, 42} \cup FreeBytes
Size == 0..(SizeMod - 1)
Kind == {"BSS", "RO", "RW"}
Index == 0..(PageSize - 1)

\* struct lender_msg, and the bytes after it; SHORT has less than a header.
Msg(cmd, off, size, data) ==
    [cmd |-> cmd, offset |-> off, size |-> size, data |-> data]
Plain(cmd) == Msg(cmd, 0, 0, <<>>)
Read(off, size) == Msg("READ_BSS", off, size, <<>>)
Write(off, size, data) == Msg("WRITE_BSS", off, size, data)

VARIABLES
    lender,   \* "off", "init" or "serve"
    faults,   \* how often init may still fail
    memref,   \* what the lender can lend
    page,     \* its bss_page
    sess,     \* its session: "none", "open", or "gone" (the client left)
    inq,      \* the message to it
    events,   \* what its event loop will see, in order: "port", "chan"
    touched,  \* the bytes its last request read or wrote
    link,     \* the client's end: "none", "queued", "open" or "hup"
    outq,     \* the reply to it
    asked,    \* it has sent a request and not had the reply
    handle,   \* the memref it holds; "old" if that lender has exited
    test, pos, failed

lendervars == <<lender, faults, memref, page, sess, inq, events, touched>>
clientvars == <<link, outq, asked, handle>>
testvars == <<test, pos, failed>>
memvars == <<lendervars, clientvars, testvars>>

-----------------------------------------------------------------------------
(* lender.c                                                                *)

Zero == [i \in Index |-> 0]

\* An event that is already there is not queued again.
Event(q, e) == IF \E i \in DOMAIN q : q[i] = e THEN q ELSE Append(q, e)

\* The end of the process.  Its pages live on while somebody has a memref.
Exit ==
    /\ lender' = IF link = "queued" THEN "init" ELSE "off"
    /\ memref' = {} /\ page' = Zero /\ sess' = "none" /\ inq' = <<>>
    /\ events' = <<>> /\ touched' = {}
    /\ link' = IF sess = "open" THEN "hup" ELSE link
    /\ handle' = IF handle = "none" THEN "none" ELSE "old"
    /\ UNCHANGED <<outq, asked>>

\* init and the start of main.  The memref of the read-only page may be
\* refused, which is only logged; any other failure ends the process.
init ==
    /\ lender = "init"
    /\ UNCHANGED testvars
    /\ \/ faults > 0 /\ faults' = faults - 1 /\ Exit
       \/ /\ lender' = "serve"
          /\ \E M \in {Kind, Kind \ {"RO"}} : memref' = M
          /\ events' = IF link = "queued" THEN <<"port">> ELSE <<>>
          /\ UNCHANGED <<faults, page, sess, inq, touched, clientvars>>

\* Mutant: the sum wraps unnoticed.
lender_check_region_wraps(off, size) == (off + size) % SizeMod <= PageSize

lender_check_region(off, size) ==
    off + size < SizeMod /\ off + size <= PageSize

\* A message can be sent: the client is there and its buffer is free and
\* large enough for n bytes.
CanSend(n) == sess = "open" /\ outq = <<>> /\ n <= HeaderSize + MaxWrite

\* on_message failed: the library closes the channel.
CloseSession ==
    /\ sess' = "none" /\ inq' = <<>>
    /\ link' = IF sess = "open" THEN "hup" ELSE link
    /\ UNCHANGED <<outq, asked, handle>>

\* It succeeded with reply r.
Answer(r) ==
    /\ outq' = <<r>> /\ inq' = <<>>
    /\ UNCHANGED <<sess, link, asked, handle>>

lender_lend(k) ==
    /\ IF k \in memref /\ CanSend(0) THEN Answer([handle |-> k]) ELSE CloseSession
    /\ UNCHANGED <<page, touched>>

Region(m) == m.offset..(m.offset + m.size - 1)
Stored(i) == IF i \in Index THEN page[i] ELSE 0

lender_read_bss(m) ==
    /\ IF lender_check_region(m.offset, m.size) /\ CanSend(m.size)
       THEN Answer([data |-> [i \in 1..m.size |-> Stored(m.offset + i - 1)]])
       ELSE CloseSession
    /\ touched' = IF lender_check_region(m.offset, m.size) THEN Region(m) ELSE {}
    /\ UNCHANGED page

\* Mutant: memcpy to the beginning of the page.
lender_write_bss_at_start(m) ==
    IF Len(m.data) # m.size \/ ~lender_check_region(m.offset, m.size)
    THEN CloseSession /\ UNCHANGED page /\ touched' = {}
    ELSE /\ page' = [i \in Index |-> IF i < m.size THEN m.data[i + 1] ELSE page[i]]
         /\ touched' = 0..(m.size - 1)
         /\ IF CanSend(0) THEN Answer([ack |-> TRUE]) ELSE CloseSession

\* Mutant: a request of the wrong length is dropped, without an error.
lender_write_bss_drops(m) ==
    IF Len(m.data) # m.size \/ ~lender_check_region(m.offset, m.size)
    THEN /\ inq' = <<>> /\ touched' = {}
         /\ UNCHANGED <<page, sess, clientvars>>
    ELSE /\ page' = [i \in Index |-> IF i \in Region(m)
                                     THEN m.data[i - m.offset + 1] ELSE page[i]]
         /\ touched' = Region(m)
         /\ IF CanSend(0) THEN Answer([ack |-> TRUE]) ELSE CloseSession

\* The page is written before it is known whether the answer can be sent.
lender_write_bss(m) ==
    IF Len(m.data) # m.size \/ ~lender_check_region(m.offset, m.size)
    THEN CloseSession /\ UNCHANGED page /\ touched' = {}
    ELSE /\ page' = [i \in Index |-> IF i \in Region(m)
                                     THEN m.data[i - m.offset + 1] ELSE page[i]]
         /\ touched' = Region(m)
         /\ IF CanSend(0) THEN Answer([ack |-> TRUE]) ELSE CloseSession

lender_on_message(m) ==
    /\ \/ m.cmd \in Kind /\ lender_lend(m.cmd)
       \/ m.cmd = "READ_BSS" /\ lender_read_bss(m)
       \/ m.cmd = "WRITE_BSS" /\ lender_write_bss(m)
       \/ /\ m.cmd \in {"INVALID", "SHORT"}
          /\ CloseSession /\ UNCHANGED <<page, touched>>
    /\ UNCHANGED <<lender, memref>>

\* One round of the event loop.  There is room for one channel.
EventLoop ==
    /\ lender = "serve" /\ events # <<>>
    /\ UNCHANGED <<faults, testvars>>
    /\ \/ /\ Head(events) = "port"
          /\ sess' = IF sess = "none" THEN "open" ELSE sess
          /\ link' = IF sess = "none" THEN "open" ELSE "hup"
          /\ events' = Tail(events)
          /\ UNCHANGED <<lender, memref, page, inq, touched, outq, asked, handle>>
       \/ /\ Head(events) = "chan" /\ inq # <<>>
          /\ IF inq[1].cmd = "SUICIDE" THEN Exit
             ELSE /\ lender_on_message(inq[1])
                  \* the library looks at the channel again if its client left
                  /\ events' = IF sess = "gone" /\ sess' # "none" THEN events
                               ELSE Tail(events)
       \/ /\ Head(events) = "chan" /\ inq = <<>>
          /\ sess' = IF sess = "gone" THEN "none" ELSE sess
          /\ events' = Tail(events)
          /\ UNCHANGED <<lender, memref, page, inq, touched, clientvars>>

-----------------------------------------------------------------------------
(* memref-test.c, the calls                                                *)

\* lender_connect, first half; the second is to wait for the answer.
lender_connect ==
    /\ link' = "queued"
    /\ lender' = IF lender = "off" THEN "init" ELSE lender
    /\ events' = IF lender = "serve" THEN Event(events, "port") ELSE events
    /\ UNCHANGED <<faults, memref, page, sess, inq, touched, outq, asked, handle>>

CanAsk == link = "open" /\ inq = <<>>

send(m) ==
    /\ inq' = <<m>> /\ asked' = TRUE
    /\ events' = Event(events, "chan")
    /\ UNCHANGED <<lender, faults, memref, page, sess, touched, link, outq, handle>>

\* The client waits on the channel with INFINITE_TIME.
Returns == outq # <<>> \/ link = "hup"

\* tipc_recv1 or lender_recv_handle.  A memref that comes replaces the one
\* the client had, which it has closed.
recv ==
    /\ handle' = IF outq # <<>> /\ "handle" \in DOMAIN outq[1]
                 THEN outq[1].handle ELSE handle
    /\ outq' = <<>> /\ asked' = FALSE
    /\ UNCHANGED <<lendervars, link>>

close_chan ==
    /\ link' = "none" /\ outq' = <<>> /\ asked' = FALSE
    /\ sess' = IF link = "open" THEN "gone" ELSE sess
    /\ events' = IF link = "open" THEN Event(events, "chan") ELSE events
    /\ UNCHANGED <<lender, faults, memref, page, inq, touched, handle>>

close_memref ==
    /\ handle' = "none"
    /\ UNCHANGED <<lendervars, link, outq, asked>>

\* A store through the mapping of the memref.
poke(i, b) ==
    /\ page' = IF handle = "BSS" THEN [page EXCEPT ![i] = b] ELSE page
    /\ UNCHANGED <<lender, faults, memref, sess, inq, events, touched, clientvars>>

-----------------------------------------------------------------------------
(* memref-test.c, the tests.  A step is a call with what the test expects. *)

Step(op, arg) == [op |-> op, arg |-> arg]
connect == << Step("connect", 0), Step("connected", 0) >>
lender_lend_bss == << Step("send", Plain("BSS")), Step("recv", [handle |-> "BSS"]) >>
read_bss(off, data) ==
    << Step("send", Read(off, Len(data))), Step("recv", [data |-> data]) >>
write_bss(off, data) ==
    << Step("send", Write(off, Len(data), data)), Step("recv", [ack |-> TRUE]) >>
Closes == << Step("close_memref", 0), Step("close_chan", 0) >>

recv_ref ==
    connect \o lender_lend_bss
    \o << Step("poke", <<0, 1>>) >> \o read_bss(0, <<1>>)
    \o write_bss(1, <<42>>)
    \o << Step("peek", <<0, 1>>), Step("peek", <<1, 42>>),
          Step("poke", <<0, 0>>), Step("poke", <<1, 0>>) >>
    \o Closes

\* One round of leak_creation; lender_suicide closes the channel without
\* waiting for the lender.
leak_creation ==
    connect \o lender_lend_bss
    \o << Step("close_memref", 0), Step("send", Plain("SUICIDE")),
          Step("close_chan", 0) >>

Script == [recv_ref |-> recv_ref, leak_creation |-> leak_creation]

Passes(s) ==
    /\ s.op = "connected" => link = "open"
    /\ s.op = "send" => CanAsk
    /\ s.op = "recv" => outq = <<s.arg>>
    /\ s.op = "peek" => handle = "BSS" /\ page[s.arg[1]] = s.arg[2]

TestStep ==
    /\ test # "free" /\ ~failed /\ pos <= Len(Script[test])
    /\ LET s == Script[test][pos]
       IN  /\ s.op = "connected" => link # "queued"
           /\ s.op = "recv" => Returns
           /\ failed' = ~Passes(s)
           /\ \/ s.op = "connect" /\ lender_connect
              \/ s.op = "send" /\ CanAsk /\ send(s.arg)
              \/ s.op = "recv" /\ recv
              \/ s.op = "poke" /\ poke(s.arg[1], s.arg[2])
              \/ s.op = "close_memref" /\ close_memref
              \/ s.op = "close_chan" /\ close_chan
              \/ /\ \/ s.op \in {"connected", "peek"}
                    \/ s.op = "send" /\ ~CanAsk
                 /\ UNCHANGED <<lendervars, clientvars>>
    /\ pos' = pos + 1
    /\ UNCHANGED test

\* leak_creation goes round, and so does the suite.
TestEnd ==
    /\ test # "free" /\ ~failed /\ pos > Len(Script[test])
    /\ test' \in IF test = "recv_ref" THEN {"leak_creation"} ELSE DOMAIN Script
    /\ pos' = 1
    /\ UNCHANGED <<lendervars, clientvars, failed>>

-----------------------------------------------------------------------------
(* Free clients                                                            *)

FreeMessages ==
    {Plain(cmd) : cmd \in Kind \cup {"SUICIDE", "INVALID", "SHORT"}}
    \cup {Read(off, size) : off \in Size, size \in Size}
    \cup {Write(off, size, data) : off \in Size, size \in Size,
             data \in UNION {[1..n -> FreeBytes] : n \in 0..MaxWrite}}

FreeStep ==
    /\ test = "free"
    /\ UNCHANGED testvars
    /\ \/ link = "none" /\ lender_connect
       \/ CanAsk /\ ~asked /\ \E m \in FreeMessages : send(m)
       \/ asked /\ Returns /\ recv
       \/ link \in {"open", "hup"} /\ close_chan
       \/ handle # "none" /\ close_memref
       \/ handle = "BSS" /\ \E i \in Index, b \in FreeBytes : poke(i, b)

-----------------------------------------------------------------------------

\* Boot: the kernel has started both processes.
MemInit ==
    /\ lender = "init" /\ faults = MaxFaults /\ memref = {} /\ page = Zero
    /\ sess = "none" /\ inq = <<>> /\ events = <<>> /\ touched = {}
    /\ link = "none" /\ outq = <<>> /\ asked = FALSE /\ handle = "none"
    /\ test \in {"free", "recv_ref"} /\ pos = 1 /\ failed = FALSE

MemNext == init \/ EventLoop \/ TestStep \/ TestEnd \/ FreeStep

\* The kernel schedules both processes; a free client may stop at any time.
MemSpec ==
    /\ MemInit /\ [][MemNext]_memvars
    /\ WF_memvars(init) /\ WF_memvars(EventLoop)
    /\ WF_memvars(TestStep \/ TestEnd)

-----------------------------------------------------------------------------
(* Properties                                                              *)

\* No assertion of recv_ref or of leak_creation fails, however often they are
\* repeated: what is written through the mapping is what the lender reads and
\* the other way round, and a lender that was told to exit is gone before
\* the next connection is answered, though nobody waits for it.
MemrefTestsPass == ~failed

\* The lender reads and writes only bytes of bss_page, whatever offset and
\* size a client asks for.
RegionsInPage == touched \subseteq Index

\* A client waits with INFINITE_TIME, and never for ever: its connection is
\* accepted or hung up, and its request is answered or the channel is hung
\* up, also if the request is refused or the lender exits or fails to start.
ClientNeverStuck ==
    /\ link = "queued" ~> link # "queued"
    /\ asked ~> (Returns \/ ~asked)
=============================================================================
