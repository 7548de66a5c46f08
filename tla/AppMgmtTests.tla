---------------------------- MODULE AppMgmtTests ----------------------------
(***************************************************************************)
(* The clients of app-mgmt-test's servers.  A behaviour has either         *)
(*   - the test application client/main.c, whose tests run in the order of *)
(*     the file, again and again (the stress test), or                     *)
(*   - clients of port-start-srv that connect, send, receive and close as  *)
(*     they like (test = 0).                                               *)
(*                                                                         *)
(* A test is a sequence of steps, one per call, and each step knows which  *)
(* result the assertion after the call wants.  Time is abstracted: a sleep *)
(* and a timeout that the test expects are longer than the servers need,   *)
(* so they end when no server can move.  The tests of the application      *)
(* loader's signature checks (UnsignedApp, UnlockedDevLoad) are left out.  *)
(***************************************************************************)
EXTENDS AppMgmt

CONSTANTS
    MaxQueue,   \* bound: connections in the queue of a port, free clients
    MaxFaults   \* bound: failing calls of port-start-srv, free clients

VARIABLES
    test,    \* index of the running test, 0 with free clients
    pos,     \* its next step
    failed,  \* some assertion failed
    skip     \* WaitConnectForPort has been run

vars == <<sysvars, faults, test, pos, failed, skip>>

-----------------------------------------------------------------------------
(* Steps.  want is what the assertions accept; a result in over skips the  *)
(* next steps, as the code's conditions do.                                *)

Step(op, c, arg, want) ==
    [op |-> op, c |-> c, arg |-> arg, want |-> want, over |-> {}, n |-> 0]
Skipping(s, over, n) == [s EXCEPT !.over = over, !.n = n]

Sleep == Step("sleep", "none", "none", {"ok"})
Async(c, p, want) == Step("connect", c, p, want)
WaitForPort(c, p) == Step("connect_wait", c, p, {"ok"})
Await(c, ev) == Step("await", c, ev, {"ok"})
Timeout(c) == Step("timeout", c, "none", {"ok"})
CloseChan(c) == Step("close", c, "none", {"ok"})

\* load_app, whose error must be in want; it sleeps if the load succeeded.
load_app(a, want) ==
    << Skipping(Step("load", "none", a, want), {"exists"}, 1), Sleep >>
loaded(a) == load_app(a, {"ok", "exists"})

\* port_start_srv_running, always with the assertion that it is false.
not_running == << Sleep, Async("chan", "CTRL_PORT", {"err"}) >>

\* connect without IPC_CONNECT_ASYNC.
connect(c, p) == << Async(c, p, {"ok"}), Await(c, "READY") >>

recv_rsp(c) == << Await(c, "MSG"), Step("recv", c, "OK", {"ok"}) >>
chan_send_cmd(c, cmd) == << Step("send", c, cmd, {"ok"}) >> \o recv_rsp(c)

send_cmd(idx, cmd) == chan_send_cmd(idx, cmd)
establish_unhandled_channel(idx) ==
    << Async(idx, "START_PORT", {"ok"}), Timeout(idx) >>
close_channel(idx) == << CloseChan(idx) >>
send_exit(idx) == send_cmd(idx, "EXIT") \o close_channel(idx)
wait_and_exit(idx) == << Await(idx, "READY") >> \o send_exit(idx)

AppMgrPortStart_SetUp ==
    loaded("port_start")
    \o << Skipping(Async("chan", "SHUTDOWN_PORT", {"ok", "err"}), {"err"}, 2),
          Await("chan", "HUP"), CloseChan("chan") >>
    \o not_running
    \o connect("MAIN_CHAN", "START_PORT")

AppMgrPortStart_TearDown ==
    not_running \o << Step("all_closed", "none", "none", {"ok"}) >>

-----------------------------------------------------------------------------
(* The tests                                                               *)

DoubleLoad == loaded("boot_start") \o load_app("boot_start", {"exists"})

WaitConnectForPort ==
    << Skipping(Step("once", "none", "none", {"ok", "again"}), {"again"}, 10) >>
    \o not_running
    \o loaded("port_waiter") \o load_app("port_start", {"ok"})
    \o << WaitForPort("chan", "PORT_WAITER_PORT"), Await("chan", "READY") >>
    \o recv_rsp("chan")

BootStartNegative ==
    loaded("never_start") \o << Async("chan", "NEVER_START_PORT", {"err"}) >>

BootStartPositive ==
    loaded("boot_start") \o << Async("chan", "BOOT_START_PORT", {"ok"}) >>

AppRestartPositive ==
    loaded("restart")
    \o << WaitForPort("chan", "RESTART_PORT"), Await("chan", "HUP"),
          CloseChan("chan"), WaitForPort("chan", "RESTART_PORT") >>

AppRestartNegativePortStartPositive ==
    loaded("port_start") \o connect("chan", "START_PORT")
    \o chan_send_cmd("chan", "EXIT")
    \o << Sleep, Async("PEND_CHAN", "CTRL_PORT", {"err"}) >>

PortStartFail ==
    LET Once == << Async("chan", "START_FAIL_PORT", {"ok"}),
                   Await("chan", "HUP"), CloseChan("chan") >>
    IN  loaded("port_start_fail") \o Once \o Once

PortStartNegative ==
    loaded("port_start") \o << Async("chan", "CTRL_PORT", {"err"}) >>

\* A test of the fixture AppMgrPortStart, and the phrases its tests share.
TEST_F(body) == AppMgrPortStart_SetUp \o body \o AppMgrPortStart_TearDown
pend == establish_unhandled_channel("PEND_CHAN")
wait == establish_unhandled_channel("WAIT_CHAN")
close_port == send_cmd("MAIN_CHAN", "CLOSE_PORT")
open_port == send_cmd("MAIN_CHAN", "OPEN_PORT")
drop(c) == close_channel(c)
exit == send_exit("MAIN_CHAN")

PendingTests == <<
    (* PortStartPendingNegative *)
    TEST_F(pend \o drop("PEND_CHAN") \o exit),
    (* PortStartPendingPositive *)
    TEST_F(pend \o exit \o wait_and_exit("PEND_CHAN")) >>

WaitingTests == <<
    (* PortStartWaitingNegative *)
    TEST_F(close_port \o wait \o drop("WAIT_CHAN") \o exit),
    (* PortStartWaitingPositive *)
    TEST_F(close_port \o wait \o exit \o wait_and_exit("WAIT_CHAN")) >>

PendingToWaitingTests == <<
    (* PortStartPendingToWaitingNegative *)
    TEST_F(pend \o close_port \o drop("PEND_CHAN") \o exit),
    (* PortStartPendingToWaitingPositive *)
    TEST_F(pend \o close_port \o exit \o wait_and_exit("PEND_CHAN")) >>

WaitingToPendingTests == <<
    (* PortStartWaitingToPendingNegative *)
    TEST_F(close_port \o wait \o open_port \o drop("WAIT_CHAN") \o exit),
    (* PortStartWaitingToPendingPositive *)
    TEST_F(close_port \o wait \o open_port \o exit
           \o wait_and_exit("WAIT_CHAN")) >>

PendingWaitingTests == <<
    (* PortStartPendingWaitingNegative *)
    TEST_F(pend \o close_port \o wait \o drop("PEND_CHAN")
           \o drop("WAIT_CHAN") \o exit),
    (* PortStartPendingWaitingPositive *)
    TEST_F(pend \o close_port \o wait \o exit
           \o wait_and_exit("PEND_CHAN") \o wait_and_exit("WAIT_CHAN")),
    (* PortStartPendingClosedWaitingPositive *)
    TEST_F(pend \o close_port \o wait \o drop("PEND_CHAN") \o exit
           \o wait_and_exit("WAIT_CHAN")),
    (* PortStartPendingWaitingClosedPositive *)
    TEST_F(pend \o close_port \o wait \o drop("WAIT_CHAN") \o exit
           \o wait_and_exit("PEND_CHAN")) >>

Tests ==
    << DoubleLoad, WaitConnectForPort, BootStartNegative, BootStartPositive,
       AppRestartPositive, AppRestartNegativePortStartPositive,
       PortStartFail, PortStartNegative >>
    \o PendingTests \o WaitingTests \o PendingToWaitingTests
    \o WaitingToPendingTests \o PendingWaitingTests

-----------------------------------------------------------------------------
(* The test application                                                    *)

ClientEnd == Conn \ {"shandle"}
Quiet == ~ ENABLED Servers

\* The call of step s: its result and its effect on the system.
Call(s, result) ==
    LET c == s.c
        Is(b) == result = IF b THEN "ok" ELSE "err"
    IN
    \/ /\ s.op = "load"
       /\ result = IF pc[s.arg] = "unloaded" THEN "ok" ELSE "exists"
       /\ IF result = "ok" THEN Load(s.arg) ELSE UNCHANGED sysvars
       /\ UNCHANGED skip
    \/ /\ s.op = "sleep" /\ Quiet /\ result = "ok"
       /\ UNCHANGED <<sysvars, skip>>
    \/ /\ s.op \in {"connect", "connect_wait"}
       /\ Is(Connectable(s.arg, s.op = "connect_wait"))
       /\ Connect(c, s.arg, s.op = "connect_wait")
       /\ UNCHANGED skip
    \/ /\ s.op = "await" /\ Events(c) # {}
       /\ Is(s.arg \in Events(c))
       /\ conn' = [conn EXCEPT ![c].ready = FALSE]
       /\ UNCHANGED <<pc, ports, queue, chan, skip>>
    \/ /\ s.op = "timeout" /\ (Quiet \/ Events(c) # {})
       /\ Is(Events(c) = {})
       /\ UNCHANGED <<sysvars, skip>>
    \/ /\ s.op = "send" /\ Is(CanSend(c))
       /\ chan' = [a \in App |-> IF chan[a].peer = c /\ CanSend(c)
                                 THEN [chan[a] EXCEPT !.inq = <<s.arg>>]
                                 ELSE chan[a]]
       /\ UNCHANGED <<pc, ports, queue, conn, skip>>
    \/ /\ s.op = "recv" /\ Is(conn[c].msg = <<s.arg>>)
       /\ conn' = [conn EXCEPT ![c].msg = <<>>]
       /\ UNCHANGED <<pc, ports, queue, chan, skip>>
    \/ /\ s.op = "close" /\ result = "ok"
       /\ Close({}, {}, {c})
       /\ UNCHANGED <<pc, skip>>
    \/ /\ s.op = "all_closed"
       /\ Is(\A e \in {"MAIN_CHAN", "PEND_CHAN", "WAIT_CHAN"} : conn[e].st = "none")
       /\ UNCHANGED <<sysvars, skip>>
    \/ /\ s.op = "once" /\ result = IF skip THEN "again" ELSE "ok"
       /\ skip' = TRUE
       /\ UNCHANGED sysvars

\* One step of the running test.  A result the assertion refuses ends it.
TestStep ==
    /\ test # 0 /\ pos <= Len(Tests[test])
    /\ LET s == Tests[test][pos]
       IN  \E result \in {"ok", "err", "exists", "again"} :
              /\ Call(s, result)
              /\ failed' = (failed \/ result \notin s.want)
              /\ pos' = IF result \notin s.want THEN Len(Tests[test]) + 1
                        ELSE IF result \in s.over THEN pos + 1 + s.n
                        ELSE pos + 1
    /\ UNCHANGED <<faults, test>>

\* The end of a test closes what it left open.  RUN_ALL_TESTS is repeated
\* while no test fails.
TestEnd ==
    /\ test # 0 /\ pos > Len(Tests[test])
    /\ test = Len(Tests) => ~failed
    /\ Close({}, {}, ClientEnd)
    /\ test' = (test % Len(Tests)) + 1
    /\ pos' = 1
    /\ UNCHANGED <<pc, faults, failed, skip>>

-----------------------------------------------------------------------------
(* Free clients of port-start-srv                                          *)

FreeEnd == {"MAIN_CHAN", "PEND_CHAN"}
ClientPort == {"START_PORT", "CTRL_PORT", "SHUTDOWN_PORT"}
Cmd == {"NOP", "CLOSE_PORT", "OPEN_PORT", "EXIT", "INVALID", "EMPTY"}

FreeConnect(c, p) ==
    /\ conn[c].st = "none" /\ Len(queue[p]) < MaxQueue
    /\ Connectable(p, FALSE)
    /\ Connect(c, p, FALSE)

FreeClose(c) == conn[c].st # "none" /\ Close({}, {}, {c}) /\ UNCHANGED pc

FreeSend(c, cmd) ==
    /\ CanSend(c)
    /\ chan' = [chan EXCEPT !["port_start"].inq = <<cmd>>]
    /\ UNCHANGED <<pc, ports, queue, conn>>

FreeRecv(c) ==
    /\ Events(c) \cap {"READY", "MSG"} # {}
    /\ conn' = [conn EXCEPT ![c].ready = FALSE, ![c].msg = <<>>]
    /\ UNCHANGED <<pc, ports, queue, chan>>

FreeStep ==
    /\ test = 0
    /\ \E c \in FreeEnd :
          \/ \E p \in ClientPort : FreeConnect(c, p)
          \/ FreeClose(c)
          \/ \E cmd \in Cmd : FreeSend(c, cmd)
          \/ FreeRecv(c)
    /\ UNCHANGED <<faults, test, pos, failed, skip>>

-----------------------------------------------------------------------------

Init ==
    /\ SysInit
    /\ test \in {0, 1} /\ pos = 1 /\ failed = FALSE /\ skip = FALSE
    /\ pc = [a \in App |-> IF test = 0 /\ a = "port_start" THEN "off"
                           ELSE "unloaded"]
    /\ faults = IF test = 0 THEN MaxFaults ELSE 0

Serving(srv) == srv /\ UNCHANGED <<test, pos, failed, skip>>

Next == TestStep \/ TestEnd \/ FreeStep \/ Serving(Servers)

\* Every application is a process that the kernel schedules; the free
\* clients may stop at any time.
Fairness ==
    /\ WF_vars(TestStep \/ TestEnd)
    /\ WF_vars(Serving(port_start_srv))
    /\ WF_vars(Serving(restart_srv))
    /\ WF_vars(Serving(boot_start_srv))
    /\ WF_vars(Serving(port_waiter_srv))
    /\ WF_vars(Serving(NoFault /\ StartFails))

Spec == Init /\ [][Next]_vars /\ Fairness

-----------------------------------------------------------------------------
(* Properties                                                              *)

\* No assertion of client/main.c fails, in the first run of the tests or in
\* any later one, whatever the order in which the servers take their steps.
TestsPass == ~failed

\* Every test comes to its end: no call of a test waits for ever, though
\* most wait with INFINITE_TIME.
TestsEnd == test # 0 ~> (test # 0 /\ pos > Len(Tests[test]))

\* A connection to START_PORT is accepted or hung up, or its client closes
\* it, provided that port-start-srv does not serve one channel for ever and
\* that CTRL_PORT is left alone from some time on (main takes the ports in
\* any order and could prefer that one).
ConnectionsServed ==
    []<>(pc["port_start"] # "serve") /\ <>[](queue["CTRL_PORT"] = <<>>)
    => \A c \in FreeEnd :
          Queued(c, "START_PORT") ~> ~ Queued(c, "START_PORT")

\* "Exits after receiving a CMD_EXIT command on START_PORT or a connection
\* on SHUTDOWN_PORT" (client/main.c, of port-start-srv), and SetUp waits
\* with INFINITE_TIME for its connection to be hung up.  Clients that keep
\* sending commands, which the handle set could report first, are left out.
ShutdownObeyed ==
    <>[](chan["port_start"].inq = <<>>)
    => \A c \in FreeEnd :
          Queued(c, "SHUTDOWN_PORT") ~> ~ Queued(c, "SHUTDOWN_PORT")
=============================================================================
