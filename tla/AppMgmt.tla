------------------------------- MODULE AppMgmt ------------------------------
(***************************************************************************)
(* The servers of app-mgmt-test.  Each is a main function that makes one   *)
(* call after another; a step is what it does between two calls that       *)
(* others can notice.  never-start-srv and port-start-fail-srv never get   *)
(* to run, so their main has no steps.                                     *)
(*                                                                         *)
(* faults bounds how many of port-start-srv's calls (port_create, wait,    *)
(* accept, handle_set_create, handle_set_ctrl, recv) still fail for want   *)
(* of memory.  Calls that fail for what a client did are not counted.  The *)
(* other servers only run under the test suite, whose tests are right to   *)
(* fail when a server lacks memory; for them no such failure is modelled.  *)
(***************************************************************************)
EXTENDS AppManager

VARIABLE faults

At(a, l) == pc[a] = l
Goto(a, l) == pc' = [pc EXCEPT ![a] = l]
Fault == faults > 0 /\ faults' = faults - 1
NoFault == UNCHANGED faults

-----------------------------------------------------------------------------
(* port-start-srv                                                          *)

\* prepare_port, from the place l of main, to ok or to the clean-up at err.
\* If the port cannot be added to its handle set it is closed again, and then
\* main goes to err: what the clean-up at undo does.
prepare_port(l, p, ok, undo, err) ==
    /\ At("port_start", l)
    /\ \/ NoFault /\ ports' = ports \cup {p} /\ Goto("port_start", ok)
       \/ Fault /\ ports' = ports \cup {p} /\ Goto("port_start", undo)
       \/ Fault /\ UNCHANGED ports /\ Goto("port_start", err)
    /\ UNCHANGED <<queue, conn, chan>>

Prepare ==
    \/ prepare_port("start", "START_PORT", "prepare_ctrl",
                    "close_start", "exit")
    \/ prepare_port("prepare_ctrl", "CTRL_PORT", "prepare_shutdown",
                    "close_ctrl", "close_start")
    \/ prepare_port("prepare_shutdown", "SHUTDOWN_PORT", "port_wait",
                    "close_shutdown", "close_ctrl")

\* Mutant: START_PORT is not added to the handle set.
port_hset_ctrl_only == {"CTRL_PORT"}

\* The ports main waits on before it has a channel.
port_hset == {"START_PORT", "CTRL_PORT"}

\* wait on port_hset, accept, and the channel into mixed_hset.
PortWait ==
    /\ At("port_start", "port_wait")
    /\ \E p \in port_hset :
          /\ queue[p] # <<>>
          /\ \/ /\ NoFault
                /\ Accept("port_start", p)
                /\ Goto("port_start", IF Head(queue[p]) = "closed"
                                      THEN "close_shutdown" ELSE "serve")
             \/ /\ Fault /\ Head(queue[p]) # "closed"
                /\ Accept("port_start", p)
                /\ Goto("port_start", "close_channel")
             \/ /\ Fault /\ Goto("port_start", "close_shutdown")
                /\ UNCHANGED <<queue, conn, chan>>
    /\ UNCHANGED ports

\* What a command does: its response, whether the server is done, and
\* whether START_PORT exists afterwards.
Outcome(rsp, done, open) == [rsp |-> rsp, done |-> done, open |-> open]

\* Mutant: CMD_CLOSE_PORT forgets to close.
CmdOutcome_keeps_port(cmd, open) ==
    CASE cmd \in {"NOP", "CLOSE_PORT"} -> Outcome("OK", FALSE, open)
      [] cmd = "OPEN_PORT" -> Outcome(IF open THEN "FAILED" ELSE "OK", open, TRUE)
      [] OTHER -> Outcome("OK", TRUE, open)

CmdOutcome(cmd, open) ==
    CASE cmd = "NOP" -> Outcome("OK", FALSE, open)
      [] cmd = "CLOSE_PORT" -> Outcome(IF open THEN "OK" ELSE "FAILED", ~open, FALSE)
      [] cmd = "OPEN_PORT" -> Outcome(IF open THEN "FAILED" ELSE "OK", open, TRUE)
      [] cmd = "EXIT" -> Outcome("OK", TRUE, open)
      [] OTHER -> Outcome("INVALID_CMD", TRUE, open)

\* A command is read and answered by handle_cmd, with outcome r.  If the
\* answer cannot be sent the server is done as well.
handle_cmd(r) ==
    LET peer == chan["port_start"].peer
    IN  /\ ports' = IF r.open THEN ports \cup {"START_PORT"}
                    ELSE ports \ {"START_PORT"}
        /\ queue' = IF r.open THEN queue
                    ELSE [queue EXCEPT !["START_PORT"] = Live(@)]
        /\ conn' = IF CanReply("port_start")
                   THEN [conn EXCEPT ![peer].msg = <<r.rsp>>] ELSE conn
        /\ chan' = [chan EXCEPT !["port_start"].inq = Tail(@)]
        /\ Goto("port_start", IF r.done \/ ~CanReply("port_start")
                              THEN "close_channel" ELSE "serve")

\* wait on mixed_hset, which reports a message, a channel that is hung up
\* with no message left, or a connection to SHUTDOWN_PORT.  A message that is
\* not a command of one byte cannot be received.
Serve ==
    LET inq == chan["port_start"].inq
        open == "START_PORT" \in ports
    IN  /\ At("port_start", "serve")
        /\ \/ /\ inq # <<>> /\ inq # <<"EMPTY">>
              /\ \/ NoFault /\ handle_cmd(CmdOutcome(Head(inq), open))
                 \/ /\ Fault /\ inq = <<"OPEN_PORT">> /\ ~open
                    /\ handle_cmd(Outcome("FAILED", TRUE, FALSE))
           \/ /\ \/ NoFault /\ inq = <<"EMPTY">>
                 \/ NoFault /\ inq = <<>> /\ chan["port_start"].peer = "gone"
                 \/ NoFault /\ queue["SHUTDOWN_PORT"] # <<>>
                 \/ Fault /\ inq # <<>>
              /\ Goto("port_start", "close_channel")
              /\ UNCHANGED <<ports, queue, conn, chan>>

\* The labels at the end of main, one close after the other.  start_port may
\* be a handle that CMD_CLOSE_PORT has closed.
CleanUp ==
    /\ NoFault
    /\ \/ /\ At("port_start", "close_channel")
          /\ Close({}, {"port_start"}, {})
          /\ Goto("port_start", "close_shutdown")
       \/ /\ At("port_start", "close_shutdown")
          /\ Close({"SHUTDOWN_PORT"}, {}, {})
          /\ Goto("port_start", "close_ctrl")
       \/ /\ At("port_start", "close_ctrl")
          /\ Close({"CTRL_PORT"}, {}, {})
          /\ Goto("port_start", "close_start")
       \/ /\ At("port_start", "close_start")
          /\ Close({"START_PORT"}, {}, {})
          /\ Goto("port_start", "exit")
       \/ At("port_start", "exit") /\ Exit("port_start")

port_start_srv == Prepare \/ PortWait \/ Serve \/ CleanUp

-----------------------------------------------------------------------------
(* The other servers                                                       *)

\* port_create, then on to l; none of their ports can exist already.
Create(a, p, from, l) ==
    /\ At(a, from)
    /\ ports' = ports \cup {p}
    /\ Goto(a, l)
    /\ UNCHANGED <<queue, conn, chan>>

\* restart-srv exits on the first connection, which it does not accept.
restart_srv ==
    /\ NoFault
    /\ \/ Create("restart", "RESTART_PORT", "start", "wait")
       \/ At("restart", "wait") /\ queue["RESTART_PORT"] # <<>> /\ Exit("restart")

\* boot-start-srv accepts every connection and closes it.
boot_start_srv ==
    /\ NoFault
    /\ \/ Create("boot_start", "BOOT_START_PORT", "start", "wait")
       \/ /\ At("boot_start", "wait") /\ queue["BOOT_START_PORT"] # <<>>
          /\ Accept("boot_start", "BOOT_START_PORT")
          /\ Goto("boot_start", IF Head(queue["BOOT_START_PORT"]) = "closed"
                                THEN "wait" ELSE "close")
          /\ UNCHANGED ports
       \/ /\ At("boot_start", "close")
          /\ Close({}, {"boot_start"}, {})
          /\ Goto("boot_start", "wait")

\* port-waiter-srv waits for START_PORT, then for a client of its own,
\* tells port-start-srv to exit and passes the answer on.  At the end, and
\* after a failure on the way, it closes what it has by then, one handle
\* after the other.
port_waiter_srv ==
    LET P == "PORT_WAITER_PORT"
        W(l) == At("port_waiter", l)
        Then(l) == Goto("port_waiter", l)
    IN  /\ NoFault
        /\ \/ /\ W("start")
              /\ queue' = [queue EXCEPT !["START_PORT"] = Append(@, "shandle")]
              /\ conn' = [conn EXCEPT !["shandle"].st = "queued"]
              /\ pc' = [a \in App |->
                           IF a = "port_waiter" THEN "connecting"
                           ELSE IF pc[a] = "off" THEN Started(a, "connect", queue')
                           ELSE pc[a]]
              /\ UNCHANGED <<ports, chan>>
           \/ /\ W("connecting") /\ Events("shandle") # {}
              /\ Then(IF "READY" \in Events("shandle") THEN "create" ELSE "exit")
              /\ conn' = [conn EXCEPT !["shandle"].ready = FALSE]
              /\ UNCHANGED <<ports, queue, chan>>
           \/ Create("port_waiter", P, "create", "wait")
           \/ /\ W("wait") /\ queue[P] # <<>>
              /\ Accept("port_waiter", P)
              /\ Then(IF Head(queue[P]) # "closed" THEN "send_cmd"
                                                  ELSE "close_phandle")
              /\ UNCHANGED ports
           \/ /\ W("send_cmd")
              /\ Then(IF CanSend("shandle") THEN "wait_rsp" ELSE "close_chandle")
              /\ chan' = IF CanSend("shandle")
                         THEN [chan EXCEPT !["port_start"].inq = <<"EXIT">>]
                         ELSE chan
              /\ UNCHANGED <<ports, queue, conn>>
           \/ /\ W("wait_rsp") /\ Events("shandle") # {}
              /\ Then(IF "MSG" \in Events("shandle") THEN "send_rsp"
                                                     ELSE "close_chandle")
              /\ UNCHANGED <<ports, queue, conn, chan>>
           \/ /\ W("send_rsp")
              /\ Then("close_chandle")
              /\ conn' = [conn EXCEPT
                     !["shandle"].msg = <<>>,
                     !["chan"].msg = IF chan["port_waiter"].peer = "chan" /\ @ = <<>>
                                     THEN conn["shandle"].msg ELSE @]
              /\ UNCHANGED <<ports, queue, chan>>
           \/ /\ W("close_chandle") /\ Close({}, {"port_waiter"}, {})
              /\ Then("close_phandle")
           \/ W("close_phandle") /\ Close({P}, {}, {}) /\ Then("close_shandle")
           \/ W("close_shandle") /\ Close({}, {}, {"shandle"}) /\ Then("exit")
           \/ W("exit") /\ Exit("port_waiter")

Servers ==
    \/ port_start_srv \/ restart_srv \/ boot_start_srv \/ port_waiter_srv
    \/ NoFault /\ StartFails
=============================================================================
