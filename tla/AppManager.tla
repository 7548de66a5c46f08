----------------------------- MODULE AppManager -----------------------------
(***************************************************************************)
(* The kernel's application manager and its ports, as app-mgmt-test sees   *)
(* them.  The kernel is not part of this repository: what is here follows  *)
(* from how the servers call it and from what the tests and their comments *)
(* expect.                                                                 *)
(*                                                                         *)
(* An application runs one thread; pc says where it stands.  A client's    *)
(* end of a connection is in conn.  Connections that are not accepted yet  *)
(* are in the queue of their port, in order: "pending" if the port         *)
(* exists, "waiting" if it does not.  A start port names an application    *)
(* that is started when somebody connects; if the port goes, its pending   *)
(* connections wait for it again.                                          *)
(***************************************************************************)
EXTENDS Naturals, Sequences

VARIABLES
    pc,     \* per application: "unloaded", "off", or a place in its main
    ports,  \* the ports that exist
    queue,  \* per port: connections in order, "closed" where a client left
    conn,   \* per client end: [st, ready, msg]
    chan    \* per application: its accepted channel, [peer, inq]

sysvars == <<pc, ports, queue, conn, chan>>

App == {"boot_start", "never_start", "restart", "port_start",
        "port_start_fail", "port_waiter"}

Port == {"START_PORT", "CTRL_PORT", "SHUTDOWN_PORT", "START_FAIL_PORT",
         "RESTART_PORT", "NEVER_START_PORT", "BOOT_START_PORT",
         "PORT_WAITER_PORT"}

\* The test client's handles, its local variable chan, and the connection of
\* port-waiter-srv.
Conn == {"MAIN_CHAN", "PEND_CHAN", "WAIT_CHAN", "chan", "shandle"}

\* Manifests: mgmt_flags and start_ports.
deferred_start == {"port_start", "port_start_fail", "never_start"}
restart_on_exit == {"restart", "never_start"}
start_ports == [a \in {"port_start", "port_start_fail"} |->
                   IF a = "port_start" THEN "START_PORT" ELSE "START_FAIL_PORT"]

\* The ports an application creates, and the client ends it holds.
OwnPorts(a) ==
    CASE a = "port_start" -> {"START_PORT", "CTRL_PORT", "SHUTDOWN_PORT"}
      [] a = "port_waiter" -> {"PORT_WAITER_PORT"}
      [] a = "restart" -> {"RESTART_PORT"}
      [] a = "boot_start" -> {"BOOT_START_PORT"}
      [] OTHER -> {}
OwnConns(a) == IF a = "port_waiter" THEN {"shandle"} ELSE {}

IsStartPort(p) == \E a \in DOMAIN start_ports : start_ports[a] = p

NoConn == [st |-> "none", ready |-> FALSE, msg |-> <<>>]
NoChan == [peer |-> "none", inq |-> <<>>]

SysInit ==
    /\ ports = {}
    /\ queue = [p \in Port |-> <<>>]
    /\ conn = [c \in Conn |-> NoConn]
    /\ chan = [a \in App |-> NoChan]

Queued(c, p) == \E i \in DOMAIN queue[p] : queue[p][i] = c
Live(q) == SelectSeq(q, LAMBDA e : e # "closed")

\* The events wait() would report for a client's end.
Events(c) == (IF conn[c].ready THEN {"READY"} ELSE {})
       \cup (IF conn[c].msg # <<>> THEN {"MSG"} ELSE {})
       \cup (IF conn[c].st = "hup" THEN {"HUP"} ELSE {})

\* A message to the other end needs a free buffer there.
CanSend(c) == \E a \in App : chan[a].peer = c /\ chan[a].inq = <<>>
CanReply(a) == chan[a].peer \in Conn /\ conn[chan[a].peer].msg = <<>>

-----------------------------------------------------------------------------

\* An application that is off and has a live connection to its start port
\* runs; so does one that is to be restarted.
Started(a, off, q) ==
    IF \/ a \in restart_on_exit /\ off = "exit"
       \/ a \notin deferred_start /\ off = "load"
       \/ a \in DOMAIN start_ports /\ Live(q[start_ports[a]]) # <<>>
    THEN "start" ELSE "off"

\* connect: enters the queue of a port that exists, can be started, or is
\* waited for.  Otherwise it fails and c stays as it is.
Connectable(p, wait) ==
    \/ p \in ports \/ wait
    \/ \E a \in DOMAIN start_ports : start_ports[a] = p /\ pc[a] # "unloaded"

Connect(c, p, wait) ==
    /\ IF Connectable(p, wait)
       THEN /\ queue' = [queue EXCEPT ![p] = Append(@, c)]
            /\ conn' = [conn EXCEPT ![c].st = "queued"]
            /\ pc' = [a \in App |-> IF pc[a] = "off"
                                    THEN Started(a, "connect", queue')
                                    ELSE pc[a]]
       ELSE UNCHANGED <<queue, conn, pc>>
    /\ UNCHANGED <<ports, chan>>

\* accept on port p by a: the first connection, which may have been closed.
Accept(a, p) ==
    LET c == Head(queue[p])
    IN  /\ queue' = [queue EXCEPT ![p] = Tail(@)]
        /\ IF c = "closed" THEN UNCHANGED <<conn, chan>>
           ELSE /\ conn' = [conn EXCEPT ![c].st = "open", ![c].ready = TRUE]
                /\ chan' = [chan EXCEPT ![a] = [peer |-> c, inq |-> <<>>]]

\* Closes the ports P, the channels of the applications A and the client
\* ends C.  What was pending on a start port waits again; what was pending on
\* another port is hung up, like the clients of A.
Close(P, A, C) ==
    LET HungUp == {c \in Conn : \/ \E a \in A : chan[a].peer = c
                                \/ \E p \in P : ~IsStartPort(p) /\ Queued(c, p)}
        Leave(p) == [i \in DOMAIN queue[p] |->
                        IF queue[p][i] \in C THEN "closed" ELSE queue[p][i]]
    IN  /\ ports' = ports \ P
        /\ queue' = [p \in Port |->
              IF p \in P /\ ~IsStartPort(p) THEN <<>>
              ELSE IF p \in ports' THEN Leave(p) ELSE Live(Leave(p))]
        /\ conn' = [c \in Conn |->
              IF c \in C THEN NoConn
              ELSE IF c \in HungUp THEN [conn[c] EXCEPT !.st = "hup"]
              ELSE conn[c]]
        /\ chan' = [a \in App |->
              IF a \in A THEN NoChan
              ELSE IF chan[a].peer \in C THEN [chan[a] EXCEPT !.peer = "gone"]
              ELSE chan[a]]

\* The end of a process: the kernel closes what it still holds and decides
\* whether to start it again.
Exit(a) ==
    /\ Close(OwnPorts(a) \cap ports, {a}, OwnConns(a))
    /\ pc' = [pc EXCEPT ![a] = Started(a, "exit", queue')]

\* Loading an application starts it unless its start is deferred and nobody
\* waits for its start port.
Load(a) ==
    /\ pc' = [pc EXCEPT ![a] = Started(a, "load", queue)]
    /\ UNCHANGED <<ports, queue, conn, chan>>

\* port-start-fail-srv asks for more memory than there is: it cannot be
\* started, and those who wait for it are hung up.
StartFails ==
    /\ pc["port_start_fail"] = "start"
    /\ LET W == {c \in Conn : Queued(c, "START_FAIL_PORT")}
       IN  conn' = [c \in Conn |-> IF c \in W THEN [conn[c] EXCEPT !.st = "hup"]
                                   ELSE conn[c]]
    /\ queue' = [queue EXCEPT !["START_FAIL_PORT"] = <<>>]
    /\ pc' = [pc EXCEPT !["port_start_fail"] = "off"]
    /\ UNCHANGED <<ports, chan>>
=============================================================================
