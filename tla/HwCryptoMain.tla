---------------------------- MODULE HwCryptoMain ----------------------------
(***************************************************************************)
(* The hwcrypto application (hwcrypto/main.c): it starts its three         *)
(* services one after the other and then dispatches events for ever.  The  *)
(* keybox service is composed with it in full (Keybox); of the other two,  *)
(* which have modules of their own, only the port and one client that      *)
(* connects to it are here.                                                *)
(*                                                                         *)
(* A port whose set_cookie failed is "mute": its events have no handler.   *)
(***************************************************************************)
EXTENDS Keybox

VARIABLES
    at,    \* where main is
    port,  \* per service: "none", "ready" or "mute"
    peer   \* per other service: its client, "none", "queued" or "done"

mainvars == <<at, port, peer>>
allvars == <<vars, mainvars>>

Other == {"hwrng", "hwkey"}
Services == Other \cup {"keybox"}

MainInit ==
    /\ Init
    /\ at = "hwrng_start_service"
    /\ port = [s \in Services |-> "none"]
    /\ peer = [s \in Other |-> "none"]

Exists(s) == port[s] \in {"ready", "mute"}

\* The kernel closes the ports S and hangs up those who are queued there.
ClosePorts(S) ==
    /\ port' = [s \in Services |-> IF s \in S THEN "none" ELSE port[s]]
    /\ peer' = [s \in Other |-> IF s \in S /\ Exists(s) /\ peer[s] = "queued"
                                THEN "done" ELSE peer[s]]

\* main returns or aborts, and the kernel closes what it held.
Stop ==
    /\ at' = "stopped"
    /\ ClosePorts(Services)
    /\ st' = [c \in Chan |-> IF st[c] = "open" /\ hup[c] THEN "free"
                             ELSE IF st[c] = "free" THEN "free" ELSE "closed"]
    /\ hup' = [c \in Chan |-> FALSE]
    /\ inq' = [c \in Chan |-> <<>>]
    /\ asked' = [c \in Chan |-> IF hup[c] THEN <<>> ELSE asked[c]]
    /\ UNCHANGED <<outq, heap>>

\* port_create and set_cookie for service s, then on to l.
PortCreated(s, cookie, l) ==
    /\ port' = [port EXCEPT ![s] = cookie]
    /\ at' = l
    /\ UNCHANGED <<vars, peer>>

\* hwrng_start_service; the result of set_cookie is not looked at.  The
\* device is initialised next, which cannot fail in the fake provider: the
\* clean-up at err_hwrng_dev_init, which would close the port, is not reached.
hwrng_start_service ==
    /\ at = "hwrng_start_service"
    /\ \/ Stop
       \/ \E cookie \in {"ready", "mute"} :
             PortCreated("hwrng", cookie, "hwkey_init_srv_provider")

\* hwkey_init_srv_provider: the self test may abort; hwkey_start_service may
\* fail, and main goes on without it.  If it was set_cookie that failed, a
\* client that waited for the port finds it and is hung up.
hwkey_init_srv_provider ==
    /\ at = "hwkey_init_srv_provider"
    /\ \/ Stop
       \/ \E cookie \in {"ready", "none"} :
             PortCreated("hwkey", cookie, "keybox_start_service")
       \/ /\ at' = "keybox_start_service"
          /\ peer' = [peer EXCEPT !["hwkey"] = IF @ = "queued" THEN "done" ELSE @]
          /\ UNCHANGED <<vars, port>>

keybox_start_service ==
    /\ at = "keybox_start_service"
    /\ \/ Stop
       \/ \E cookie \in {"ready", "mute"} :
             PortCreated("keybox", cookie, "loop")

\* Mutant: an event without a handler is only logged.
dispatch_event_no_close(s) == at = "loop" /\ heap = "ok" /\ UNCHANGED allvars

\* dispatch_event for a connection to the port of service s.  The handlers
\* of the other services accept it (or fail to, and close it).
dispatch_event(s) ==
    /\ at = "loop" /\ heap = "ok"
    /\ \/ /\ port[s] = "ready" /\ s \in Other
          /\ peer[s] = "queued"
          /\ peer' = [peer EXCEPT ![s] = "done"]
          /\ UNCHANGED <<vars, at, port>>
       \/ /\ port[s] = "ready" /\ s = "keybox"
          /\ \E c \in Chan : keybox_port_handler(c)
          /\ UNCHANGED mainvars
       \/ /\ port[s] = "mute"
          /\ IF s \in Other THEN peer[s] = "queued"
                            ELSE \E c \in Chan : st[c] = "connecting"
          /\ ClosePorts({s})
          /\ st' = [c \in Chan |-> IF s = "keybox" /\ st[c] = "connecting"
                                   THEN "closed" ELSE st[c]]
          /\ UNCHANGED <<at, hup, inq, outq, asked, heap>>

\* wait_any fails.
WaitFails == at = "loop" /\ heap = "ok" /\ Stop

\* The events of a session have their handler; see Keybox.
SessionEvent(c) ==
    /\ at = "loop"
    /\ \E event \in SUBSET Pending(c) : keybox_chan_handler(c, event)
    /\ UNCHANGED mainvars

main ==
    \/ hwrng_start_service \/ hwkey_init_srv_provider \/ keybox_start_service
    \/ \E s \in Services : dispatch_event(s)
    \/ \E c \in Chan : SessionEvent(c)
    \/ WaitFails

\* A client of the hwrng or the hwkey service; it may be waiting for a port
\* that is not there yet.
Connects(s) ==
    /\ peer[s] = "none"
    /\ peer' = [peer EXCEPT ![s] = "queued"]
    /\ UNCHANGED <<vars, at, port>>

\* The keybox clients are those of Keybox; they connect if there is a port.
KeyboxClient(c) ==
    /\ \/ Exists("keybox") /\ ClientConnect(c)
       \/ at = "loop" /\ \E m \in Messages : ClientSend(c, m)
       \/ ClientRecv(c)
       \/ ClientClose(c)
    /\ UNCHANGED mainvars

MainNext ==
    \/ main
    \/ \E s \in Other : Connects(s)
    \/ \E c \in Chan : KeyboxClient(c)

\* The kernel lets main run, and reports every event of a handle that main
\* keeps waiting on; the clients need not do anything.
MainFairness ==
    /\ WF_allvars(hwrng_start_service)
    /\ WF_allvars(hwkey_init_srv_provider)
    /\ WF_allvars(keybox_start_service)
    /\ \A s \in Services : WF_allvars(dispatch_event(s))
    /\ \A c \in Chan :
          WF_allvars(at = "loop" /\ keybox_chan_handler(c, Pending(c))
                     /\ UNCHANGED mainvars)

MainSpec == MainInit /\ [][MainNext]_allvars /\ MainFairness

-----------------------------------------------------------------------------

\* Whichever of the start-up calls fail, a client that is connecting to a
\* port of the application, or is waiting for one that comes up, is in the
\* end accepted or hung up; it does not wait for a service that will never
\* answer.  A client that waits for a port that is never created still does.
ConnectionsResolved ==
    /\ \A s \in Other :
          (peer[s] = "queued" /\ Exists(s)) ~> (peer[s] # "queued" \/ heap # "ok")
    /\ \A c \in Chan :
          st[c] = "connecting" ~> (st[c] # "connecting" \/ heap # "ok")
=============================================================================
