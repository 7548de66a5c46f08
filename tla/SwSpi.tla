------------------------------- MODULE SwSpi --------------------------------
(***************************************************************************)
(* The software SPI driver (spi/swspi-srv/driver/swspi.c) and the server   *)
(* library that calls it.  A client sends a batch of commands for a        *)
(* device; the library opens a sequence, requests the commands one by one  *)
(* and commits the sequence, or aborts it when a request is refused.  The  *)
(* library (lib/spi/srv) is not in this repository: it is modelled from    *)
(* the driver's assertions and from what swspi-test.c expects of batches.  *)
(* Server and driver are one thread and a batch is handled by one call.    *)
(***************************************************************************)
EXTENDS Naturals, Sequences

CONSTANTS
    Dev,            \* struct spi_dev_ctx
    Bus,            \* struct spi_bus_ctx
    BusOf,          \* dev->bus
    num_devs,       \* of each bus
    NoDev,          \* NULL, for an owner
    Batches,        \* what the clients send, for each device
    NoBuf,          \* NULL, for a buffer
    Contents,       \* what a buffer may hold
    digest,         \* the digest of each content
    loopback        \* dev->loopback

\* A transfer names the contents of its tx buffer, or NoBuf, and says whether
\* it has an rx buffer.
Command == [op : {"set_clk", "cs_assert", "cs_deassert", "delay"}]
    \cup [op : {"xfer"}, tx : Contents \cup {NoBuf}, rx : BOOLEAN]

\* An entry of a sequence that has not been filled.
Empty == [op |-> "empty"]

\* A sequence of n such entries.
Entries(n) == [i \in 1..n |-> Empty]

ASSUME BusAssumption ==
    /\ BusOf \in [Dev -> Bus] /\ num_devs \in [Bus -> Nat] /\ NoDev \notin Dev
    /\ \A d1, d2 \in Dev :
          d1 # d2 /\ BusOf[d1] = BusOf[d2] => num_devs[BusOf[d1]] > 1
ASSUME BatchesAssumption ==
    \A d \in Dev : \A b \in Batches[d] : b \in Seq(Command)
ASSUME ContentsAssumption ==
    /\ NoBuf \notin Contents /\ digest \in [Contents -> 0..255]
    /\ loopback \in [Dev -> BOOLEAN]

VARIABLES
    owner,    \* of each bus
    active,   \* dev->cmds is not NULL
    cmds,     \* the entries of dev->cmds: commands, or Empty
    num_cmds, curr_cmd,
    args,     \* for each device, the indices of entries with memory for priv
    failed,   \* an assertion has failed, or cmds is written out of bounds
    phase,    \* of the library: idle, filling, failing, executing or done
    dev,      \* the device of the batch, or NoDev
    batch,    \* the batch
    pos,      \* commands requested, then commands executed
    cs,       \* chip select of dev after the commands requested
    asserted, \* chip select of each device between batches
    rx,       \* what has been received
    result,   \* of the batch
    before    \* the owners when the batch came (history)

drv == <<owner, active, cmds, num_cmds, curr_cmd, args, failed>>
vars == <<drv, phase, dev, batch, pos, cs, asserted, rx, result, before>>

Init ==
    /\ owner = [b \in Bus |-> NoDev] /\ before = owner
    /\ active = [d \in Dev |-> FALSE]
    /\ cmds = [d \in Dev |-> Entries(0)]
    /\ num_cmds = [d \in Dev |-> 0] /\ curr_cmd = [d \in Dev |-> 0]
    /\ args = [d \in Dev |-> {}]
    /\ failed = FALSE
    /\ phase = "idle" /\ dev = NoDev /\ batch = <<>> /\ pos = 0
    /\ cs = FALSE /\ asserted = [d \in Dev |-> FALSE]
    /\ rx = <<>> /\ result = "none"

-----------------------------------------------------------------------------
(* The driver.                                                             *)

\* Mutant: off by one.
spi_is_bus_shared_off_by_one(d) == num_devs[BusOf[d]] > 2

spi_is_bus_shared(d) == num_devs[BusOf[d]] > 1

\* spi_seq_begin when calloc succeeds.
spi_seq_begin(d, n) ==
    /\ failed' = active[d]
    /\ active' = [active EXCEPT ![d] = TRUE]
    /\ cmds' = [cmds EXCEPT ![d] = Entries(n)]
    /\ num_cmds' = [num_cmds EXCEPT ![d] = n]
    /\ UNCHANGED <<owner, curr_cmd, args>>

\* The commands for which memory is allocated.
HasArgs(c) == c.op \in {"xfer", "delay"}

\* spi_req_set_clk, spi_req_cs_assert, spi_req_cs_deassert, spi_req_xfer and
\* spi_req_delay, when malloc succeeds: the next entry is filled.  Three of
\* them assert that there is one; without it the others would write past the
\* end of the array.
spi_req(d, c) ==
    /\ IF active[d] /\ curr_cmd[d] < num_cmds[d]
       THEN /\ cmds' = [cmds EXCEPT ![d][curr_cmd[d] + 1] = c]
            /\ args' = [args EXCEPT ![d] =
                   IF HasArgs(c) THEN @ \cup {curr_cmd[d] + 1} ELSE @]
            /\ UNCHANGED failed
       ELSE failed' = TRUE /\ UNCHANGED <<cmds, args>>
    /\ curr_cmd' = [curr_cmd EXCEPT ![d] = @ + 1]
    /\ UNCHANGED <<owner, active, num_cmds>>

\* Mutant: the index is not reset.
spi_seq_free_keeps_curr(d) ==
    /\ args' = [args EXCEPT ![d] = @ \ (1..num_cmds[d])]
    /\ active' = [active EXCEPT ![d] = FALSE]
    /\ cmds' = [cmds EXCEPT ![d] = Entries(0)]
    /\ num_cmds' = [num_cmds EXCEPT ![d] = 0]
    /\ UNCHANGED curr_cmd

\* Mutant: the loop starts at the second entry.
spi_seq_free_skips_first(d) ==
    /\ args' = [args EXCEPT ![d] = @ \ (2..num_cmds[d])]
    /\ active' = [active EXCEPT ![d] = FALSE]
    /\ cmds' = [cmds EXCEPT ![d] = Entries(0)]
    /\ num_cmds' = [num_cmds EXCEPT ![d] = 0]
    /\ curr_cmd' = [curr_cmd EXCEPT ![d] = 0]

\* spi_seq_free: the memory of all num_cmds entries, then the array.
spi_seq_free(d) ==
    /\ args' = [args EXCEPT ![d] = @ \ (1..num_cmds[d])]
    /\ active' = [active EXCEPT ![d] = FALSE]
    /\ cmds' = [cmds EXCEPT ![d] = Entries(0)]
    /\ num_cmds' = [num_cmds EXCEPT ![d] = 0]
    /\ curr_cmd' = [curr_cmd EXCEPT ![d] = 0]

\* spi_seq_abort.
spi_seq_abort(d) ==
    /\ failed' = ~active[d]
    /\ spi_seq_free(d)
    /\ UNCHANGED owner

\* spi_req_exec_cs_assert: the bus must be free.
spi_req_exec_cs_assert(d) ==
    /\ failed' = (owner[BusOf[d]] # NoDev)
    /\ owner' = [owner EXCEPT ![BusOf[d]] = d]

\* Mutant: the bus is not released.
spi_req_exec_cs_deassert_keeps(d) ==
    /\ failed' = (owner[BusOf[d]] # d)
    /\ UNCHANGED owner

\* spi_req_exec_cs_deassert: the device must own the bus.
spi_req_exec_cs_deassert(d) ==
    /\ failed' = (owner[BusOf[d]] # d)
    /\ owner' = [owner EXCEPT ![BusOf[d]] = NoDev]

\* What spi_req_exec_xfer puts in rx: what was sent, on a loopback device, or
\* the bytes that rand yields for a seed.
Received(d, tx) ==
    IF loopback[d]
    THEN [copy_of |-> tx]    \* zeroes, for no tx
    ELSE [seed |-> IF tx = NoBuf THEN 0 ELSE digest[tx]]

\* The exec functions.  A clock has no effect and a delay only takes time; a
\* transfer without rx is sent and forgotten.
spi_req_exec(d, c) ==
    CASE c.op = "cs_assert"   -> spi_req_exec_cs_assert(d) /\ UNCHANGED rx
      [] c.op = "cs_deassert" -> spi_req_exec_cs_deassert(d) /\ UNCHANGED rx
      [] c.op = "xfer"        -> /\ rx' = IF c.rx
                                          THEN Append(rx, Received(d, c.tx))
                                          ELSE rx
                                 /\ UNCHANGED <<owner, failed>>
      [] OTHER                -> UNCHANGED <<owner, failed, rx>>

-----------------------------------------------------------------------------
(* The server library.                                                     *)

\* Chip select is as the command needs it (cs_double_assert and
\* cs_already_deasserted in swspi-test.c are refused, not executed).
CsAllows(c) == CASE c.op = "cs_assert" -> ~cs
                 [] c.op = "cs_deassert" -> cs
                 [] OTHER -> TRUE

\* A batch for device d.  calloc may fail.
SrvBegin(d, b) ==
    /\ phase = "idle" /\ ~failed
    /\ dev' = d /\ batch' = b /\ pos' = 0 /\ rx' = <<>>
    /\ cs' = asserted[d] /\ before' = owner
    /\ \/ /\ spi_seq_begin(d, Len(b))
          /\ phase' = "filling" /\ result' = "none"
       \/ phase' = "done" /\ result' = "error" /\ UNCHANGED drv
    /\ UNCHANGED asserted

\* The next command is requested; or the library refuses it, or its malloc
\* fails.
SrvRequest ==
    /\ phase = "filling" /\ ~failed /\ pos < Len(batch)
    /\ LET c == batch[pos + 1]
       IN  \/ /\ CsAllows(c)
              /\ spi_req(dev, c)
              /\ pos' = pos + 1
              /\ cs' = CASE c.op = "cs_assert" -> TRUE
                         [] c.op = "cs_deassert" -> FALSE
                         [] OTHER -> cs
              /\ UNCHANGED phase
           \/ phase' = "failing" /\ UNCHANGED <<drv, pos, cs>>
    /\ UNCHANGED <<dev, batch, asserted, rx, result, before>>

\* spi_seq_commit starts; chip select cannot be left asserted on a shared bus
\* (cs_shared_bus in swspi-test.c).
SrvCommit ==
    /\ phase = "filling" /\ ~failed /\ pos = Len(batch)
    /\ IF cs /\ spi_is_bus_shared(dev)
       THEN phase' = "failing" /\ UNCHANGED failed
       ELSE /\ phase' = "executing"
            /\ failed' = ~(active[dev] /\ curr_cmd[dev] = num_cmds[dev])
    /\ pos' = 0
    /\ UNCHANGED <<owner, active, cmds, num_cmds, curr_cmd, args, dev, batch,
                   cs, asserted, rx, result, before>>

SrvAbort ==
    /\ phase = "failing" /\ ~failed
    /\ spi_seq_abort(dev)
    /\ phase' = "done" /\ result' = "error"
    /\ UNCHANGED <<dev, batch, pos, cs, asserted, rx, before>>

\* Mutant: the last command is not executed.
MoreToExecute_off_by_one == pos + 1 < num_cmds[dev]

MoreToExecute == pos < num_cmds[dev]

\* Mutant: the last command goes first.
spi_seq_commit_exec_backwards ==
    /\ phase = "executing" /\ ~failed /\ MoreToExecute
    /\ spi_req_exec(dev, cmds[dev][num_cmds[dev] - pos])
    /\ pos' = pos + 1
    /\ UNCHANGED <<active, cmds, num_cmds, curr_cmd, args, phase, dev, batch,
                   cs, asserted, result, before>>

\* The loop of spi_seq_commit.
spi_seq_commit_exec ==
    /\ phase = "executing" /\ ~failed /\ MoreToExecute
    /\ spi_req_exec(dev, cmds[dev][pos + 1])
    /\ pos' = pos + 1
    /\ UNCHANGED <<active, cmds, num_cmds, curr_cmd, args, phase, dev, batch,
                   cs, asserted, result, before>>

\* Its end.
spi_seq_commit_end ==
    /\ phase = "executing" /\ ~failed /\ ~MoreToExecute
    /\ spi_seq_free(dev)
    /\ phase' = "done" /\ result' = "ok"
    /\ asserted' = [asserted EXCEPT ![dev] = cs]
    /\ UNCHANGED <<owner, failed, dev, batch, pos, cs, rx, before>>

\* The reply is sent and the next batch may come.
SrvReply ==
    /\ phase = "done"
    /\ phase' = "idle" /\ dev' = NoDev /\ batch' = <<>> /\ pos' = 0
    /\ cs' = FALSE /\ rx' = <<>> /\ result' = "none" /\ before' = owner
    /\ UNCHANGED <<drv, asserted>>

Next == \/ \E d \in Dev : \E b \in Batches[d] : SrvBegin(d, b)
        \/ SrvRequest \/ SrvCommit \/ SrvAbort
        \/ spi_seq_commit_exec \/ spi_seq_commit_end \/ SrvReply

Spec == Init /\ [][Next]_vars

-----------------------------------------------------------------------------
(* Properties.                                                             *)

\* The types of the driver's and the library's state; the index of the entry
\* to be filled never passes the end of the array.
TypeOK ==
    /\ owner \in [Bus -> Dev \cup {NoDev}]
    /\ before \in [Bus -> Dev \cup {NoDev}]
    /\ active \in [Dev -> BOOLEAN] /\ asserted \in [Dev -> BOOLEAN]
    /\ num_cmds \in [Dev -> Nat] /\ curr_cmd \in [Dev -> Nat]
    /\ DOMAIN cmds = Dev /\ DOMAIN args = Dev
    /\ \A d \in Dev : /\ cmds[d] \in [1..num_cmds[d] -> Command \cup {Empty}]
                      /\ curr_cmd[d] <= num_cmds[d]
                      /\ args[d] \subseteq 1..num_cmds[d]
    /\ failed \in BOOLEAN /\ cs \in BOOLEAN
    /\ phase \in {"idle", "filling", "failing", "executing", "done"}
    /\ phase # "idle" => dev \in Dev
    /\ batch \in Seq(Command)
    /\ pos \in 0..Len(batch)
    /\ result \in {"none", "ok", "error"}

\* No assertion of the driver fails and nothing is written past the end of a
\* sequence, whatever batches come for whatever devices, and wherever a batch
\* is given up: the library's idea of chip select, kept while commands are
\* requested, is the driver's idea of the bus owner when they are executed.
DriverAssertionsHold == ~failed

\* Between batches a shared bus belongs to nobody, and a dedicated bus to its
\* device exactly as long as that device's chip select is left asserted; a
\* batch for one device cannot find the bus held by another.
BusFreeBetweenBatches ==
    phase = "idle" =>
        \A d \in Dev :
            /\ (owner[BusOf[d]] = d) <=> asserted[d]
            /\ num_devs[BusOf[d]] > 1 => owner[BusOf[d]] = NoDev

\* spi_seq_free gives back all memory: of a sequence given up half-way, where
\* only some entries have any, of one that was executed, and of none twice.
NoLeak ==
    \A d \in Dev :
        args[d] = {i \in 1..curr_cmd[d] :
                      active[d] /\ cmds[d][i].op \in {"xfer", "delay"}}

\* Reference: chip select after the first k commands of b, for a device that
\* has it asserted before them or not.
IsCs(c) == c.op \in {"cs_assert", "cs_deassert"}
CsAfter(b, first, k) ==
    \/ first /\ \A i \in 1..k : ~IsCs(b[i])
    \/ \E j \in 1..k : /\ b[j].op = "cs_assert"
                        /\ \A i \in (j + 1)..k : ~IsCs(b[i])

\* Reference: each chip select command among the first k changes it.
InOrder(b, first, k) ==
    \A i \in 1..k :
        /\ b[i].op = "cs_assert" => ~CsAfter(b, first, i - 1)
        /\ b[i].op = "cs_deassert" => CsAfter(b, first, i - 1)

\* A batch is executed as a whole or not at all.  If it fails, the buses are
\* as they were and nothing was received; if it succeeds, its chip select
\* commands were in order and the bus is left as the last of them says.
AllOrNothing ==
    /\ (phase = "done" /\ result = "error") => owner = before /\ rx = <<>>
    /\ (phase = "done" /\ result = "ok") =>
          LET bus == BusOf[dev]
              first == before[bus] = dev
          IN  /\ InOrder(batch, first, Len(batch))
              /\ owner = [before EXCEPT ![bus] =
                             IF CsAfter(batch, first, Len(batch))
                             THEN dev ELSE NoDev]

\* Reference: r holds the answers to the receiving transfers among the first
\* k commands of b, each of them once and in their order.
AnswersTo(r, d, b, k) ==
    LET xfers == {i \in 1..k : b[i].op = "xfer" /\ b[i].rx}
    IN  \E f \in [DOMAIN r -> xfers] :
            /\ \A i, j \in DOMAIN r : i < j => f[i] < f[j]
            /\ \A x \in xfers : \E i \in DOMAIN r : f[i] = x
            /\ \A i \in DOMAIN r : r[i] = Received(d, b[f[i]].tx)

\* In a batch that succeeds each receiving transfer got, in order, the answer
\* to what it sent.
ReceivedInOrder ==
    (phase = "done" /\ result = "ok") => AnswersTo(rx, dev, batch, Len(batch))
=============================================================================
