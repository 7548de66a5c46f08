---------------------------- MODULE SwSpiProofs -----------------------------
(***************************************************************************)
(* The software SPI driver's assertions hold, and batches are all or       *)
(* nothing, for every set of buses and devices and for batches of every    *)
(* length.                                                                 *)
(***************************************************************************)
EXTENDS SwSpi, TLAPS

-----------------------------------------------------------------------------
(* The reference for chip select, command by command.                      *)

\* Before the first command chip select is as it was.
LEMMA CsAtFirst ==
    ASSUME NEW b, NEW first \in BOOLEAN
    PROVE  /\ CsAfter(b, first, 0) <=> first
           /\ InOrder(b, first, 0)
  BY DEF CsAfter, InOrder

\* A chip select command decides; any other leaves chip select alone.
LEMMA CsStep ==
    ASSUME NEW b, NEW first \in BOOLEAN, NEW k \in Nat
    PROVE  CsAfter(b, first, k + 1) <=>
              \/ b[k + 1].op = "cs_assert"
              \/ b[k + 1].op # "cs_deassert" /\ CsAfter(b, first, k)
  <1>1. CASE b[k + 1].op = "cs_assert"
    BY <1>1 DEF CsAfter, IsCs
  <1>2. CASE b[k + 1].op = "cs_deassert"
    BY <1>2 DEF CsAfter, IsCs
  <1>3. CASE ~IsCs(b[k + 1])
    <2>1. CsAfter(b, first, k + 1) => CsAfter(b, first, k)
      BY <1>3 DEF CsAfter, IsCs
    <2>2. CsAfter(b, first, k) => CsAfter(b, first, k + 1)
      BY <1>3 DEF CsAfter, IsCs
    <2> QED
      BY <1>3, <2>1, <2>2 DEF IsCs
  <1> QED
    BY <1>1, <1>2, <1>3 DEF IsCs

\* The order of one command more.
LEMMA InOrderStep ==
    ASSUME NEW b, NEW first \in BOOLEAN, NEW k \in Nat
    PROVE  InOrder(b, first, k + 1) <=>
              /\ InOrder(b, first, k)
              /\ b[k + 1].op = "cs_assert" => ~CsAfter(b, first, k)
              /\ b[k + 1].op = "cs_deassert" => CsAfter(b, first, k)
  <1>1. \A i \in 1..(k + 1) : i \in 1..k \/ i = k + 1
    OBVIOUS
  <1>2. (k + 1) - 1 = k
    OBVIOUS
  <1> QED
    BY <1>1, <1>2 DEF InOrder

-----------------------------------------------------------------------------
(* The inductive invariant.                                                *)

\* The owners o are the devices that have chip select asserted.
Agree(o) ==
    /\ \A b \in Bus : o[b] # NoDev => BusOf[o[b]] = b /\ asserted[o[b]]
    /\ \A d \in Dev : asserted[d] => o[BusOf[d]] = d

\* Only the device of the batch has a sequence, of the batch's length.
SequenceInv ==
    /\ \A d \in Dev :
          active[d] <=> phase \in {"filling", "failing", "executing"} /\ d = dev
    /\ \A d \in Dev : ~active[d] => num_cmds[d] = 0
    /\ phase \in {"filling", "failing", "executing"} =>
          num_cmds[dev] = Len(batch)

\* The entries requested are the commands of the batch, and the library's chip
\* select is the reference's.
FillingInv ==
    phase = "filling" =>
        /\ curr_cmd[dev] = pos
        /\ \A i \in 1..pos : cmds[dev][i] = batch[i]
        /\ cs <=> CsAfter(batch, asserted[dev], pos)
        /\ InOrder(batch, asserted[dev], pos)

\* The sequence is the batch, which is in order, and the owner of the bus is
\* the reference's after the commands executed.
ExecutingInv ==
    phase = "executing" =>
        /\ curr_cmd[dev] = num_cmds[dev]
        /\ \A i \in 1..Len(batch) : cmds[dev][i] = batch[i]
        /\ cs <=> CsAfter(batch, asserted[dev], Len(batch))
        /\ InOrder(batch, asserted[dev], Len(batch))
        /\ cs => ~spi_is_bus_shared(dev)
        /\ CsAfter(batch, asserted[dev], pos) => owner[BusOf[dev]] = dev
        /\ ~CsAfter(batch, asserted[dev], pos) => owner[BusOf[dev]] = NoDev
        /\ \A b \in Bus : b # BusOf[dev] => owner[b] = before[b]

\* Who owns the buses; nothing has happened before a sequence is executed.
OwnersInv ==
    /\ \A d \in Dev : asserted[d] => ~spi_is_bus_shared(d)
    /\ phase # "executing" => Agree(owner)
    /\ phase \in {"filling", "failing", "executing"} => Agree(before)
    /\ phase \in {"filling", "failing"} => owner = before /\ rx = <<>>

SpiInv == /\ TypeOK /\ DriverAssertionsHold
          /\ SequenceInv /\ FillingInv /\ ExecutingInv /\ OwnersInv
          /\ NoLeak /\ AllOrNothing

\* All of it holds at first.
LEMMA SpiInitInv == Init => SpiInv
  <1> SUFFICES ASSUME Init PROVE SpiInv
    OBVIOUS
  <1> USE BusAssumption DEF Init
  <1>1. TypeOK
    <2>1. \A d \in Dev : cmds[d] \in [1..num_cmds[d] -> Command \cup {Empty}]
      BY DEF Entries
    <2>2. batch \in Seq(Command) /\ pos \in 0..Len(batch)
      OBVIOUS
    <2>3. /\ owner \in [Bus -> Dev \cup {NoDev}] /\ before = owner
          /\ active \in [Dev -> BOOLEAN] /\ asserted \in [Dev -> BOOLEAN]
          /\ num_cmds \in [Dev -> Nat] /\ curr_cmd \in [Dev -> Nat]
      OBVIOUS
    <2>4. /\ DOMAIN cmds = Dev /\ DOMAIN args = Dev
          /\ \A d \in Dev : curr_cmd[d] <= num_cmds[d] /\ args[d] = {}
      OBVIOUS
    <2> QED
      BY <2>1, <2>2, <2>3, <2>4 DEF TypeOK
  <1>2. SequenceInv /\ FillingInv /\ ExecutingInv /\ DriverAssertionsHold
    BY DEF SequenceInv, FillingInv, ExecutingInv, DriverAssertionsHold
  <1>3. OwnersInv
    BY DEF OwnersInv, Agree
  <1>4. NoLeak /\ AllOrNothing
    BY DEF NoLeak, AllOrNothing
  <1> QED
    BY <1>1, <1>2, <1>3, <1>4 DEF SpiInv

-----------------------------------------------------------------------------
(* Each step keeps it.                                                     *)

\* A batch comes.
LEMMA BeginStep ==
    ASSUME SpiInv, NEW d \in Dev, NEW b \in Batches[d], SrvBegin(d, b)
    PROVE  SpiInv'
  <1> USE BusAssumption DEF SpiInv, SrvBegin, DriverAssertionsHold
  <1>1. b \in Seq(Command) /\ Len(b) \in Nat
    BY BatchesAssumption
  <1>2. asserted[d] \in BOOLEAN
    BY DEF TypeOK
  <1>3. CASE spi_seq_begin(d, Len(b)) /\ phase' = "filling"
    <2> USE <1>1, <1>2, <1>3 DEF spi_seq_begin
    <2>1. ~active[d] /\ num_cmds[d] = 0 /\ curr_cmd[d] = 0 /\ args[d] = {}
      BY DEF SequenceInv, TypeOK
    <2>2. TypeOK'
      <3>1. \A e \in Dev : /\ cmds'[e] \in [1..num_cmds'[e] -> Command \cup {Empty}]
                           /\ curr_cmd'[e] <= num_cmds'[e]
                           /\ args'[e] \subseteq 1..num_cmds'[e]
        BY <2>1 DEF TypeOK, Entries
      <3> QED
        BY <2>1, <3>1 DEF TypeOK
    <2>3. SequenceInv' /\ failed' = FALSE
      BY <2>1 DEF SequenceInv, TypeOK
    <2>4. FillingInv'
      BY <2>1, CsAtFirst DEF FillingInv, TypeOK
    <2>5. ExecutingInv' /\ AllOrNothing'
      BY DEF ExecutingInv, AllOrNothing
    <2>6. OwnersInv'
      BY DEF OwnersInv, Agree
    <2>7. NoLeak'
      BY <2>1 DEF NoLeak, TypeOK, SequenceInv
    <2> QED
      BY <2>2, <2>3, <2>4, <2>5, <2>6, <2>7
  <1>4. CASE phase' = "done" /\ result' = "error" /\ UNCHANGED drv
    <2> USE <1>1, <1>2, <1>4 DEF drv
    <2>1. TypeOK'
      BY DEF TypeOK
    <2>2. SequenceInv' /\ FillingInv' /\ ExecutingInv' /\ ~failed'
      BY DEF SequenceInv, FillingInv, ExecutingInv
    <2>3. OwnersInv' /\ AllOrNothing'
      BY DEF OwnersInv, Agree, AllOrNothing
    <2>4. NoLeak'
      BY DEF NoLeak
    <2> QED
      BY <2>1, <2>2, <2>3, <2>4
  <1> QED
    BY <1>3, <1>4

\* A command is requested, or the batch given up.
LEMMA RequestStep == SpiInv /\ SrvRequest => SpiInv'
  <1> SUFFICES ASSUME SpiInv, SrvRequest PROVE SpiInv'
    OBVIOUS
  <1> DEFINE c == batch[pos + 1]
  <1> USE BusAssumption DEF SpiInv, SrvRequest, DriverAssertionsHold
  <1>1. /\ dev \in Dev /\ pos \in Nat /\ pos + 1 \in 1..Len(batch)
        /\ c \in Command /\ asserted[dev] \in BOOLEAN /\ active[dev]
        /\ curr_cmd[dev] = pos /\ num_cmds[dev] = Len(batch)
    BY DEF TypeOK, SequenceInv, FillingInv
  <1>2. CASE /\ CsAllows(c) /\ spi_req(dev, c) /\ pos' = pos + 1
             /\ cs' = CASE c.op = "cs_assert" -> TRUE
                        [] c.op = "cs_deassert" -> FALSE
                        [] OTHER -> cs
             /\ UNCHANGED phase
    <2> USE <1>1
    <2>1. /\ cmds' = [cmds EXCEPT ![dev][pos + 1] = c]
          /\ args' = [args EXCEPT ![dev] =
                         IF HasArgs(c) THEN @ \cup {pos + 1} ELSE @]
          /\ curr_cmd' = [curr_cmd EXCEPT ![dev] = pos + 1]
          /\ UNCHANGED <<owner, active, num_cmds, failed, phase>>
          /\ pos' = pos + 1
      BY <1>2 DEF spi_req
    <2>2. TypeOK'
      <3>1. \A e \in Dev :
               /\ cmds'[e] \in [1..num_cmds'[e] -> Command \cup {Empty}]
               /\ curr_cmd'[e] <= num_cmds'[e]
               /\ args'[e] \subseteq 1..num_cmds'[e]
        BY <2>1 DEF TypeOK
      <3>2. cs' \in BOOLEAN
        BY <1>2 DEF TypeOK
      <3> QED
        BY <2>1, <3>1, <3>2 DEF TypeOK
    <2>3. SequenceInv' /\ failed' = FALSE
      BY <2>1 DEF SequenceInv
    <2>4. FillingInv'
      <3>1. \A i \in 1..(pos + 1) : cmds'[dev][i] = batch[i]
        <4>1. /\ cmds'[dev] = [cmds[dev] EXCEPT ![pos + 1] = c]
              /\ DOMAIN cmds[dev] = 1..Len(batch)
          BY <2>1 DEF TypeOK
        <4>2. \A i \in 1..(pos + 1) : i \in 1..pos \/ i = pos + 1
          OBVIOUS
        <4>3. \A i \in 1..pos : cmds[dev][i] = batch[i]
          BY DEF FillingInv
        <4> QED
          BY <4>1, <4>2, <4>3
      <3>2. cs' <=> CsAfter(batch, asserted[dev], pos + 1)
        <4>1. cs <=> CsAfter(batch, asserted[dev], pos)
          BY DEF FillingInv
        <4>2. CsAfter(batch, asserted[dev], pos + 1) <=>
                 \/ c.op = "cs_assert"
                 \/ c.op # "cs_deassert" /\ CsAfter(batch, asserted[dev], pos)
          BY CsStep
        <4>3. CASE c.op = "cs_assert"
          BY <1>2, <4>2, <4>3
        <4>4. CASE c.op = "cs_deassert"
          BY <1>2, <4>2, <4>4
        <4>5. CASE c.op \notin {"cs_assert", "cs_deassert"}
          BY <1>2, <4>1, <4>2, <4>5
        <4> QED
          BY <4>3, <4>4, <4>5
      <3>3. InOrder(batch, asserted[dev], pos + 1)
        BY <1>2, InOrderStep DEF FillingInv, CsAllows
      <3> QED
        BY <2>1, <3>1, <3>2, <3>3 DEF FillingInv, TypeOK
    <2>5. ExecutingInv' /\ AllOrNothing' /\ OwnersInv'
      BY <2>1 DEF ExecutingInv, AllOrNothing, OwnersInv, Agree
    <2>6. NoLeak'
      <3> SUFFICES ASSUME NEW e \in Dev
                   PROVE  args'[e] = {i \in 1..curr_cmd'[e] :
                              active'[e] /\ cmds'[e][i].op \in {"xfer", "delay"}}
        BY DEF NoLeak
      <3>1. CASE e # dev
        BY <2>1, <3>1 DEF NoLeak, TypeOK
      <3>2. CASE e = dev
        BY <2>1, <3>2 DEF NoLeak, TypeOK, HasArgs
      <3> QED
        BY <3>1, <3>2
    <2> QED
      BY <2>2, <2>3, <2>4, <2>5, <2>6
  <1>3. CASE phase' = "failing" /\ UNCHANGED <<drv, pos, cs>>
    <2> USE <1>1, <1>3 DEF drv
    <2>1. TypeOK'
      BY DEF TypeOK
    <2>2. SequenceInv' /\ FillingInv' /\ ExecutingInv' /\ ~failed'
      BY DEF SequenceInv, FillingInv, ExecutingInv
    <2>3. OwnersInv' /\ AllOrNothing' /\ NoLeak'
      BY DEF OwnersInv, Agree, AllOrNothing, NoLeak
    <2> QED
      BY <2>1, <2>2, <2>3
  <1> QED
    BY <1>2, <1>3

\* The device of a batch holds its bus or nobody does: another holder would be
\* on a shared bus, where nothing is left asserted.
LEMMA OwnOrFree ==
    ASSUME SpiInv, phase \in {"filling", "failing", "executing"}
    PROVE  before[BusOf[dev]] = IF asserted[dev] THEN dev ELSE NoDev
  <1>1. dev \in Dev /\ BusOf[dev] \in Bus /\ asserted[dev] \in BOOLEAN
    BY BusAssumption DEF SpiInv, TypeOK
  <1>2. ASSUME before[BusOf[dev]] # NoDev
        PROVE  asserted[dev] /\ before[BusOf[dev]] = dev
    <2>1. PICK e \in Dev : before[BusOf[dev]] = e
      BY <1>1, <1>2 DEF SpiInv, TypeOK
    <2>2. BusOf[e] = BusOf[dev] /\ asserted[e]
      BY <1>1, <1>2, <2>1 DEF SpiInv, OwnersInv, Agree
    <2>3. ~(num_devs[BusOf[e]] > 1)
      BY <2>2 DEF SpiInv, OwnersInv, spi_is_bus_shared
    <2>4. e = dev
      BY <1>1, <2>2, <2>3, BusAssumption
    <2> QED
      BY <2>1, <2>2, <2>4
  <1>3. asserted[dev] => before[BusOf[dev]] = dev
    BY <1>1 DEF SpiInv, OwnersInv, Agree
  <1> QED
    BY <1>1, <1>2, <1>3

\* The sequence is complete and is executed, unless it would leave chip select
\* asserted on a shared bus.
LEMMA CommitStep == SpiInv /\ SrvCommit => SpiInv'
  <1> SUFFICES ASSUME SpiInv, SrvCommit PROVE SpiInv'
    OBVIOUS
  <1> USE BusAssumption DEF SpiInv, SrvCommit, DriverAssertionsHold
  <1>1. /\ dev \in Dev /\ pos = Len(batch) /\ Len(batch) \in Nat
        /\ asserted[dev] \in BOOLEAN /\ active[dev]
        /\ curr_cmd[dev] = pos /\ num_cmds[dev] = Len(batch)
    BY DEF TypeOK, SequenceInv, FillingInv
  <1>2. ~failed' /\ phase' \in {"failing", "executing"}
    BY <1>1
  <1>3. TypeOK'
    BY <1>1, <1>2 DEF TypeOK
  <1>4. SequenceInv' /\ FillingInv' /\ AllOrNothing' /\ NoLeak'
    BY <1>2 DEF SequenceInv, FillingInv, AllOrNothing, NoLeak
  <1>5. OwnersInv'
    BY <1>2 DEF OwnersInv, Agree
  <1>6. ExecutingInv'
    <2> SUFFICES ASSUME phase' = "executing" PROVE ExecutingInv'
      BY DEF ExecutingInv
    <2>1. cs => ~spi_is_bus_shared(dev)
      OBVIOUS
    <2>2. /\ CsAfter(batch, asserted[dev], 0) => owner[BusOf[dev]] = dev
          /\ ~CsAfter(batch, asserted[dev], 0) => owner[BusOf[dev]] = NoDev
      BY <1>1, CsAtFirst, OwnOrFree DEF OwnersInv
    <2>3. \A b \in Bus : owner[b] = before[b]
      BY DEF OwnersInv
    <2> QED
      BY <1>1, <2>1, <2>2, <2>3 DEF FillingInv, ExecutingInv, spi_is_bus_shared
  <1> QED
    BY <1>2, <1>3, <1>4, <1>5, <1>6

\* spi_seq_free leaves no sequence and no memory behind.
LEMMA FreeStep ==
    ASSUME SpiInv, phase \in {"failing", "executing"}, spi_seq_free(dev)
    PROVE  /\ \A d \in Dev :
                 /\ ~active'[d] /\ num_cmds'[d] = 0 /\ curr_cmd'[d] = 0
                 /\ cmds'[d] \in [1..num_cmds'[d] -> Command \cup {Empty}]
                 /\ args'[d] = {}
           /\ active' \in [Dev -> BOOLEAN]
           /\ num_cmds' \in [Dev -> Nat] /\ curr_cmd' \in [Dev -> Nat]
           /\ DOMAIN cmds' = Dev /\ DOMAIN args' = Dev
  <1> USE DEF SpiInv, spi_seq_free
  <1>1. ASSUME NEW d \in Dev, d # dev
        PROVE  /\ ~active[d] /\ num_cmds[d] = 0 /\ curr_cmd[d] = 0
               /\ args[d] = {}
    BY <1>1 DEF SequenceInv, TypeOK
  <1>2. dev \in Dev /\ args[dev] \subseteq 1..num_cmds[dev]
    BY DEF TypeOK
  <1>3. \A d \in Dev : cmds'[d] \in [1..num_cmds'[d] -> Command \cup {Empty}]
    BY <1>1, <1>2 DEF TypeOK, Entries
  <1> QED
    BY <1>1, <1>2, <1>3 DEF TypeOK

\* A batch is given up.
LEMMA AbortStep == SpiInv /\ SrvAbort => SpiInv'
  <1> SUFFICES ASSUME SpiInv, SrvAbort PROVE SpiInv'
    OBVIOUS
  <1>1. spi_seq_free(dev) /\ phase = "failing" /\ active[dev] /\ ~failed'
    BY DEF SrvAbort, spi_seq_abort, SpiInv, SequenceInv, TypeOK
  <1> USE <1>1, FreeStep DEF SpiInv, SrvAbort, spi_seq_abort
  <1>2. TypeOK'
    BY DEF TypeOK
  <1>3. SequenceInv' /\ FillingInv' /\ ExecutingInv' /\ DriverAssertionsHold'
    BY DEF SequenceInv, FillingInv, ExecutingInv, DriverAssertionsHold
  <1>4. OwnersInv' /\ AllOrNothing'
    BY DEF OwnersInv, Agree, AllOrNothing
  <1>5. NoLeak'
    BY DEF NoLeak
  <1> QED
    BY <1>2, <1>3, <1>4, <1>5

\* One command is executed: the assertion it may make holds, because the
\* command is in order and the owner is the reference's.
LEMMA ExecStep == SpiInv /\ spi_seq_commit_exec => SpiInv'
  <1> SUFFICES ASSUME SpiInv, spi_seq_commit_exec PROVE SpiInv'
    OBVIOUS
  <1> DEFINE c == batch[pos + 1]
             bus == BusOf[dev]
             Before == CsAfter(batch, asserted[dev], pos)
             After == CsAfter(batch, asserted[dev], pos + 1)
  <1>1. /\ dev \in Dev /\ bus \in Bus /\ pos \in Nat
        /\ num_cmds[dev] = Len(batch) /\ Len(batch) \in Nat
        /\ pos + 1 \in 1..Len(batch)
        /\ asserted[dev] \in BOOLEAN /\ c \in Command
    BY BusAssumption
    DEF SpiInv, TypeOK, SequenceInv, spi_seq_commit_exec, MoreToExecute
  <1>2. spi_req_exec(dev, c)
    BY <1>1 DEF SpiInv, ExecutingInv, spi_seq_commit_exec
  <1>3. /\ After <=> \/ c.op = "cs_assert"
                     \/ c.op # "cs_deassert" /\ Before
        /\ c.op = "cs_assert" => ~Before
        /\ c.op = "cs_deassert" => Before
    <2>1. After <=> \/ c.op = "cs_assert"
                    \/ c.op # "cs_deassert" /\ Before
      BY <1>1, CsStep
    <2>2. InOrder(batch, asserted[dev], Len(batch)) /\ (pos + 1) - 1 = pos
      BY <1>1 DEF SpiInv, ExecutingInv, spi_seq_commit_exec
    <2>3. /\ c.op = "cs_assert" => ~Before
          /\ c.op = "cs_deassert" => Before
      BY <1>1, <2>2 DEF InOrder
    <2> QED
      BY <2>1, <2>3
  <1>4. /\ Before => owner[bus] = dev
        /\ ~Before => owner[bus] = NoDev
    BY DEF SpiInv, ExecutingInv, spi_seq_commit_exec
  <1>0. owner \in [Bus -> Dev \cup {NoDev}] /\ failed = FALSE
    BY DEF SpiInv, TypeOK, DriverAssertionsHold
  <1> HIDE DEF Before, After, c, bus
  <1>5. /\ failed' = FALSE /\ owner' \in [Bus -> Dev \cup {NoDev}]
        /\ After => owner'[bus] = dev
        /\ ~After => owner'[bus] = NoDev
        /\ \A b \in Bus : b # bus => owner'[b] = owner[b]
    <2>1. CASE c.op = "cs_assert"
      <3>1. failed' = (owner[bus] # NoDev) /\ owner' = [owner EXCEPT ![bus] = dev]
        BY <1>2, <2>1 DEF spi_req_exec, spi_req_exec_cs_assert, bus
      <3>2. owner[bus] = NoDev /\ After
        BY <1>3, <1>4, <2>1
      <3> QED
        BY <1>1, <1>0, <3>1, <3>2
    <2>2. CASE c.op = "cs_deassert"
      <3>1. failed' = (owner[bus] # dev) /\ owner' = [owner EXCEPT ![bus] = NoDev]
        BY <1>2, <2>2 DEF spi_req_exec, spi_req_exec_cs_deassert, bus
      <3>2. owner[bus] = dev /\ ~After
        BY <1>3, <1>4, <2>2
      <3> QED
        BY <1>1, <1>0, <3>1, <3>2
    <2>3. CASE c.op \notin {"cs_assert", "cs_deassert"}
      <3>1. UNCHANGED <<owner, failed>>
        <4>1. CASE c.op = "xfer"
          BY <1>2, <4>1 DEF spi_req_exec
        <4>2. CASE c.op # "xfer"
          BY <1>2, <2>3, <4>2 DEF spi_req_exec
        <4> QED
          BY <4>1, <4>2
      <3>2. (After <=> Before) /\ failed = FALSE
        BY <1>3, <1>0, <2>3
      <3> QED
        BY <1>1, <1>4, <1>0, <3>1, <3>2
    <2> QED
      BY <2>1, <2>2, <2>3
  <1> USE DEF SpiInv, spi_seq_commit_exec
  <1>6. TypeOK'
    <2>1. pos' \in 0..Len(batch')
      BY <1>1
    <2> QED
      BY <1>5, <2>1 DEF TypeOK
  <1>7. SequenceInv' /\ FillingInv' /\ AllOrNothing' /\ NoLeak'
    BY DEF SequenceInv, FillingInv, AllOrNothing, NoLeak
  <1>8. ExecutingInv'
    BY <1>1, <1>5 DEF ExecutingInv, spi_is_bus_shared, After, bus
  <1>9. OwnersInv'
    BY DEF OwnersInv, Agree, spi_is_bus_shared
  <1> QED
    BY <1>5, <1>6, <1>7, <1>8, <1>9 DEF DriverAssertionsHold

\* The sequence has been executed.
LEMMA EndStep == SpiInv /\ spi_seq_commit_end => SpiInv'
  <1> SUFFICES ASSUME SpiInv, spi_seq_commit_end PROVE SpiInv'
    OBVIOUS
  <1> DEFINE bus == BusOf[dev]
             Left == CsAfter(batch, asserted[dev], Len(batch))
  <1>1. spi_seq_free(dev) /\ phase = "executing"
    BY DEF spi_seq_commit_end
  <1>2. /\ dev \in Dev /\ bus \in Bus /\ pos = Len(batch)
        /\ asserted[dev] \in BOOLEAN /\ cs \in BOOLEAN
    <2>1. /\ dev \in Dev /\ bus \in Bus
          /\ asserted[dev] \in BOOLEAN /\ cs \in BOOLEAN
      BY <1>1, BusAssumption DEF SpiInv, TypeOK
    <2>2. Len(batch) \in Nat /\ pos \in 0..Len(batch)
      BY DEF SpiInv, TypeOK
    <2>3. num_cmds[dev] = Len(batch) /\ ~(pos < num_cmds[dev])
      BY <1>1 DEF SpiInv, SequenceInv, spi_seq_commit_end, MoreToExecute
    <2> QED
      BY <2>1, <2>2, <2>3
  <1>3. /\ cs <=> Left
        /\ Left => owner[bus] = dev
        /\ ~Left => owner[bus] = NoDev
        /\ \A b \in Bus : b # bus => owner[b] = before[b]
        /\ cs => ~spi_is_bus_shared(dev)
        /\ InOrder(batch, asserted[dev], Len(batch))
    BY <1>1, <1>2 DEF SpiInv, ExecutingInv
  <1>4. before[bus] = IF asserted[dev] THEN dev ELSE NoDev
    BY <1>1, OwnOrFree
  <1> USE <1>1, <1>2, FreeStep, BusAssumption DEF SpiInv, spi_seq_commit_end
  <1>5. TypeOK'
    BY DEF TypeOK
  <1>6. SequenceInv' /\ FillingInv' /\ ExecutingInv' /\ DriverAssertionsHold'
    BY DEF SequenceInv, FillingInv, ExecutingInv, DriverAssertionsHold
  <1>7. OwnersInv'
    <2>1. asserted' = [asserted EXCEPT ![dev] = cs]
      OBVIOUS
    <2>2. \A d \in Dev : asserted'[d] => ~spi_is_bus_shared(d)
      BY <1>3, <2>1 DEF TypeOK, OwnersInv
    <2>3. \A d \in Dev : asserted'[d] => owner[BusOf[d]] = d
      <3> SUFFICES ASSUME NEW d \in Dev, asserted'[d], d # dev
                   PROVE  owner[BusOf[d]] = d
        BY <1>3, <2>1 DEF TypeOK
      <3>1. asserted[d] /\ before[BusOf[d]] = d
        BY <2>1 DEF TypeOK, OwnersInv, Agree
      <3>2. BusOf[d] # bus
        BY <1>4, <3>1
      <3> QED
        BY <1>3, <3>1, <3>2
    <2>4. ASSUME NEW b \in Bus, owner[b] # NoDev
          PROVE  BusOf[owner[b]] = b /\ asserted'[owner[b]]
      <3>1. CASE b = bus
        BY <1>3, <2>1, <2>4, <3>1 DEF TypeOK
      <3>2. CASE b # bus
        <4>1. owner[b] = before[b] /\ owner[b] \in Dev
          BY <1>3, <2>4, <3>2 DEF TypeOK
        <4>2. BusOf[before[b]] = b /\ asserted[before[b]]
          BY <2>4, <4>1 DEF OwnersInv, Agree
        <4> QED
          BY <2>1, <3>2, <4>1, <4>2 DEF TypeOK
      <3> QED
        BY <3>1, <3>2
    <2> QED
      BY <2>2, <2>3, <2>4 DEF OwnersInv, Agree, spi_is_bus_shared
  <1>8. AllOrNothing'
    <2>1. (before[bus] = dev) <=> asserted[dev]
      BY <1>4
    <2>2. (before[bus] = dev) = asserted[dev]
      BY <2>1
    <2>3. owner = [before EXCEPT ![bus] = IF Left THEN dev ELSE NoDev]
      BY <1>3 DEF TypeOK
    <2> QED
      BY <1>3, <2>2, <2>3 DEF AllOrNothing
  <1>9. NoLeak'
    BY DEF NoLeak
  <1> QED
    BY <1>5, <1>6, <1>7, <1>8, <1>9

\* The reply is sent.
LEMMA ReplyStep == SpiInv /\ SrvReply => SpiInv'
  <1> SUFFICES ASSUME SpiInv, SrvReply PROVE SpiInv'
    OBVIOUS
  <1> USE DEF SpiInv, SrvReply, drv
  <1>1. TypeOK'
    <2>1. batch' \in Seq(Command) /\ pos' \in 0..Len(batch')
      OBVIOUS
    <2> QED
      BY <2>1 DEF TypeOK
  <1>2. SequenceInv' /\ FillingInv' /\ ExecutingInv' /\ DriverAssertionsHold'
    BY DEF SequenceInv, FillingInv, ExecutingInv, DriverAssertionsHold
  <1>3. OwnersInv' /\ AllOrNothing' /\ NoLeak'
    BY DEF OwnersInv, Agree, AllOrNothing, NoLeak
  <1> QED
    BY <1>1, <1>2, <1>3

\* A step that changes nothing.
LEMMA SpiStutter == SpiInv /\ UNCHANGED vars => SpiInv'
  BY DEF SpiInv, vars, drv, TypeOK, DriverAssertionsHold, SequenceInv,
         FillingInv, ExecutingInv, OwnersInv, Agree, NoLeak, AllOrNothing

-----------------------------------------------------------------------------
(* What is received, command by command.                                   *)

RxData == [copy_of : Contents \cup {NoBuf}] \cup [seed : 0..255]

Receives(c) == c.op = "xfer" /\ c.rx

\* The type of what a transfer receives.
LEMMA ReceivedType ==
    ASSUME NEW d \in Dev, NEW c \in Command, c.op = "xfer"
    PROVE  Received(d, c.tx) \in RxData
  <1>1. c.tx \in Contents \cup {NoBuf}
    BY DEF Command
  <1>2. (c.tx # NoBuf) => digest[c.tx] \in 0..255
    BY <1>1, ContentsAssumption
  <1> QED
    BY <1>1, <1>2 DEF Received, RxData

\* Before the first command nothing was received.
LEMMA NothingReceived ==
    ASSUME NEW d, NEW b
    PROVE  AnswersTo(<<>>, d, b, 0)
  <1> DEFINE X == {i \in 1..0 : b[i].op = "xfer" /\ b[i].rx}
             f == [i \in {} |-> i]
  <1>1. DOMAIN <<>> = {} /\ X = {}
    OBVIOUS
  <1>2. f \in [DOMAIN <<>> -> X]
    BY <1>1
  <1> HIDE DEF f, X
  <1>3. /\ \A i, j \in DOMAIN <<>> : i < j => f[i] < f[j]
        /\ \A x \in X : \E i \in DOMAIN <<>> : f[i] = x
        /\ \A i \in DOMAIN <<>> : <<>>[i] = Received(d, b[f[i]].tx)
    BY <1>1
  <1> QED
    BY <1>2, <1>3, Zenon DEF AnswersTo, X

\* A command that receives nothing.
LEMMA NothingMoreReceived ==
    ASSUME NEW r, NEW d, NEW b, NEW k \in Nat, AnswersTo(r, d, b, k),
           ~Receives(b[k + 1])
    PROVE  AnswersTo(r, d, b, k + 1)
  <1> DEFINE X(n) == {i \in 1..n : b[i].op = "xfer" /\ b[i].rx}
  <1>1. ASSUME NEW i PROVE i \in X(k + 1) <=> i \in X(k)
    BY DEF Receives
  <1>2. X(k + 1) = X(k)
    BY <1>1
  <1> QED
    BY <1>2 DEF AnswersTo

\* A transfer that receives: its answer comes after the others.
LEMMA OneMoreReceived ==
    ASSUME NEW r \in Seq(RxData), NEW d, NEW b, NEW k \in Nat,
           AnswersTo(r, d, b, k), Receives(b[k + 1]),
           Received(d, b[k + 1].tx) \in RxData
    PROVE  AnswersTo(Append(r, Received(d, b[k + 1].tx)), d, b, k + 1)
  <1> DEFINE X(n) == {i \in 1..n : b[i].op = "xfer" /\ b[i].rx}
             e == Received(d, b[k + 1].tx)
             m == Len(r)
             q == Append(r, e)
  <1>1. PICK f \in [DOMAIN r -> X(k)] :
            /\ \A i, j \in DOMAIN r : i < j => f[i] < f[j]
            /\ \A x \in X(k) : \E i \in DOMAIN r : f[i] = x
            /\ \A i \in DOMAIN r : r[i] = Received(d, b[f[i]].tx)
    BY DEF AnswersTo
  <1>2. m \in Nat /\ DOMAIN r = 1..m /\ DOMAIN q = 1..(m + 1)
    OBVIOUS
  <1>3. q[m + 1] = e /\ \A i \in 1..m : q[i] = r[i]
    OBVIOUS
  <1>4. /\ k + 1 \in X(k + 1)
        /\ \A x \in X(k) : x \in X(k + 1) /\ x < k + 1 /\ x \in Nat
        /\ \A x \in X(k + 1) : x = k + 1 \/ x \in X(k)
    BY DEF Receives
  <1> DEFINE g == [i \in 1..(m + 1) |-> IF i = m + 1 THEN k + 1 ELSE f[i]]
  <1> HIDE DEF X, q, m
  <1>5. \A i \in 1..(m + 1) : i = m + 1 \/ i \in 1..m
    BY <1>2
  <1>6. /\ g[m + 1] = k + 1 /\ \A i \in 1..m : g[i] = f[i] /\ f[i] \in X(k)
        /\ m + 1 \in 1..(m + 1) /\ \A i \in 1..m : i \in 1..(m + 1)
    BY <1>1, <1>2
  <1>7. g \in [DOMAIN q -> X(k + 1)]
    BY <1>1, <1>2, <1>4, <1>5
  <1> HIDE DEF g
  <1>8. ASSUME NEW i \in DOMAIN q, NEW j \in DOMAIN q, i < j
        PROVE  g[i] < g[j]
    <2>1. i \in 1..m
      BY <1>2, <1>8
    <2>2. CASE j = m + 1
      BY <1>4, <1>6, <2>1, <2>2
    <2>3. CASE j \in 1..m
      BY <1>1, <1>2, <1>6, <1>8, <2>1, <2>3
    <2> QED
      BY <1>2, <1>5, <2>2, <2>3
  <1>9. ASSUME NEW x \in X(k + 1)
        PROVE  \E i \in DOMAIN q : g[i] = x
    BY <1>1, <1>2, <1>4, <1>6
  <1>10. ASSUME NEW i \in DOMAIN q
         PROVE  q[i] = Received(d, b[g[i]].tx)
    <2>1. CASE i = m + 1
      BY <1>3, <1>6, <2>1
    <2>2. CASE i \in 1..m
      BY <1>1, <1>2, <1>3, <1>6, <2>2
    <2> QED
      BY <1>2, <1>5, <2>1, <2>2
  <1> QED
    BY <1>7, <1>8, <1>9, <1>10 DEF AnswersTo, X, q

\* What has been received is the answer to the commands executed.
RxInv ==
    /\ rx \in Seq(RxData)
    /\ phase = "executing" => AnswersTo(rx, dev, batch, pos)
    /\ ReceivedInOrder

\* Every step appends the answers of the commands it executes.
LEMMA RxStep == SpiInv /\ RxInv /\ [Next]_vars => RxInv'
  <1> SUFFICES ASSUME SpiInv, RxInv, [Next]_vars PROVE RxInv'
    OBVIOUS
  <1>0. <<>> \in Seq(RxData)
    OBVIOUS
  <1>1. ASSUME NEW d \in Dev, NEW b \in Batches[d], SrvBegin(d, b)
        PROVE  RxInv'
    BY <1>0, <1>1 DEF SrvBegin, RxInv, ReceivedInOrder
  <1>2. CASE SrvRequest
    BY <1>2 DEF SrvRequest, RxInv, ReceivedInOrder
  <1>3. CASE SrvCommit
    <2>1. rx = <<>> /\ rx' = <<>> /\ pos' = 0
          /\ phase' \in {"failing", "executing"}
      BY <1>3 DEF SrvCommit, SpiInv, OwnersInv
    <2> QED
      BY <1>0, <2>1, NothingReceived DEF RxInv, ReceivedInOrder
  <1>4. CASE SrvAbort
    BY <1>4 DEF SrvAbort, RxInv, ReceivedInOrder
  <1>5. CASE spi_seq_commit_exec
    <2> DEFINE c == batch[pos + 1]
    <2>1. /\ dev \in Dev /\ pos \in Nat /\ c \in Command
          /\ phase = "executing" /\ UNCHANGED <<phase, dev, batch>>
          /\ pos' = pos + 1 /\ pos + 1 \in 1..Len(batch)
      BY <1>5 DEF SpiInv, TypeOK, SequenceInv, spi_seq_commit_exec,
                  MoreToExecute
    <2>2. spi_req_exec(dev, c)
      BY <1>5, <2>1 DEF SpiInv, ExecutingInv, spi_seq_commit_exec
    <2>3. AnswersTo(rx, dev, batch, pos) /\ rx \in Seq(RxData)
      BY <2>1 DEF RxInv
    <2> HIDE DEF c
    <2>4. /\ c.op = "xfer" => rx' = IF c.rx THEN Append(rx, Received(dev, c.tx))
                                            ELSE rx
          /\ c.op # "xfer" => rx' = rx
      <3>1. CASE c.op = "xfer"
        BY <2>2, <3>1 DEF spi_req_exec
      <3>2. CASE c.op = "cs_assert"
        BY <2>2, <3>2 DEF spi_req_exec
      <3>3. CASE c.op = "cs_deassert"
        BY <2>2, <3>3 DEF spi_req_exec
      <3>4. CASE c.op \notin {"xfer", "cs_assert", "cs_deassert"}
        BY <2>2, <3>4 DEF spi_req_exec
      <3> QED
        BY <3>1, <3>2, <3>3, <3>4
    <2>5. rx' \in Seq(RxData) /\ AnswersTo(rx', dev, batch, pos + 1)
      <3>1. CASE Receives(c)
        <4>1. rx' = Append(rx, Received(dev, c.tx))
          BY <2>4, <3>1 DEF Receives
        <4>2. Received(dev, c.tx) \in RxData
          BY <2>1, <3>1, ReceivedType DEF Receives
        <4>3. rx' \in Seq(RxData)
          BY <2>3, <4>1, <4>2
        <4> QED
          BY <2>1, <2>3, <3>1, <4>1, <4>2, <4>3, OneMoreReceived DEF c
      <3>2. CASE ~Receives(c)
        <4>1. rx' = rx
          BY <2>4, <3>2 DEF Receives
        <4> QED
          BY <2>1, <2>3, <3>2, <4>1, NothingMoreReceived DEF c
      <3> QED
        BY <3>1, <3>2
    <2> QED
      BY <2>1, <2>5 DEF RxInv, ReceivedInOrder
  <1>6. CASE spi_seq_commit_end
    <2>1. /\ phase = "executing" /\ phase' = "done"
          /\ UNCHANGED <<dev, batch, rx>> /\ pos = Len(batch)
      BY <1>6 DEF SpiInv, TypeOK, SequenceInv, spi_seq_commit_end,
                  MoreToExecute
    <2> QED
      BY <2>1 DEF RxInv, ReceivedInOrder
  <1>7. CASE SrvReply
    BY <1>0, <1>7 DEF SrvReply, RxInv, ReceivedInOrder
  <1>8. CASE UNCHANGED vars
    BY <1>8 DEF vars, RxInv, ReceivedInOrder
  <1> QED
    BY <1>1, <1>2, <1>3, <1>4, <1>5, <1>6, <1>7, <1>8 DEF Next

-----------------------------------------------------------------------------
(* The theorems.                                                           *)

\* The inductive invariant of driver and library.
THEOREM SpiInvariance == Spec => []SpiInv
  <1>1. SpiInv /\ [Next]_vars => SpiInv'
    BY BeginStep, RequestStep, CommitStep, AbortStep, ExecStep, EndStep,
       ReplyStep, SpiStutter DEF Next
  <1> QED
    BY <1>1, SpiInitInv, PTL DEF Spec

\* Type correctness: the index of the entry to be filled stays in the array.
THEOREM SpiTypeCorrect == Spec => []TypeOK
  <1>1. SpiInv => TypeOK
    BY DEF SpiInv
  <1> QED
    BY <1>1, SpiInvariance, PTL

\* No assertion in swspi.c fails, and no entry is written past the end.
THEOREM NoAssertionFails == Spec => []DriverAssertionsHold
  <1>1. SpiInv => DriverAssertionsHold
    BY DEF SpiInv
  <1> QED
    BY <1>1, SpiInvariance, PTL

\* Between batches a shared bus is free, and a dedicated one is held exactly
\* while its device's chip select is asserted.
THEOREM BusFree == Spec => []BusFreeBetweenBatches
  <1>1. SpiInv => BusFreeBetweenBatches
    <2> SUFFICES ASSUME SpiInv, phase = "idle", NEW d \in Dev
                 PROVE  /\ (owner[BusOf[d]] = d) <=> asserted[d]
                        /\ num_devs[BusOf[d]] > 1 => owner[BusOf[d]] = NoDev
      BY DEF BusFreeBetweenBatches
    <2>1. Agree(owner) /\ BusOf[d] \in Bus /\ d # NoDev
      BY BusAssumption DEF SpiInv, OwnersInv
    <2>2. (owner[BusOf[d]] = d) <=> asserted[d]
      BY <2>1 DEF Agree
    <2>3. ASSUME owner[BusOf[d]] # NoDev PROVE ~(num_devs[BusOf[d]] > 1)
      <3>1. PICK e \in Dev : owner[BusOf[d]] = e
        BY <2>1, <2>3 DEF SpiInv, TypeOK
      <3>2. BusOf[e] = BusOf[d] /\ asserted[e]
        BY <2>1, <2>3, <3>1 DEF Agree
      <3> QED
        BY <3>2 DEF SpiInv, OwnersInv, spi_is_bus_shared
    <2> QED
      BY <2>2, <2>3
  <1> QED
    BY <1>1, SpiInvariance, PTL

\* spi_seq_free gives back everything, after a commit and after an abort.
THEOREM NothingLeaks == Spec => []NoLeak
  <1>1. SpiInv => NoLeak
    BY DEF SpiInv
  <1> QED
    BY <1>1, SpiInvariance, PTL

\* A batch that fails has no effect on any bus; one that succeeds was in order
\* and has the effect of all its commands.
THEOREM BatchesAreAtomic == Spec => []AllOrNothing
  <1>1. SpiInv => AllOrNothing
    BY DEF SpiInv
  <1> QED
    BY <1>1, SpiInvariance, PTL

\* The receiving transfers of a batch that succeeds get, in order and each
\* once, the answers to what they sent, whatever else is in the batch.
THEOREM AnswersInOrder == Spec => []ReceivedInOrder
  <1>1. Init => RxInv
    BY DEF Init, RxInv, ReceivedInOrder
  <1>2. RxInv => ReceivedInOrder
    BY DEF RxInv
  <1> QED
    BY <1>1, <1>2, SpiInvariance, RxStep, PTL DEF Spec
=============================================================================
