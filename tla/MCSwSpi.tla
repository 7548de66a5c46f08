------------------------------ MODULE MCSwSpi -------------------------------
(***************************************************************************)
(* The buses of swspi-srv.c: a shared one, to which two devices are        *)
(* connected (the second is the one swspi-srv.c pretends there is), and a  *)
(* dedicated one with the loopback device.                                 *)
(***************************************************************************)
EXTENDS SwSpi

CONSTANTS test_dev, fake_dev, loopback_dev, test_bus, loopback_bus, MaxBatch

MCDev == {test_dev, fake_dev, loopback_dev}
MCBus == {test_bus, loopback_bus}
MCBusOf ==
    [d \in MCDev |-> IF d = loopback_dev THEN loopback_bus ELSE test_bus]
MCnum_devs == [b \in MCBus |-> IF b = test_bus THEN 2 ELSE 1]
MCloopback == [d \in MCDev |-> d = loopback_dev]

\* Two contents of different digests.
MCContents == {"hello", "world"}
MCdigest == [x \in MCContents |-> IF x = "hello" THEN 17 ELSE 42]

\* Commands of each kind: transfers that send, that receive, and that do both.
MCCommands ==
    [op : {"set_clk", "cs_assert", "cs_deassert", "delay"}]
    \cup {[op |-> "xfer", tx |-> "hello", rx |-> TRUE],
          [op |-> "xfer", tx |-> "world", rx |-> TRUE],
          [op |-> "xfer", tx |-> "world", rx |-> FALSE],
          [op |-> "xfer", tx |-> NoBuf, rx |-> TRUE]}

\* All batches of up to MaxBatch commands.
MCBatches ==
    [d \in MCDev |-> UNION {[1..n -> MCCommands] : n \in 0..MaxBatch}]
=============================================================================
