---------------------------- MODULE MCDeviceClass ----------------------------
(***************************************************************************)
(* Environments for the device classes.  Display: one in which only memory *)
(* may be short and one in which everything that can go wrong does.        *)
(* Buffers: processes that wait for each other, with and without failures  *)
(* that nobody notices, and processes that do not.                         *)
(***************************************************************************)
EXTENDS ClassDevices, TLC

Quiet == [faults |-> {"alloc"}, orderly |-> TRUE, races |-> FALSE]

Wild == [faults |-> {"alloc", "resman", "notifier", "load"}, orderly |-> FALSE, races |-> TRUE]

MCEnvironments == {Quiet, Wild}

Waiting == [faults |-> {"alloc", "create"}, orderly |-> TRUE, used |-> {0, 1}]

Unnoticed == [faults |-> {"resman", "register", "dma"}, orderly |-> TRUE, used |-> {0}]

Hasty == [faults |-> {"alloc", "dma"}, orderly |-> FALSE, used |-> {0}]

MCBCEnvironments == {Waiting, Unnoticed, Hasty}

\* Processes are interchangeable.
MCSymmetry == Permutations(Procs) \cup Permutations(Clients)
=============================================================================
