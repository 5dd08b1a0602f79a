------------------------------ MODULE MCMachine ------------------------------
(***************************************************************************)
(* TLC instance of two stages of a run of the x86-qemu machine that share  *)
(* no state: the start and the stop of three processors (Boot), and the    *)
(* registration and the dispatch of handlers on one of them (Irq) with     *)
(* four more handlers, two of them with the seq of one that is there.      *)
(* `stage` says which of the two a behaviour is about.                     *)
(***************************************************************************)
EXTENDS Boot, Irq

VARIABLE stage

Lowest == -3

FourOthers ==
    {[seq |-> -3, event |-> "timer", name |-> "lowest"],
     [seq |-> 0, event |-> "yield", name |-> "middle"],
     [seq |-> 1, event |-> AnyEvent, name |-> "late"],
     [seq |-> 3, event |-> "timer", name |-> "highest"]}

machineVars == <<bootVars, irqVars, stage>>

\* The state the processors are in when all have entered.
Booted ==
    /\ where = [c \in CPUs |-> "entry"] /\ entered = [c \in CPUs |-> 1]
    /\ isAp = TRUE /\ jump = "loader" /\ apReady = FALSE /\ starting = NCPU /\ ipi = {}
    /\ stopping = [c \in CPUs |-> 0] /\ power = TRUE /\ halters = {}

MachineInit ==
    /\ IrqInit
    /\ \/ stage = "boot" /\ BootInit
       \/ stage = "handlers" /\ Booted

InBoot(A) == stage = "boot" /\ A /\ UNCHANGED <<irqVars, stage>>

MachineNext ==
    \/ \E c \in CPUs : InBoot(Deliver(c)) \/ InBoot(Runs(c)) \/ InBoot(Halt(c))
    \/ stage = "handlers" /\ IrqNext /\ UNCHANGED <<bootVars, stage>>

\* BootFairness, of the stage it is about.
MachineSpec ==
    /\ MachineInit /\ [][MachineNext]_machineVars
    /\ \A c \in CPUs : WF_machineVars(InBoot(Deliver(c))) /\ WF_machineVars(InBoot(Runs(c)))
==============================================================================
