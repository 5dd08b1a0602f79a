-------------------------------- MODULE Boot --------------------------------
(***************************************************************************)
(* Start and stop of the processors of the x86-qemu machine: mpe.c, trm.c  *)
(* and boot/.  The processors share a boot record (is_ap, and a jump that  *)
(* a processor executes when it is started), the flag ap_ready and one     *)
(* boot stack.  A processor is started, or restarted, by an interrupt      *)
(* (__am_lapic_bootap) that reaches it some time later.                    *)
(*                                                                         *)
(*   off      not started yet              start    _mpe_init, about to    *)
(*   record   about to execute the jump             start a processor      *)
(*            of the boot record           wait     _mpe_init, waiting for *)
(*   loader   start.S, load_kernel and              ap_ready               *)
(*            _start_c, on the boot stack  entry    user_entry             *)
(*   main     main() of the program        halting  _halt, stopping others *)
(*   percpu   othercpu_entry               spin     jumping to itself      *)
(***************************************************************************)
EXTENDS Naturals, FiniteSets

CONSTANT NCPU               \* __am_ncpu

CPUs == 0 .. NCPU - 1
Boss == 0                   \* the bootstrap processor

ASSUME BootAssumption == NCPU \in Nat \ {0}

VARIABLES
    where,      \* per processor: see above
    isAp,       \* boot_record()->is_ap
    jump,       \* boot_record()->jmp_code: to the loader, to itself, or none yet
    apReady,    \* ap_ready
    starting,   \* cpu in the loop of _mpe_init
    ipi,        \* processors a start interrupt is on its way to
    stopping,   \* per processor: cpu in the loop of __am_stop_the_world
    power,      \* the machine is on
    entered,    \* history: how often a processor has called user_entry
    halters     \* history: the processors that have called _halt

bootVars == <<where, isAp, jump, apReady, starting, ipi, stopping, power, entered, halters>>
record == <<isAp, jump>>

BootInit ==
    /\ where = [c \in CPUs |-> IF c = Boss THEN "loader" ELSE "off"]
    /\ isAp = FALSE /\ jump = "none"
    /\ apReady = FALSE
    /\ starting = 1
    /\ ipi = {}
    /\ stopping = [c \in CPUs |-> 0]
    /\ power = TRUE
    /\ entered = [c \in CPUs |-> 0]
    /\ halters = {}

Moves(c, from, to) == power /\ where[c] = from /\ where' = [where EXCEPT ![c] = to]
CallsEntry(c) == entered' = [entered EXCEPT ![c] = @ + 1]

\* INIT and STARTUP reset a processor, whatever it does.
Deliver(c) ==
    /\ power /\ c \in ipi
    /\ ipi' = ipi \ {c}
    /\ where' = [where EXCEPT ![c] = "record"]
    /\ UNCHANGED <<record, apReady, starting, stopping, power, entered, halters>>

Jump(c) ==
    /\ Moves(c, "record", IF jump = "loader" THEN "loader" ELSE "spin")
    /\ UNCHANGED <<record, apReady, starting, ipi, stopping, power, entered, halters>>

\* load_kernel and _start_c look at is_ap; either way the stack is switched.
LoaderDone(c) ==
    /\ Moves(c, "loader", IF isAp THEN "percpu" ELSE "main")
    /\ UNCHANGED <<record, apReady, starting, ipi, stopping, power, entered, halters>>

\* _mpe_init, the bootstrap processor on its way to its loop.
MpeInit(c) ==
    /\ Moves(c, "main", IF NCPU = 1 THEN "entry" ELSE "start")
    /\ jump' = "loader"
    /\ IF NCPU = 1 THEN CallsEntry(c) ELSE UNCHANGED entered
    /\ UNCHANGED <<isAp, apReady, starting, ipi, stopping, power, halters>>

StartAp(c) ==
    /\ Moves(c, "start", "wait")
    /\ isAp' = TRUE
    /\ ipi' = ipi \cup {starting}
    /\ UNCHANGED <<jump, apReady, starting, stopping, power, entered, halters>>

\* Faulty variant: the loop does not wait.
WaitApNot(c) ==
    /\ Moves(c, "wait", IF starting + 1 = NCPU THEN "entry" ELSE "start")
    /\ apReady' = FALSE
    /\ starting' = starting + 1
    /\ IF starting + 1 = NCPU THEN CallsEntry(c) ELSE UNCHANGED entered
    /\ UNCHANGED <<record, ipi, stopping, power, halters>>

\* Faulty variant: the flag is read, not exchanged.
WaitApKeeps(c) ==
    /\ apReady
    /\ Moves(c, "wait", IF starting + 1 = NCPU THEN "entry" ELSE "start")
    /\ starting' = starting + 1
    /\ IF starting + 1 = NCPU THEN CallsEntry(c) ELSE UNCHANGED entered
    /\ UNCHANGED <<record, apReady, ipi, stopping, power, halters>>

\* _atomic_xchg(&ap_ready, 0) has returned 1.
WaitAp(c) ==
    /\ apReady /\ apReady' = FALSE
    /\ Moves(c, "wait", IF starting + 1 = NCPU THEN "entry" ELSE "start")
    /\ starting' = starting + 1
    /\ IF starting + 1 = NCPU THEN CallsEntry(c) ELSE UNCHANGED entered
    /\ UNCHANGED <<record, ipi, stopping, power, halters>>

\* Faulty variant: the flag is left to what follows user_entry.
OtherCpuEntryFirst(c) ==
    /\ Moves(c, "percpu", "entry")
    /\ CallsEntry(c)
    /\ UNCHANGED <<record, apReady, starting, ipi, stopping, power, halters>>

OtherCpuEntry(c) ==
    /\ Moves(c, "percpu", "entry")
    /\ apReady' = TRUE
    /\ CallsEntry(c)
    /\ UNCHANGED <<record, starting, ipi, stopping, power, halters>>

\* Faulty variant: the jump to itself is not written.
HaltKeepsJump(c) ==
    /\ where[c] \in {"main", "entry"}
    /\ Moves(c, where[c], "halting")
    /\ halters' = halters \cup {c}
    /\ UNCHANGED <<record, apReady, starting, ipi, stopping, power, entered>>

\* _halt, by the end of main or user_entry or a panic there.
Halt(c) ==
    /\ where[c] \in {"main", "entry"}
    /\ Moves(c, where[c], "halting")
    /\ jump' = "spin"
    /\ halters' = halters \cup {c}
    /\ UNCHANGED <<isAp, apReady, starting, ipi, stopping, power, entered>>

\* Faulty variant: the processor stops itself, too.
StopNextAny(c) ==
    /\ Moves(c, "halting", "halting")
    /\ stopping[c] < NCPU
    /\ stopping' = [stopping EXCEPT ![c] = @ + 1]
    /\ ipi' = ipi \cup {stopping[c]}
    /\ UNCHANGED <<record, apReady, starting, power, entered, halters>>

\* One turn of the loop of __am_stop_the_world.
StopNext(c) ==
    /\ Moves(c, "halting", "halting")
    /\ stopping[c] < NCPU
    /\ stopping' = [stopping EXCEPT ![c] = @ + 1]
    /\ ipi' = IF stopping[c] # c THEN ipi \cup {stopping[c]} ELSE ipi
    /\ UNCHANGED <<record, apReady, starting, power, entered, halters>>

\* outw(0x604, 0x2000)
PowerOff(c) ==
    /\ power /\ where[c] = "halting" /\ stopping[c] = NCPU
    /\ power' = FALSE
    /\ UNCHANGED <<where, record, apReady, starting, ipi, stopping, entered, halters>>

Runs(c) ==
    \/ Jump(c) \/ LoaderDone(c) \/ MpeInit(c) \/ StartAp(c) \/ WaitAp(c)
    \/ OtherCpuEntry(c) \/ StopNext(c) \/ PowerOff(c)

BootNext == \E c \in CPUs : Deliver(c) \/ Runs(c) \/ Halt(c)

BootSpec == BootInit /\ [][BootNext]_bootVars

\* Processors run on and interrupts arrive; nothing makes a program call _halt.
BootFairness == \A c \in CPUs : WF_bootVars(Deliver(c)) /\ WF_bootVars(Runs(c))
------------------------------------------------------------------------------
BootTypeOK ==
    /\ where \in [CPUs -> {"off", "record", "loader", "main", "percpu", "start", "wait",
                           "entry", "halting", "spin"}]
    /\ isAp \in BOOLEAN /\ apReady \in BOOLEAN /\ power \in BOOLEAN
    /\ jump \in {"none", "loader", "spin"}
    /\ starting \in 1 .. NCPU
    /\ ipi \subseteq CPUs
    /\ stopping \in [CPUs -> 0 .. NCPU]
    /\ entered \in [CPUs -> Nat]
    /\ halters \subseteq CPUs

\* The processors use the boot stack (boot/start.S: esp is 0xa000 for all of them)
\* one at a time, though each starts the loader whenever its interrupt arrives.
BootStack ==
    /\ \A c, d \in CPUs : where[c] = "loader" /\ where[d] = "loader" => c = d
    /\ isAp => where[Boss] # "loader"

\* Every processor calls user_entry once at most, and the bootstrap processor calls
\* it only when the others have set up their own tables.
EnterOnce ==
    /\ \A c \in CPUs : entered[c] <= 1
    /\ where[Boss] = "entry" => \A c \in CPUs : entered[c] = 1

\* Once all interrupts of the only halting processor have arrived, no other one
\* executes code of the program, now or later.
WorldStops ==
    \A c \in CPUs : halters = {c} /\ stopping[c] = NCPU =>
        \A d \in CPUs \ {c} : d \in ipi \/ where[d] \in {"record", "spin"}
------------------------------------------------------------------------------
(***************************************************************************)
(* The inductive invariant behind BootStack, EnterOnce and WorldStops.     *)
(***************************************************************************)
APs == CPUs \ {Boss}

\* Up to _mpe_init nothing has been started.
Boots ==
    where[Boss] \in {"loader", "main"} =>
        /\ jump = "none" /\ ~isAp /\ ~apReady /\ starting = 1 /\ ipi = {} /\ halters = {}
        /\ \A c \in APs : where[c] = "off" /\ entered[c] = 0

\* In its loop exactly the processors before starting have entered ...
Loops ==
    where[Boss] \in {"start", "wait"} =>
        /\ starting \in APs
        /\ \A c \in APs : c < starting => entered[c] = 1

Unstarted ==
    where[Boss] \in {"start", "wait"} /\ jump # "spin" =>
        \A c \in APs : c > starting \/ (c = starting /\ where[Boss] = "start") =>
            where[c] = "off"

\* ... and ap_ready speaks of the one it is starting.
Flag ==
    /\ where[Boss] = "start" => ~apReady /\ jump # "none"
    /\ where[Boss] = "wait" => isAp /\ jump # "none" /\ (apReady => entered[starting] = 1)

LastIn ==
    /\ where[Boss] = "entry" => \A c \in CPUs : entered[c] = 1
    /\ where[Boss] \notin {"off", "percpu"}

\* Only the processor being started is on its way to user_entry.
OnTheWay ==
    \A c \in APs :
        /\ where[c] \notin {"main", "start", "wait"}
        /\ where[c] \in {"loader", "percpu"} =>
              c = starting /\ isAp /\ ~apReady /\ where[Boss] \in {"wait", "record", "spin"}

\* Before a _halt no other one is sent an interrupt, and that one once.
Called ==
    \A c \in CPUs : jump # "spin" /\ (c \in ipi \/ where[c] = "record") =>
        /\ c # Boss /\ c = starting /\ where[Boss] = "wait" /\ ~apReady
        /\ \A d \in CPUs : where[d] # "loader"
        /\ c \in ipi => where[c] = "off"

Entered ==
    \A c \in CPUs :
        /\ entered[c] <= 1
        /\ where[c] \in {"off", "loader", "main", "percpu", "start", "wait"} => entered[c] = 0
        /\ where[c] = "record" /\ jump # "spin" => entered[c] = 0

\* The halting processors, and how far the only one has come.
Halting ==
    /\ halters # {} => jump = "spin"
    /\ \A c \in CPUs : where[c] = "halting" \/ stopping[c] # 0 => c \in halters
    /\ \A c \in halters : where[c] \in {"halting", "record", "spin"}

Stopped ==
    \A c \in CPUs : halters = {c} =>
        \A d \in CPUs \ {c} : d < stopping[c] => d \in ipi \/ where[d] \in {"record", "spin"}

BootInv ==
    /\ BootTypeOK
    /\ Boots /\ Loops /\ Unstarted /\ Flag /\ LastIn
    /\ OnTheWay /\ Called /\ Entered
    /\ Halting /\ Stopped
------------------------------------------------------------------------------
\* Without a _halt all processors come to run user_entry.
AllEnter == <>(halters # {} \/ \A c \in CPUs : where[c] = "entry")

\* A processor that is the only one to call _halt gets to switch the machine off,
\* with processors starting, starting others or running at that moment.
HaltEnds == \A c \in CPUs : <>[](halters = {c}) => <>~power
=============================================================================
