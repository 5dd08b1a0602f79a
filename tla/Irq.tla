--------------------------------- MODULE Irq ---------------------------------
(***************************************************************************)
(* The interrupt handlers of the kernel: on_irq of kernel/src/os.c builds  *)
(* the list irq_head while the modules initialise, os_trap walks it on     *)
(* every trap.  kmt_init registers kmt_context_save and kmt_schedule       *)
(* first; other modules register theirs after it (os_init).                *)
(*                                                                         *)
(* The list is a sequence.  kalloc_safe hands out fresh memory at boot, so *)
(* the next pointer on_irq does not set is taken to be NULL.               *)
(***************************************************************************)
EXTENDS Integers, Sequences, FiniteSets, SequencesExt

CONSTANTS
    Others,         \* handlers of other modules: [seq, event, name]
    IntMin, IntMax, \* INT_MIN and INT_MAX
    Events,         \* the events of a trap
    AnyEvent        \* _EVENT_NULL: a handler for every event

Save == [seq |-> IntMin, event |-> AnyEvent, name |-> "kmt_context_save"]
Schedule == [seq |-> IntMax, event |-> AnyEvent, name |-> "kmt_schedule"]

Handlers == Others \cup {Save, Schedule}

ASSUME IrqAssumption ==
    /\ IntMin \in Int /\ IntMax \in Int /\ IntMin < IntMax
    /\ Others \subseteq [seq : IntMin .. IntMax, event : Events \cup {AnyEvent},
                         name : STRING]
    /\ \A h \in Others : h.name \notin {Save.name, Schedule.name}
    /\ AnyEvent \notin Events

VARIABLES
    irqs,       \* the list from irq_head on
    failed,     \* the assertion of on_irq failed
    ev,         \* the event of the trap, or AnyEvent outside of one
    at,         \* the position of ptr in os_trap
    ran,        \* the handlers called in this trap, in order
    next        \* whose context os_trap is going to return, "NULL" for none

irqVars == <<irqs, failed, ev, at, ran, next>>
------------------------------------------------------------------------------
(***************************************************************************)
(* on_irq                                                                  *)
(***************************************************************************)
\* Faulty variant of Between: equal keys go to the wrong side.
BetweenAbove(l, i, s) == i < Len(l) /\ l[i].seq < s /\ l[i + 1].seq >= s

Between(l, i, s) == i < Len(l) /\ l[i].seq <= s /\ l[i + 1].seq >= s

\* Faulty variant of StopsAt: neighbours are not looked at.
StopsAtLarger(l, i, s) == i = Len(l) \/ l[i].seq >= s

\* Where the loop of on_irq stops.
StopsAt(l, i, s) == i = Len(l) \/ Between(l, i, s) \/ l[i].seq >= s
Stop(l, s) ==
    CHOOSE i \in 1 .. Len(l) :
        StopsAt(l, i, s) /\ \A j \in 1 .. i - 1 : ~StopsAt(l, j, s)

\* In front of the head the list is cut off before ptr, whose being the head is
\* asserted.
Inserted(l, h) ==
    IF l = << >> THEN <<h>>
    ELSE LET i == Stop(l, h.seq)
         IN  IF i = Len(l) THEN Append(l, h)
             ELSE IF Between(l, i, h.seq) THEN InsertAt(l, i + 1, h)
             ELSE <<h>> \o SubSeq(l, i, Len(l))

AssertFails(l, h) ==
    /\ l # << >>
    /\ LET i == Stop(l, h.seq)
       IN  i # Len(l) /\ ~Between(l, i, h.seq) /\ i # 1

Register(h) ==
    /\ h \notin Range(irqs)
    /\ CASE h = Save -> irqs = << >>
         [] h = Schedule -> irqs = <<Save>>
         [] OTHER -> Schedule \in Range(irqs)
    /\ ev = AnyEvent /\ ran = << >>
    /\ irqs' = Inserted(irqs, h)
    /\ failed' = (failed \/ AssertFails(irqs, h))
    /\ UNCHANGED <<ev, at, ran, next>>
------------------------------------------------------------------------------
(***************************************************************************)
(* os_trap, on one processor.                                              *)
(***************************************************************************)
Trap(e) ==
    /\ Schedule \in Range(irqs)
    /\ ev = AnyEvent
    /\ ev' = e
    /\ at' = 1
    /\ ran' = << >>
    /\ next' = "NULL"
    /\ UNCHANGED <<irqs, failed>>

\* kmt_context_save returns NULL, kmt_schedule a context, others may do either.
Returns(h) ==
    CASE h = Save -> {"NULL"} [] h = Schedule -> {h.name}
      [] OTHER -> {"NULL", h.name}

Dispatch ==
    /\ ev # AnyEvent /\ at <= Len(irqs)
    /\ LET h == irqs[at]
       IN  IF h.event = AnyEvent \/ h.event = ev
             THEN /\ ran' = Append(ran, h)
                  /\ \E r \in Returns(h) : next' = IF r # "NULL" THEN r ELSE next
             ELSE UNCHANGED <<ran, next>>
    /\ at' = at + 1
    /\ UNCHANGED <<irqs, failed, ev>>

\* panic_on(!next) stops the machine; otherwise the trap returns.
TrapReturn ==
    /\ ev # AnyEvent /\ at > Len(irqs)
    /\ next # "NULL"
    /\ ev' = AnyEvent
    /\ UNCHANGED <<irqs, failed, at, ran, next>>

IrqInit ==
    /\ irqs = << >> /\ failed = FALSE
    /\ ev = AnyEvent /\ at = 1 /\ ran = << >> /\ next = "NULL"

IrqNext ==
    \/ \E h \in Handlers : Register(h)
    \/ \E e \in Events : Trap(e)
    \/ Dispatch \/ TrapReturn

IrqSpec == IrqInit /\ [][IrqNext]_irqVars
------------------------------------------------------------------------------
(***************************************************************************)
(* Properties                                                              *)
(***************************************************************************)
\* The list is ordered by seq: on_irq inserts at the right place although its
\* loop compares neighbours and its tail case does not compare at all.
Ordered == \A i \in 2 .. Len(irqs) : irqs[i - 1].seq <= irqs[i].seq

\* os.c:96 assert(ptr==irq_head): registering in front of the list never
\* happens away from its head, which would drop the handlers before it.
HeadAssert == ~failed

\* Once registered, a handler stays in the list, once.
NoneLost ==
    [][/\ Range(irqs) \subseteq Range(irqs')
       /\ Len(irqs') = Cardinality(Range(irqs'))]_irqVars

\* Whatever other modules register, with whatever seq, the interrupted context
\* is saved before any of their handlers runs.
SaveFirst == ran # << >> => Head(ran) = Save

\* At the end of a trap every handler for its event has run once, and the
\* context returned is the scheduler's even if other handlers returned one.
ScheduleDecides ==
    ev # AnyEvent /\ at > Len(irqs) =>
        /\ Range(ran) = {h \in Range(irqs) : h.event \in {AnyEvent, ev}}
        /\ Len(ran) = Cardinality(Range(ran))
        /\ next = Schedule.name

\* Whatever other modules register and in which order: a trap saves first, runs every
\* handler of its event once, and returns to the context the scheduler has chosen.
TrapOrder == SaveFirst /\ ScheduleDecides
=============================================================================
