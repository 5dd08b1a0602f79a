--------------------------- MODULE MachineProofs ---------------------------
(***************************************************************************)
(* The x86-qemu machine.  First Boot: the processors start one by one and  *)
(* stop together, for every number of processors (BootInv is an invariant; *)
(* BootStack, EnterOnce and WorldStops follow from it).  Then Irq: the     *)
(* handlers of a trap, for every set of handlers and every order of        *)
(* registration (IrqInv is an invariant; the properties of the list and of *)
(* a trap follow from it).  Last X86Vme: the page tables, for every number *)
(* of address spaces, tables and processors.  Its invariant VmeIInv is the *)
(* Shape of the tables, a forest with a tree per address space and one for *)
(* the kernel, which has a lemma for each way the code changes a table:    *)
(* HangTop, HangSub, SetLeaf, NewSpace and Torn.                           *)
(***************************************************************************)
EXTENDS Boot, Irq, X86Vme, Numbers, FiniteSetTheorems, SequenceTheorems, TLAPS

------------------------------------------------------------------------------
(***************************************************************************)
(* Boot                                                                    *)
(***************************************************************************)
LEMMA BootTypes ==
    ASSUME BootInv
    PROVE  /\ where \in [CPUs -> {"off", "record", "loader", "main", "percpu", "start",
                                  "wait", "entry", "halting", "spin"}]
           /\ isAp \in BOOLEAN /\ apReady \in BOOLEAN
           /\ jump \in {"none", "loader", "spin"}
           /\ starting \in 1 .. NCPU /\ NCPU \in Nat
           /\ Boss \in CPUs /\ CPUs \subseteq Nat /\ \A d \in CPUs : d < NCPU
           /\ \A d \in CPUs : entered[d] \in Nat /\ stopping[d] \in 0 .. NCPU
           /\ \A d \in CPUs : d = Boss \/ d \in APs
           /\ \A d \in APs : d \in CPUs /\ d # Boss /\ d >= 1
           /\ halters \subseteq CPUs
           /\ starting = NCPU \/ starting \in APs
BY BootAssumption DEF BootInv, BootTypeOK, CPUs, APs, Boss

LEMMA DeliverStep ==
    ASSUME NEW c \in CPUs, BootInv, Deliver(c)
    PROVE  BootInv'
<1>1. /\ c \in ipi
      /\ \A d \in CPUs : where'[d] =
            IF d # c THEN where[d] ELSE "record"
      /\ isAp' = isAp /\ jump' = jump /\ apReady' = apReady /\ starting' = starting
      /\ stopping' = stopping /\ halters' = halters /\ entered' = entered
      /\ ipi' = ipi \ {c}
    BY BootTypes
       DEF BootInv, BootTypeOK, OnTheWay, APs, LastIn, Boots, Deliver, Moves, CallsEntry,
           record
<1>2. BootTypeOK'
    BY BootTypes
       DEF BootInv, BootTypeOK, OnTheWay, APs, Loops, Deliver, Moves, CallsEntry, CPUs, record
<1>3. Boots'
    BY <1>1, BootTypes, SMTT(30) DEF BootInv, Boots
<1>4. Loops'
    BY <1>1, BootTypes, SMTT(30) DEF BootInv, Loops
<1>5. Unstarted'
    BY <1>1, BootTypes, SMTT(30) DEF BootInv, Unstarted, OnTheWay, Called
<1>6. Flag'
    BY <1>1, BootTypes, SMTT(30) DEF BootInv, Flag
<1>7. LastIn'
    BY <1>1, BootTypes, SMTT(30) DEF BootInv, LastIn
<1>8. OnTheWay'
    BY <1>1, BootTypes, SMTT(30) DEF BootInv, OnTheWay
<1>9. Called'
    BY <1>1, BootTypes, SMTT(30) DEF BootInv, Called
<1>10. Entered'
    BY <1>1, BootTypes, SMTT(30) DEF BootInv, OnTheWay, Called, Entered
<1>11. Halting'
    BY <1>1, BootTypes, SMTT(30) DEF BootInv, Halting
<1>12. Stopped'
    BY <1>1, BootTypes, SMTT(30) DEF BootInv, Stopped
<1> QED
    BY <1>2, <1>3, <1>4, <1>5, <1>6, <1>7, <1>8, <1>9, <1>10, <1>11, <1>12 DEF BootInv

LEMMA JumpStep ==
    ASSUME NEW c \in CPUs, BootInv, Jump(c)
    PROVE  BootInv'
<1>1. /\ where[c] = "record"
      /\ \A d \in CPUs : where'[d] =
            IF d # c THEN where[d] ELSE IF jump = "loader" THEN "loader" ELSE "spin"
      /\ isAp' = isAp /\ jump' = jump /\ apReady' = apReady /\ starting' = starting
      /\ stopping' = stopping /\ halters' = halters /\ entered' = entered /\ ipi' = ipi
    BY BootTypes
       DEF BootInv, BootTypeOK, OnTheWay, APs, LastIn, Boots, Jump, Moves, CallsEntry, record
<1>2. BootTypeOK'
    BY BootTypes
       DEF BootInv, BootTypeOK, OnTheWay, APs, Loops, Jump, Moves, CallsEntry, CPUs, record
<1>3. Boots'
    BY <1>1, BootTypes, SMTT(30) DEF BootInv, Boots, OnTheWay, Called
<1>4. Loops'
    BY <1>1, BootTypes, SMTT(30) DEF BootInv, Loops
<1>5. Unstarted'
    BY <1>1, BootTypes, SMTT(30) DEF BootInv, Unstarted
<1>6. Flag'
    BY <1>1, BootTypes, SMTT(30) DEF BootInv, Flag
<1>7. LastIn'
    BY <1>1, BootTypes, SMTT(30) DEF BootInv, LastIn
<1>8. OnTheWay'
    BY <1>1, BootTypes, SMTT(30) DEF BootInv, Boots, Loops, Unstarted, Flag, OnTheWay, Called
<1>9. Called'
    BY <1>1, BootTypes, SMTT(30) DEF BootInv, Called
<1>10. Entered'
    BY <1>1, BootTypes, SMTT(30) DEF BootInv, Entered
<1>11. Halting'
    BY <1>1, BootTypes, SMTT(30) DEF BootInv, Halting
<1>12. Stopped'
    BY <1>1, BootTypes, SMTT(30) DEF BootInv, Halting, Stopped
<1> QED
    BY <1>2, <1>3, <1>4, <1>5, <1>6, <1>7, <1>8, <1>9, <1>10, <1>11, <1>12 DEF BootInv

LEMMA LoaderDoneStep ==
    ASSUME NEW c \in CPUs, BootInv, LoaderDone(c)
    PROVE  BootInv'
<1>1. /\ where[c] = "loader"
      /\ \A d \in CPUs : where'[d] =
            IF d # c THEN where[d] ELSE IF isAp THEN "percpu" ELSE "main"
      /\ isAp' = isAp /\ jump' = jump /\ apReady' = apReady /\ starting' = starting
      /\ stopping' = stopping /\ halters' = halters /\ entered' = entered /\ ipi' = ipi
    BY BootTypes
       DEF BootInv, BootTypeOK, OnTheWay, APs, LastIn, Boots, LoaderDone, Moves, CallsEntry,
           record
<1>2. BootTypeOK'
    BY BootTypes
       DEF BootInv, BootTypeOK, OnTheWay, APs, Loops, LoaderDone, Moves, CallsEntry, CPUs,
           record
<1>3. Boots'
    BY <1>1, BootTypes, SMTT(30) DEF BootInv, Boots
<1>4. Loops'
    BY <1>1, BootTypes, SMTT(30) DEF BootInv, Loops
<1>5. Unstarted'
    BY <1>1, BootTypes, SMTT(30) DEF BootInv, Unstarted
<1>6. Flag'
    BY <1>1, BootTypes, SMTT(30) DEF BootInv, Flag
<1>7. LastIn'
    BY <1>1, BootTypes, SMTT(30) DEF BootInv, Boots, LastIn
<1>8. OnTheWay'
    BY <1>1, BootTypes, SMTT(30) DEF BootInv, OnTheWay
<1>9. Called'
    BY <1>1, BootTypes, SMTT(30) DEF BootInv, Called
<1>10. Entered'
    BY <1>1, BootTypes, SMTT(30) DEF BootInv, Entered
<1>11. Halting'
    BY <1>1, BootTypes, SMTT(30) DEF BootInv, Halting
<1>12. Stopped'
    BY <1>1, BootTypes, SMTT(30) DEF BootInv, Stopped
<1> QED
    BY <1>2, <1>3, <1>4, <1>5, <1>6, <1>7, <1>8, <1>9, <1>10, <1>11, <1>12 DEF BootInv

LEMMA MpeInitStep ==
    ASSUME NEW c \in CPUs, BootInv, MpeInit(c)
    PROVE  BootInv'
<1>1. /\ where[c] = "main" /\ c = Boss
      /\ \A d \in CPUs : where'[d] =
            IF d # c THEN where[d] ELSE IF NCPU = 1 THEN "entry" ELSE "start"
      /\ isAp' = isAp /\ apReady' = apReady /\ starting' = starting
      /\ stopping' = stopping /\ halters' = halters /\ ipi' = ipi
      /\ jump' = "loader"
      /\ \A d \in CPUs : entered'[d] =
            IF d = c /\ NCPU = 1 THEN entered[d] + 1 ELSE entered[d]
    BY BootTypes
       DEF BootInv, BootTypeOK, OnTheWay, APs, LastIn, Boots, MpeInit, Moves, CallsEntry,
           record
<1>2. BootTypeOK'
    BY BootTypes
       DEF BootInv, BootTypeOK, OnTheWay, APs, Loops, MpeInit, Moves, CallsEntry, CPUs, record
<1>3. Boots'
    BY <1>1, BootTypes, SMTT(30) DEF BootInv, Boots
<1>4. Loops'
    BY <1>1, BootTypes, SMTT(30) DEF BootInv, Boots, Loops
<1>5. Unstarted'
    BY <1>1, BootTypes, SMTT(30) DEF BootInv, Boots, Unstarted
<1>6. Flag'
    BY <1>1, BootTypes, SMTT(30) DEF BootInv, Boots, Flag
<1>7. LastIn'
    BY <1>1, BootTypes, SMTT(30) DEF BootInv, LastIn, OnTheWay, Entered
<1>8. OnTheWay'
    BY <1>1, BootTypes, SMTT(30) DEF BootInv, OnTheWay
<1>9. Called'
    BY <1>1, BootTypes, SMTT(30) DEF BootInv, Boots, Called
<1>10. Entered'
    BY <1>1, BootTypes, SMTT(30) DEF BootInv, Boots, Entered
<1>11. Halting'
    BY <1>1, BootTypes, SMTT(30) DEF BootInv, Boots, Halting
<1>12. Stopped'
    BY <1>1, BootTypes, SMTT(30) DEF BootInv, Stopped
<1> QED
    BY <1>2, <1>3, <1>4, <1>5, <1>6, <1>7, <1>8, <1>9, <1>10, <1>11, <1>12 DEF BootInv

LEMMA StartApStep ==
    ASSUME NEW c \in CPUs, BootInv, StartAp(c)
    PROVE  BootInv'
<1>1. /\ where[c] = "start" /\ c = Boss
      /\ \A d \in CPUs : where'[d] =
            IF d # c THEN where[d] ELSE "wait"
      /\ jump' = jump /\ apReady' = apReady /\ starting' = starting
      /\ stopping' = stopping /\ halters' = halters /\ entered' = entered
      /\ isAp' = TRUE /\ ipi' = ipi \cup {starting}
    BY BootTypes
       DEF BootInv, BootTypeOK, OnTheWay, APs, LastIn, Boots, StartAp, Moves, CallsEntry,
           record
<1>2. BootTypeOK'
    BY BootTypes
       DEF BootInv, BootTypeOK, OnTheWay, APs, Loops, StartAp, Moves, CallsEntry, CPUs, record
<1>3. Boots'
    BY <1>1, BootTypes, SMTT(30) DEF BootInv, Boots
<1>4. Loops'
    BY <1>1, BootTypes, SMTT(30) DEF BootInv, Loops
<1>5. Unstarted'
    BY <1>1, BootTypes, SMTT(30) DEF BootInv, Unstarted
<1>6. Flag'
    BY <1>1, BootTypes, SMTT(30) DEF BootInv, Flag
<1>7. LastIn'
    BY <1>1, BootTypes, SMTT(30) DEF BootInv, LastIn
<1>8. OnTheWay'
    BY <1>1, BootTypes, SMTT(30) DEF BootInv, OnTheWay
<1>9. Called'
    BY <1>1, BootTypes, SMTT(30) DEF BootInv, Boots, Loops, Unstarted, Flag, OnTheWay, Called
<1>10. Entered'
    BY <1>1, BootTypes, SMTT(30) DEF BootInv, Entered
<1>11. Halting'
    BY <1>1, BootTypes, SMTT(30) DEF BootInv, Halting
<1>12. Stopped'
    BY <1>1, BootTypes, SMTT(30) DEF BootInv, Stopped
<1> QED
    BY <1>2, <1>3, <1>4, <1>5, <1>6, <1>7, <1>8, <1>9, <1>10, <1>11, <1>12 DEF BootInv

LEMMA WaitApStep ==
    ASSUME NEW c \in CPUs, BootInv, WaitAp(c)
    PROVE  BootInv'
<1>0. starting \in APs /\ starting + 1 \in 1 .. NCPU
      /\ (starting + 1 = NCPU \/ starting + 1 \in APs)
    <2>1. starting \in APs
        BY BootTypes DEF BootInv, OnTheWay, Loops, WaitAp, Moves, APs
    <2> QED
        BY <2>1, BootTypes DEF APs, CPUs, Boss
<1>1. /\ where[c] = "wait" /\ c = Boss /\ apReady
      /\ \A d \in CPUs : where'[d] =
            IF d # c THEN where[d] ELSE IF starting + 1 = NCPU THEN "entry" ELSE "start"
      /\ isAp' = isAp /\ jump' = jump /\ stopping' = stopping /\ halters' = halters
      /\ ipi' = ipi
      /\ apReady' = FALSE /\ starting' = starting + 1
      /\ \A d \in CPUs : entered'[d] =
            IF d = c /\ starting + 1 = NCPU THEN entered[d] + 1 ELSE entered[d]
    BY BootTypes
       DEF BootInv, BootTypeOK, OnTheWay, APs, LastIn, Boots, WaitAp, Moves, CallsEntry,
           record
<1>2. BootTypeOK'
    <2>1. starting' \in 1 .. NCPU
        BY <1>1, <1>0, BootTypes
    <2>2. where' \in [CPUs -> {"off", "record", "loader", "main", "percpu", "start", "wait",
                             "entry", "halting", "spin"}]
        BY BootTypes DEF WaitAp, Moves
    <2>3. entered' \in [CPUs -> Nat]
        <3>1. entered \in [CPUs -> Nat] /\ entered[c] + 1 \in Nat
            BY BootTypes DEF BootInv, BootTypeOK
        <3> QED
            BY <3>1 DEF WaitAp, CallsEntry
    <2> QED
        BY <2>1, <2>2, <2>3 DEF BootInv, BootTypeOK, WaitAp, record
<1>3. Boots'
    BY <1>0, <1>1, BootTypes, SMTT(30) DEF BootInv, Boots
<1>4. Loops'
    BY <1>0, <1>1, BootTypes, SMTT(30) DEF BootInv, Loops, Flag
<1>5. Unstarted'
    BY <1>0, <1>1, BootTypes, SMTT(30) DEF BootInv, Unstarted
<1>6. Flag'
    BY <1>0, <1>1, BootTypes, SMTT(30) DEF BootInv, Flag
<1>7. LastIn'
    BY <1>0, <1>1, BootTypes, SMTT(30)
       DEF BootInv, Boots, Loops, Unstarted, Flag, LastIn, OnTheWay, Called, Entered, Halting,
           Stopped
<1>8. OnTheWay'
    BY <1>0, <1>1, BootTypes, SMTT(30) DEF BootInv, OnTheWay
<1>9. Called'
    BY <1>0, <1>1, BootTypes, SMTT(30) DEF BootInv, Called
<1>10. Entered'
    BY <1>0, <1>1, BootTypes, SMTT(30) DEF BootInv, Entered
<1>11. Halting'
    BY <1>0, <1>1, BootTypes, SMTT(30) DEF BootInv, Halting
<1>12. Stopped'
    BY <1>0, <1>1, BootTypes, SMTT(30) DEF BootInv, Stopped
<1> QED
    BY <1>2, <1>3, <1>4, <1>5, <1>6, <1>7, <1>8, <1>9, <1>10, <1>11, <1>12 DEF BootInv

LEMMA OtherCpuEntryStep ==
    ASSUME NEW c \in CPUs, BootInv, OtherCpuEntry(c)
    PROVE  BootInv'
<1>1. /\ where[c] = "percpu" /\ c # Boss
      /\ \A d \in CPUs : where'[d] =
            IF d # c THEN where[d] ELSE "entry"
      /\ isAp' = isAp /\ jump' = jump /\ starting' = starting /\ stopping' = stopping
      /\ halters' = halters /\ ipi' = ipi
      /\ apReady' = TRUE
      /\ \A d \in CPUs : entered'[d] =
            IF d = c THEN entered[d] + 1 ELSE entered[d]
    BY BootTypes
       DEF BootInv, BootTypeOK, OnTheWay, APs, LastIn, Boots, OtherCpuEntry, Moves,
           CallsEntry, record
<1>2. BootTypeOK'
    <2>1. entered' \in [CPUs -> Nat]
        <3>1. entered \in [CPUs -> Nat] /\ entered' = [entered EXCEPT ![c] = @ + 1]
            BY DEF BootInv, BootTypeOK, OtherCpuEntry, Moves, CallsEntry, record
        <3>2. entered[c] + 1 \in Nat
            BY <1>1, BootTypes
        <3> QED
            BY <3>1, <3>2
    <2>2. where' \in [CPUs -> {"off", "record", "loader", "main", "percpu", "start", "wait",
                             "entry", "halting", "spin"}]
        BY BootTypes DEF OtherCpuEntry, Moves, CallsEntry, record
    <2>3. ipi' \subseteq CPUs
        <3>1. ipi \subseteq CPUs
            BY DEF BootInv, BootTypeOK
        <3>2. \A d \in 0 .. NCPU : d < NCPU => d \in CPUs
            BY BootAssumption DEF CPUs
        <3> QED
            BY <1>1, <3>1, <3>2, BootTypes
    <2> QED
        BY <2>1, <2>2, <2>3 DEF BootInv, BootTypeOK, OtherCpuEntry, Moves, CallsEntry, record
<1>3. Boots'
    BY <1>1, BootTypes, SMTT(30) DEF BootInv, Boots
<1>4. Loops'
    BY <1>1, BootTypes, SMTT(30) DEF BootInv, Loops, OnTheWay
<1>5. Unstarted'
    BY <1>1, BootTypes, SMTT(30) DEF BootInv, Unstarted
<1>6. Flag'
    BY <1>1, BootTypes, SMTT(30) DEF BootInv, Flag, OnTheWay, Entered
<1>7. LastIn'
    BY <1>1, BootTypes, SMTT(30) DEF BootInv, LastIn, OnTheWay
<1>8. OnTheWay'
    BY <1>1, BootTypes, SMTT(30) DEF BootInv, OnTheWay
<1>9. Called'
    BY <1>1, BootTypes, SMTT(30) DEF BootInv, OnTheWay, Called
<1>10. Entered'
    BY <1>1, BootTypes, SMTT(30) DEF BootInv, Entered
<1>11. Halting'
    BY <1>1, BootTypes, SMTT(30) DEF BootInv, Halting
<1>12. Stopped'
    BY <1>1, BootTypes, SMTT(30) DEF BootInv, Stopped
<1> QED
    BY <1>2, <1>3, <1>4, <1>5, <1>6, <1>7, <1>8, <1>9, <1>10, <1>11, <1>12 DEF BootInv

LEMMA HaltStep ==
    ASSUME NEW c \in CPUs, BootInv, Halt(c)
    PROVE  BootInv'
<1>1. /\ where[c] \in {"main", "entry"}
      /\ \A d \in CPUs : where'[d] =
            IF d # c THEN where[d] ELSE "halting"
      /\ isAp' = isAp /\ apReady' = apReady /\ starting' = starting
      /\ stopping' = stopping /\ entered' = entered /\ ipi' = ipi
      /\ jump' = "spin" /\ halters' = halters \cup {c}
    BY BootTypes
       DEF BootInv, BootTypeOK, OnTheWay, APs, LastIn, Boots, Halt, Moves, CallsEntry, record
<1>2. BootTypeOK'
    BY BootTypes
       DEF BootInv, BootTypeOK, OnTheWay, APs, Loops, Halt, Moves, CallsEntry, CPUs, record
<1>3. Boots'
    BY <1>1, BootTypes, SMTT(30) DEF BootInv, Boots
<1>4. Loops'
    BY <1>1, BootTypes, SMTT(30) DEF BootInv, Loops
<1>5. Unstarted'
    BY <1>1, BootTypes, SMTT(30) DEF BootInv, Unstarted
<1>6. Flag'
    BY <1>1, BootTypes, SMTT(30) DEF BootInv, Flag
<1>7. LastIn'
    BY <1>1, BootTypes, SMTT(30) DEF BootInv, LastIn
<1>8. OnTheWay'
    BY <1>1, BootTypes, SMTT(30) DEF BootInv, OnTheWay
<1>9. Called'
    BY <1>1, BootTypes, SMTT(30) DEF BootInv, Called
<1>10. Entered'
    BY <1>1, BootTypes, SMTT(30) DEF BootInv, Entered
<1>11. Halting'
    BY <1>1, BootTypes, SMTT(30) DEF BootInv, Halting
<1>12. Stopped'
    BY <1>1, BootTypes, SMTT(30) DEF BootInv, Halting, Stopped
<1> QED
    BY <1>2, <1>3, <1>4, <1>5, <1>6, <1>7, <1>8, <1>9, <1>10, <1>11, <1>12 DEF BootInv

LEMMA StopNextStep ==
    ASSUME NEW c \in CPUs, BootInv, StopNext(c)
    PROVE  BootInv'
<1>1. /\ where[c] = "halting" /\ stopping[c] < NCPU
      /\ \A d \in CPUs : where'[d] =
            IF d # c THEN where[d] ELSE where[d]
      /\ isAp' = isAp /\ jump' = jump /\ apReady' = apReady /\ starting' = starting
      /\ halters' = halters /\ entered' = entered
      /\ ipi' = (IF stopping[c] # c THEN ipi \cup {stopping[c]} ELSE ipi)
      /\ \A d \in CPUs : stopping'[d] =
            IF d = c THEN stopping[d] + 1 ELSE stopping[d]
    BY BootTypes
       DEF BootInv, BootTypeOK, OnTheWay, APs, LastIn, Boots, StopNext, Moves, CallsEntry,
           record
<1>2. BootTypeOK'
    <2>1. stopping' \in [CPUs -> 0 .. NCPU]
        <3>1. stopping \in [CPUs -> 0 .. NCPU] /\ stopping' = [stopping EXCEPT ![c] = @ + 1]
            BY DEF BootInv, BootTypeOK, StopNext, Moves, record
        <3>2. stopping[c] + 1 \in 0 .. NCPU
            BY <1>1, BootTypes
        <3> QED
            BY <3>1, <3>2
    <2>2. where' \in [CPUs -> {"off", "record", "loader", "main", "percpu", "start", "wait",
                             "entry", "halting", "spin"}]
        BY BootTypes DEF StopNext, Moves, record
    <2>3. ipi' \subseteq CPUs
        <3>1. ipi \subseteq CPUs
            BY DEF BootInv, BootTypeOK
        <3>2. \A d \in 0 .. NCPU : d < NCPU => d \in CPUs
            BY BootAssumption DEF CPUs
        <3> QED
            BY <1>1, <3>1, <3>2, BootTypes
    <2> QED
        BY <2>1, <2>2, <2>3 DEF BootInv, BootTypeOK, StopNext, Moves, record
<1>3. Boots'
    BY <1>1, BootTypes, SMTT(30) DEF BootInv, Boots
<1>4. Loops'
    BY <1>1, BootTypes, SMTT(30) DEF BootInv, Loops
<1>5. Unstarted'
    BY <1>1, BootTypes, SMTT(30) DEF BootInv, Unstarted
<1>6. Flag'
    BY <1>1, BootTypes, SMTT(30) DEF BootInv, Flag
<1>7. LastIn'
    BY <1>1, BootTypes, SMTT(30) DEF BootInv, LastIn
<1>8. OnTheWay'
    BY <1>1, BootTypes, SMTT(30) DEF BootInv, OnTheWay
<1>9. Called'
    BY <1>1, BootTypes, SMTT(30) DEF BootInv, Called, Halting
<1>10. Entered'
    BY <1>1, BootTypes, SMTT(30) DEF BootInv, Entered
<1>11. Halting'
    BY <1>1, BootTypes, SMTT(30) DEF BootInv, Halting
<1>12. Stopped'
    BY <1>1, BootTypes, SMTT(30) DEF BootInv, Stopped
<1> QED
    BY <1>2, <1>3, <1>4, <1>5, <1>6, <1>7, <1>8, <1>9, <1>10, <1>11, <1>12 DEF BootInv

LEMMA PowerOffStep ==
    ASSUME NEW c \in CPUs, BootInv, PowerOff(c)
    PROVE  BootInv'
BY DEF BootInv, BootTypeOK, Boots, Loops, Unstarted, Flag, LastIn, OnTheWay, Called, Entered,
       Halting, Stopped, PowerOff, record

LEMMA BootInitInv == BootInit => BootInv
<1> SUFFICES ASSUME BootInit PROVE BootInv
    OBVIOUS
<1>1. BootTypeOK /\ Boss \in CPUs
    <2>1. Boss \in CPUs /\ 1 \in 1 .. NCPU /\ 0 \in 0 .. NCPU
        BY BootAssumption DEF CPUs, Boss
    <2> QED
        BY <2>1 DEF BootInit, BootTypeOK
<1>2. Boots /\ Loops /\ Unstarted /\ Flag /\ LastIn
    BY <1>1 DEF BootInit, Boots, Loops, Unstarted, Flag, LastIn, APs
<1>3. OnTheWay /\ Called /\ Entered /\ Halting
    BY <1>1 DEF BootInit, OnTheWay, Called, Entered, Halting, APs
<1>4. Stopped
    BY DEF BootInit, Stopped
<1> QED
    BY <1>1, <1>2, <1>3, <1>4 DEF BootInv

LEMMA BootStep == BootInv /\ [BootNext]_bootVars => BootInv'
<1> SUFFICES ASSUME BootInv, [BootNext]_bootVars PROVE BootInv'
    OBVIOUS
<1>1. CASE UNCHANGED bootVars
    BY <1>1 DEF BootInv, BootTypeOK, Boots, Loops, Unstarted, Flag, LastIn, OnTheWay, Called,
                Entered, Halting, Stopped, bootVars
<1>2. CASE BootNext
    <2>1. PICK c \in CPUs : Deliver(c) \/ Runs(c) \/ Halt(c)
        BY <1>2 DEF BootNext
    <2>2. CASE Deliver(c)
        BY <2>2, DeliverStep
    <2>3. CASE Halt(c)
        BY <2>3, HaltStep
    <2>4. CASE Runs(c)
        BY <2>4, JumpStep, LoaderDoneStep, MpeInitStep, StartApStep, WaitApStep,
           OtherCpuEntryStep, StopNextStep, PowerOffStep DEF Runs
    <2> QED
        BY <2>1, <2>2, <2>3, <2>4
<1> QED
    BY <1>1, <1>2

\* However many processors there are and whenever their interrupts arrive,
\* BootInv holds: it says how far the loop of _mpe_init has come.
THEOREM BootInvariant == BootSpec => []BootInv
BY BootInitInv, BootStep, PTL DEF BootSpec

\* _mpe_init and othercpu_entry keep two processors off the boot stack.
THEOREM BootStackTheorem == BootSpec => []BootStack
<1>1. BootInv => BootStack
    BY BootTypes DEF BootInv, BootStack, Boots, LastIn, OnTheWay
<1> QED
    BY <1>1, BootInvariant, PTL

\* user_entry is called once on every processor, last on the bootstrap processor.
THEOREM EnterOnceTheorem == BootSpec => []EnterOnce
<1>1. BootInv => EnterOnce
    BY DEF BootInv, EnterOnce, LastIn, Entered
<1> QED
    BY <1>1, BootInvariant, PTL

\* A processor that has gone through the loop of __am_stop_the_world is the only
\* one that will execute code of the program.
THEOREM WorldStopsTheorem == BootSpec => []WorldStops
<1>1. BootInv => WorldStops
    <2> SUFFICES ASSUME BootInv, NEW c \in CPUs, halters = {c}, stopping[c] = NCPU,
                        NEW d \in CPUs \ {c}
                 PROVE  d \in ipi \/ where[d] \in {"record", "spin"}
        BY DEF WorldStops
    <2> QED
        BY BootTypes DEF BootInv, Stopped
<1> QED
    BY <1>1, BootInvariant, PTL
------------------------------------------------------------------------------
(***************************************************************************)
(* Irq                                                                     *)
(***************************************************************************)
LEMMA StopIsFirst ==
    ASSUME NEW l \in Seq(Handlers), l # << >>, NEW s \in Int
    PROVE  /\ Stop(l, s) \in 1 .. Len(l) /\ StopsAt(l, Stop(l, s), s)
           /\ \A j \in 1 .. Stop(l, s) - 1 : ~StopsAt(l, j, s)
<1> DEFINE T == {i \in 1 .. Len(l) : StopsAt(l, i, s)}
<1>1. Len(l) \in T /\ T \subseteq Nat
    BY DEF StopsAt
<1>2. PICK i \in T : \A j \in T : i <= j
    <2> HIDE DEF T
    <2> QED BY <1>1, LeastNumber
<1>3. \A j \in 1 .. i - 1 : ~StopsAt(l, j, s)
    BY <1>2
<1>4. \E k \in 1 .. Len(l) : StopsAt(l, k, s) /\ \A j \in 1 .. k - 1 : ~StopsAt(l, j, s)
    BY <1>2, <1>3
<1> QED BY <1>4 DEF Stop
------------------------------------------------------------------------------
\* The list has both ends from kmt_init on: Save is first and Schedule last.
Ready(l) == Len(l) >= 2 /\ l[1] = Save /\ l[Len(l)] = Schedule

Sorted(l) == \A i, j \in DOMAIN l : i < j => l[i].seq <= l[j].seq

Distinct(l) == IsFiniteSet(Range(l)) /\ Len(l) = Cardinality(Range(l))

\* What os_trap has called when ptr is at position i.
Passed(i) == {irqs[j] : j \in {k \in 1 .. i - 1 : irqs[k].event \in {AnyEvent, ev}}}

ListInv ==
    /\ irqs \in Seq(Handlers) /\ Distinct(irqs) /\ Sorted(irqs) /\ failed = FALSE
    /\ irqs = << >> \/ irqs = <<Save>> \/ Ready(irqs)

TrapInv ==
    /\ ev \in Events \cup {AnyEvent} /\ ran \in Seq(Handlers) /\ Distinct(ran)
    /\ ran # << >> => ran[1] = Save
    /\ ev # AnyEvent \/ ran # << >> => Ready(irqs)
    /\ ev # AnyEvent =>
          /\ at \in 1 .. Len(irqs) + 1
          /\ at > 1 => ran # << >>
          /\ Range(ran) = Passed(at)
          /\ at > Len(irqs) => next = Schedule.name

IrqInv == ListInv /\ TrapInv

LEMMA HandlerTypes ==
    /\ IntMin \in Int /\ IntMax \in Int /\ IntMin < IntMax
    /\ \A h \in Handlers :
          /\ h.seq \in Int /\ IntMin <= h.seq /\ h.seq <= IntMax
          /\ h.event \in Events \cup {AnyEvent}
    /\ Save \in Handlers /\ Schedule \in Handlers
    /\ Save.seq = IntMin /\ Schedule.seq = IntMax /\ Save # Schedule
    /\ Save.event = AnyEvent /\ Schedule.event = AnyEvent /\ AnyEvent \notin Events
BY IrqAssumption DEF Handlers, Save, Schedule

\* One more element, that was not there.
LEMMA DistinctAppended ==
    ASSUME NEW l, Distinct(l), NEW m, NEW h, h \notin Range(l),
           Range(m) = Range(l) \cup {h}, Len(m) = Len(l) + 1
    PROVE  Distinct(m)
BY FS_AddElement DEF Distinct

LEMMA NoHandler == Distinct(<< >>) /\ Sorted(<< >>) /\ Range(<< >>) = {}
<1>1. Range(<< >>) = {}
    BY DEF Range
<1> QED BY <1>1, FS_EmptySet DEF Distinct, Sorted

LEMMA OneHandler ==
    ASSUME NEW h \in Handlers
    PROVE  /\ <<h>> \in Seq(Handlers) /\ Distinct(<<h>>) /\ Sorted(<<h>>)
           /\ Range(<<h>>) = {h}
<1>1. Range(<<h>>) = {h}
    BY DEF Range
<1>2. /\ Len(<<h>>) = Len(<< >>) + 1 /\ h \notin Range(<< >>)
      /\ Range(<<h>>) = Range(<< >>) \cup {h}
    BY <1>1, NoHandler
<1>3. Distinct(<<h>>)
    BY <1>2, NoHandler, DistinctAppended, Zenon
<1> QED BY <1>1, <1>3 DEF Sorted

\* Whatever its seq, a handler goes between two others once Save and Schedule are there.
LEMMA GoesBetween ==
    ASSUME NEW l \in Seq(Handlers), Ready(l), Sorted(l), NEW h \in Handlers
    PROVE  \E i \in 1 .. Len(l) - 1 :
              /\ Between(l, i, h.seq) /\ Inserted(l, h) = InsertAt(l, i + 1, h)
              /\ ~AssertFails(l, h)
<1> DEFINE i == Stop(l, h.seq)
<1>1. /\ i \in 1 .. Len(l) /\ StopsAt(l, i, h.seq)
      /\ \A j \in 1 .. i - 1 : ~StopsAt(l, j, h.seq)
    <2>1. l # << >> /\ h.seq \in Int
        BY HandlerTypes DEF Ready
    <2> QED BY <2>1, StopIsFirst, Zenon
<1> HIDE DEF i
<1>2. \A j \in 1 .. Len(l) : l[j] \in Handlers /\ l[j].seq \in Int
    BY HandlerTypes
<1>3. ASSUME i = 1 PROVE Between(l, i, h.seq)
    BY <1>1, <1>2, <1>3, HandlerTypes DEF Ready, Between, StopsAt
<1>4. ASSUME i # 1 PROVE Between(l, i - 1, h.seq) \/ Between(l, i, h.seq)
    BY <1>1, <1>2, <1>4, HandlerTypes DEF Ready, Between, StopsAt
<1>5. Between(l, i, h.seq) /\ i \in 1 .. Len(l) - 1
    BY <1>1, <1>3, <1>4 DEF Between, StopsAt
<1>6. l # << >>
    BY DEF Ready
<1> QED BY <1>5, <1>6 DEF Inserted, AssertFails, i

LEMMA InsertedElements ==
    ASSUME NEW l \in Seq(Handlers), NEW i \in 1 .. Len(l) - 1, NEW h \in Handlers,
           NEW m, m = InsertAt(l, i + 1, h)
    PROVE  /\ m \in Seq(Handlers) /\ Len(m) = Len(l) + 1
           /\ \A j \in 1 .. i : m[j] = l[j]
           /\ m[i + 1] = h
           /\ \A j \in i + 2 .. Len(l) + 1 : m[j] = l[j - 1]
<1> DEFINE front == SubSeq(l, 1, i)
           rear == SubSeq(l, i + 1, Len(l))
<1>1. /\ front \in Seq(Handlers) /\ Len(front) = i /\ \A j \in 1 .. i : front[j] = l[j]
      /\ rear \in Seq(Handlers) /\ Len(rear) = Len(l) - i
      /\ \A j \in 1 .. Len(l) - i : rear[j] = l[j + i]
    OBVIOUS
<1>2. m = front \o <<h>> \o rear
    BY DEF InsertAt
<1> HIDE DEF front, rear
<1> DEFINE most == front \o <<h>>
<1>3. /\ most \in Seq(Handlers) /\ Len(most) = i + 1
      /\ \A j \in 1 .. i : most[j] = l[j]
      /\ most[i + 1] = h
    BY <1>1
<1>4. m = most \o rear
    BY <1>2
<1> HIDE DEF most
<1>0. Len(l) \in Nat /\ i \in Nat /\ i < Len(l) /\ Len(rear) = Len(l) - i
    BY <1>1
<1>5. m \in Seq(Handlers) /\ Len(m) = Len(l) + 1
    <2>1. m \in Seq(Handlers) /\ Len(m) = Len(most) + Len(rear)
        <3>1. most \in Seq(Handlers) /\ rear \in Seq(Handlers)
            BY <1>1, <1>3
        <3>2. most \o rear \in Seq(Handlers) /\ Len(most \o rear) = Len(most) + Len(rear)
            BY <3>1, ConcatProperties, Zenon
        <3> QED BY <1>4, <3>2, Zenon
    <2> QED BY <1>0, <1>3, <2>1
<1>6. \A j \in 1 .. i + 1 : m[j] = most[j]
    BY <1>1, <1>3, <1>4
<1>7. \A j \in i + 2 .. Len(l) + 1 : m[j] = rear[j - (i + 1)]
    BY <1>0, <1>1, <1>3, <1>4, <1>5
<1>8. ASSUME NEW j \in i + 2 .. Len(l) + 1 PROVE m[j] = l[j - 1]
    <2>1. j - (i + 1) \in 1 .. Len(l) - i /\ j - (i + 1) + i = j - 1
        BY <1>0
    <2> QED BY <1>1, <1>7, <2>1
<1> QED BY <1>3, <1>5, <1>6, <1>8

LEMMA InsertedKeeps ==
    ASSUME NEW l \in Seq(Handlers), Ready(l), Sorted(l), Distinct(l),
           NEW h \in Handlers, h \notin Range(l), NEW m, m = Inserted(l, h)
    PROVE  /\ m \in Seq(Handlers) /\ Ready(m) /\ Sorted(m) /\ Distinct(m)
           /\ Range(m) = Range(l) \cup {h} /\ ~AssertFails(l, h)
<1>1. PICK i \in 1 .. Len(l) - 1 :
            Between(l, i, h.seq) /\ m = InsertAt(l, i + 1, h) /\ ~AssertFails(l, h)
    BY GoesBetween
<1>2. /\ m \in Seq(Handlers) /\ Len(m) = Len(l) + 1
      /\ \A j \in 1 .. i : m[j] = l[j]
      /\ m[i + 1] = h
      /\ \A j \in i + 2 .. Len(l) + 1 : m[j] = l[j - 1]
    <2>1. m = InsertAt(l, i + 1, h)
        BY <1>1
    <2> QED BY <2>1, InsertedElements
<1>3. Ready(m)
    BY <1>2 DEF Ready
<1>4. Sorted(m)
    <2>1. /\ h.seq \in Int /\ \A j \in 1 .. Len(l) : l[j].seq \in Int
          /\ l[i].seq <= h.seq /\ h.seq <= l[i + 1].seq
        BY <1>1, HandlerTypes DEF Between
    <2>0. DOMAIN l = 1 .. Len(l) /\ Len(l) \in Nat /\ i \in DOMAIN l /\ i + 1 \in DOMAIN l
        OBVIOUS
    <2>2. ASSUME NEW j \in 1 .. i PROVE l[j].seq <= h.seq
        <3>1. j \in DOMAIN l /\ (j = i \/ j < i)
            BY <2>0
        <3>2. l[j].seq <= l[i].seq
            BY <2>0, <2>1, <3>1 DEF Sorted
        <3> QED BY <2>0, <2>1, <3>1, <3>2
    <2>3. ASSUME NEW j \in i + 1 .. Len(l) PROVE h.seq <= l[j].seq
        <3>1. j \in DOMAIN l /\ (j = i + 1 \/ i + 1 < j)
            BY <2>0
        <3>2. l[i + 1].seq <= l[j].seq
            BY <2>0, <2>1, <3>1 DEF Sorted
        <3> QED BY <2>0, <2>1, <3>1, <3>2
    <2> SUFFICES ASSUME NEW j \in 1 .. Len(l) + 1, NEW k \in 1 .. Len(l) + 1, j < k
                 PROVE  m[j].seq <= m[k].seq
        BY <1>2 DEF Sorted
    <2>4. CASE k <= i
        <3>1. m[j] = l[j] /\ m[k] = l[k] /\ j \in 1 .. Len(l) /\ k \in 1 .. Len(l)
            BY <1>2, <2>4
        <3> QED BY <3>1 DEF Sorted
    <2>5. CASE k = i + 1
        BY <1>2, <2>2, <2>5
    <2>6. CASE k > i + 1 /\ j <= i
        <3>1. m[j] = l[j] /\ m[k] = l[k - 1] /\ j < k - 1 /\ k - 1 \in 1 .. Len(l)
            BY <1>2, <2>6
        <3> QED BY <3>1 DEF Sorted
    <2>7. CASE j = i + 1
        <3>1. m[j] = h /\ m[k] = l[k - 1] /\ k - 1 \in i + 1 .. Len(l)
            BY <1>2, <2>7
        <3> QED BY <2>3, <3>1
    <2>8. CASE j > i + 1
        <3>1. /\ m[j] = l[j - 1] /\ m[k] = l[k - 1] /\ j - 1 < k - 1
              /\ j - 1 \in 1 .. Len(l) /\ k - 1 \in 1 .. Len(l)
            BY <1>2, <2>8
        <3> QED BY <3>1 DEF Sorted
    <2> QED BY <2>4, <2>5, <2>6, <2>7, <2>8
<1>5. Range(m) = Range(l) \cup {h}
    <2>1. ASSUME NEW j \in 1 .. Len(m) PROVE m[j] \in Range(l) \cup {h}
        <3>0. Len(l) \in Nat /\ Len(m) = Len(l) + 1 /\ DOMAIN l = 1 .. Len(l)
            BY <1>2
        <3>1. CASE j <= i
            <4>1. j \in 1 .. Len(l) /\ m[j] = l[j]
                BY <1>2, <3>0, <3>1
            <4> QED BY <3>0, <4>1 DEF Range
        <3>2. CASE j = i + 1
            BY <1>2, <3>2
        <3>3. CASE j > i + 1
            <4>1. j - 1 \in 1 .. Len(l) /\ m[j] = l[j - 1]
                BY <1>2, <3>0, <3>3
            <4> QED BY <3>0, <4>1 DEF Range
        <3> QED BY <3>0, <3>1, <3>2, <3>3
    <2>2. ASSUME NEW j \in 1 .. Len(l) PROVE l[j] \in Range(m)
        <3>1. CASE j <= i
            BY <1>2, <3>1 DEF Range
        <3>2. CASE j > i
            <4>1. j + 1 \in DOMAIN m /\ j + 1 \in i + 2 .. Len(l) + 1
                BY <1>2, <3>2
            <4>2. m[j + 1] = l[(j + 1) - 1] /\ (j + 1) - 1 = j
                BY <1>2, <4>1
            <4> QED BY <4>1, <4>2 DEF Range
        <3> QED BY <3>1, <3>2
    <2>3. h \in Range(m)
        BY <1>2 DEF Range
    <2>4. DOMAIN m = 1 .. Len(m) /\ DOMAIN l = 1 .. Len(l)
        BY <1>2
    <2>5. Range(m) \subseteq Range(l) \cup {h}
        BY <2>1, <2>4 DEF Range
    <2>6. Range(l) \subseteq Range(m)
        BY <2>2, <2>4 DEF Range
    <2> QED BY <2>3, <2>5, <2>6
<1>6. Distinct(m)
    BY <1>2, <1>5, DistinctAppended
<1> QED BY <1>1, <1>2, <1>3, <1>4, <1>5, <1>6

LEMMA AppendedKeeps ==
    ASSUME NEW l \in Seq(Handlers), Distinct(l), NEW h \in Handlers, h \notin Range(l)
    PROVE  /\ Append(l, h) \in Seq(Handlers) /\ Distinct(Append(l, h))
           /\ Range(Append(l, h)) = Range(l) \cup {h}
<1>1. /\ Append(l, h) \in Seq(Handlers) /\ Len(Append(l, h)) = Len(l) + 1
      /\ \A j \in 1 .. Len(l) : Append(l, h)[j] = l[j]
      /\ Append(l, h)[Len(l) + 1] = h
    OBVIOUS
<1>2. Range(Append(l, h)) = Range(l) \cup {h}
    BY <1>1 DEF Range
<1>3. Distinct(Append(l, h))
    BY <1>1, <1>2, DistinctAppended
<1> QED BY <1>1, <1>2, <1>3
------------------------------------------------------------------------------
LEMMA InitHolds == IrqInit => IrqInv
<1> SUFFICES ASSUME IrqInit PROVE IrqInv
    OBVIOUS
<1>1. Distinct(irqs) /\ Sorted(irqs) /\ Distinct(ran)
    BY NoHandler DEF IrqInit
<1> QED BY <1>1 DEF IrqInit, IrqInv, ListInv, TrapInv

LEMMA RegisterStep ==
    ASSUME IrqInv, NEW h \in Handlers, Register(h)
    PROVE  /\ IrqInv' /\ Range(irqs') = Range(irqs) \cup {h}
<1>1. /\ irqs' = Inserted(irqs, h) /\ failed' = (failed \/ AssertFails(irqs, h))
      /\ h \notin Range(irqs) /\ ev = AnyEvent /\ ran = << >> /\ failed = FALSE
      /\ UNCHANGED <<ev, at, ran, next>>
    BY DEF Register, IrqInv, ListInv
<1>2. CASE irqs = << >>
    <2>1. h = Save /\ irqs' = <<h>> /\ ~AssertFails(irqs, h)
        <3>1. h = Save \/ h = Schedule \/ Schedule \in Range(irqs)
            BY DEF Register
        <3>2. Range(irqs) = {}
            BY <1>2 DEF Range
        <3>3. h # Schedule
            BY <1>2, HandlerTypes DEF Register
        <3> QED BY <1>1, <1>2, <3>1, <3>2, <3>3 DEF Inserted, AssertFails
    <2>2. /\ irqs' \in Seq(Handlers) /\ Distinct(irqs') /\ Sorted(irqs')
          /\ Range(irqs') = Range(irqs) \cup {h}
        BY <1>2, <2>1, NoHandler, OneHandler
    <2> QED BY <1>1, <1>2, <2>1, <2>2 DEF IrqInv, ListInv, TrapInv
<1>3. CASE irqs = <<Save>>
    <2>1. h = Schedule
        <3>1. Range(irqs) = {Save}
            BY <1>3 DEF Range
        <3> QED BY <1>1, <1>3, <3>1, HandlerTypes DEF Register
    <2>2. irqs # << >> /\ Len(irqs) = 1 /\ irqs \in Seq(Handlers)
        BY <1>3, HandlerTypes
    <2>3. Stop(irqs, h.seq) = 1
        <3>1. h.seq \in Int
            BY HandlerTypes
        <3>2. Stop(irqs, h.seq) \in 1 .. Len(irqs)
            BY <2>2, <3>1, StopIsFirst
        <3> QED BY <2>2, <3>2
    <2>4. irqs' = Append(irqs, h) /\ ~AssertFails(irqs, h)
        BY <1>1, <2>2, <2>3 DEF Inserted, AssertFails
    <2>5. /\ irqs' \in Seq(Handlers) /\ Distinct(irqs')
          /\ Range(irqs') = Range(irqs) \cup {h}
        BY <1>1, <2>2, <2>4, AppendedKeeps DEF IrqInv, ListInv
    <2>6. Len(irqs') = 2 /\ irqs'[1] = Save /\ irqs'[2] = Schedule
        BY <1>3, <2>1, <2>2, <2>4
    <2>7. Ready(irqs') /\ Sorted(irqs')
        BY <2>6, HandlerTypes DEF Ready, Sorted
    <2> QED BY <1>1, <2>4, <2>5, <2>7 DEF IrqInv, ListInv, TrapInv
<1>4. CASE Ready(irqs)
    <2>1. /\ irqs' \in Seq(Handlers) /\ Ready(irqs') /\ Sorted(irqs') /\ Distinct(irqs')
          /\ Range(irqs') = Range(irqs) \cup {h} /\ ~AssertFails(irqs, h)
        BY <1>1, <1>4, InsertedKeeps DEF IrqInv, ListInv
    <2> QED BY <1>1, <2>1 DEF IrqInv, ListInv, TrapInv
<1> QED BY <1>2, <1>3, <1>4 DEF IrqInv, ListInv

LEMMA TrapStep ==
    ASSUME IrqInv, NEW e \in Events, Trap(e)
    PROVE  IrqInv'
<1>1. /\ ev' = e /\ at' = 1 /\ ran' = << >> /\ Schedule \in Range(irqs)
      /\ irqs' = irqs /\ failed' = failed
    BY DEF Trap
<1>2. Ready(irqs)
    BY <1>1, HandlerTypes DEF IrqInv, ListInv, Range
<1>3. Distinct(ran') /\ Range(ran') = {} /\ ran' \in Seq(Handlers)
    BY <1>1, NoHandler
<1>4. Passed(at)' = {}
    BY <1>1 DEF Passed
<1>5. ListInv'
    BY <1>1 DEF IrqInv, ListInv
<1>6. TrapInv'
    <2>1. /\ Range(ran)' = {} /\ Distinct(ran)' /\ ran' = << >> /\ (at > 1)' = FALSE
          /\ (ran \in Seq(Handlers))' /\ (ev \in Events)'
        BY <1>1, <1>3
    <2>2. Ready(irqs)' /\ (Len(irqs) \in Nat)' /\ (Len(irqs) >= 2)'
        BY <1>1, <1>2 DEF IrqInv, ListInv, Ready
    <2>3. (at \in 1 .. Len(irqs) + 1)' /\ (at > Len(irqs))' = FALSE
        BY <1>1, <2>2
    <2> QED BY <1>4, <2>1, <2>2, <2>3 DEF TrapInv
<1> QED BY <1>5, <1>6 DEF IrqInv

\* What os_trap has called grows by the handler at ptr, if it is for the event.
LEMMA CalledGrows ==
    ASSUME NEW i \in 1 .. Len(irqs), irqs \in Seq(Handlers)
    PROVE  Passed(i + 1) = IF irqs[i].event \in {AnyEvent, ev} THEN Passed(i) \cup {irqs[i]}
                           ELSE Passed(i)
<1>1. 1 .. (i + 1) - 1 = (1 .. i - 1) \cup {i}
    OBVIOUS
<1> QED BY <1>1, Zenon DEF Passed

LEMMA ElementsDiffer ==
    ASSUME NEW l \in Seq(Handlers), Distinct(l)
    PROVE  \A i, j \in DOMAIN l : i # j => l[i] # l[j]
<1>1. DOMAIN l = 1 .. Len(l) /\ Len(l) \in Nat /\ IsFiniteSet(DOMAIN l)
    BY FS_Interval
<1>2. Cardinality(DOMAIN l) = Len(l)
    BY <1>1, FS_Interval
<1>3. l \in Surjection(DOMAIN l, Range(l))
    BY DEF Surjection, Range
<1>4. l \in Injection(DOMAIN l, Range(l))
    BY <1>1, <1>2, <1>3, FS_SurjSameCardinalityImpliesInj DEF Distinct
<1> QED BY <1>1, <1>4 DEF Injection, IsInjective

LEMMA DispatchStep ==
    ASSUME IrqInv, Dispatch
    PROVE  IrqInv'
<1> DEFINE h == irqs[at]
<1>1. /\ ev # AnyEvent /\ at \in 1 .. Len(irqs) /\ at' = at + 1
      /\ irqs' = irqs /\ failed' = failed /\ ev' = ev
      /\ irqs \in Seq(Handlers) /\ ran \in Seq(Handlers)
      /\ Ready(irqs) /\ Distinct(irqs) /\ Distinct(ran) /\ Range(ran) = Passed(at)
    BY DEF Dispatch, IrqInv, ListInv, TrapInv, Ready
<1>2. h \in Handlers /\ Len(irqs) \in Nat
    BY <1>1
<1>3. h \notin Range(ran)
    <2>1. \A j \in 1 .. at - 1 : irqs[j] # h
        BY <1>1, ElementsDiffer
    <2> QED BY <1>1, <2>1 DEF Passed
<1>4. Passed(at)' = IF h.event \in {AnyEvent, ev} THEN Passed(at) \cup {h} ELSE Passed(at)
    <2>1. Passed(at)' = Passed(at + 1)
        BY <1>1 DEF Passed
    <2> QED BY <1>1, <2>1, CalledGrows
<1>5. h = Schedule => h.event = AnyEvent /\ next' = Schedule.name
    BY <1>1, HandlerTypes DEF Dispatch, Returns, Schedule, Save
<1>6. at = Len(irqs) => h = Schedule
    BY <1>1 DEF Ready
<1>7. at = 1 => h = Save /\ h.event = AnyEvent /\ ran = << >>
    <2>1. at = 1 => Passed(at) = {}
        BY <1>1 DEF Passed
    <2>2. ASSUME ran # << >> PROVE Range(ran) # {}
        <3>0. ran \in Seq(Handlers)
            BY <1>1
        <3>1. 1 \in DOMAIN ran
            BY <2>2, <3>0
        <3> QED BY <3>1 DEF Range
    <2>3. irqs[1] = Save
        BY <1>1 DEF Ready
    <2>4. Save.event = AnyEvent
        BY DEF Save
    <2>5. Range(ran) = Passed(at)
        BY <1>1
    <2> QED BY <2>1, <2>2, <2>3, <2>4, <2>5
<1>8. ListInv'
    BY <1>1 DEF IrqInv, ListInv
<1>9. CASE h.event \in {AnyEvent, ev}
    <2>1. ran' = Append(ran, h)
        BY <1>1, <1>9 DEF Dispatch
    <2>2. /\ ran' \in Seq(Handlers) /\ Distinct(ran') /\ Range(ran') = Passed(at)'
        BY <1>1, <1>2, <1>3, <1>4, <1>9, <2>1, AppendedKeeps
    <2>3. ran' # << >> /\ ran'[1] = Save
        BY <1>1, <1>2, <1>7, <2>1 DEF IrqInv, TrapInv
    <2> QED BY <1>1, <1>2, <1>5, <1>6, <1>8, <2>2, <2>3 DEF IrqInv, TrapInv
<1>10. CASE h.event \notin {AnyEvent, ev}
    <2>1. ran' = ran /\ at # 1 /\ at # Len(irqs)
        BY <1>1, <1>5, <1>6, <1>7, <1>10 DEF Dispatch
    <2> QED BY <1>1, <1>2, <1>4, <1>8, <1>10, <2>1 DEF IrqInv, TrapInv
<1> QED BY <1>9, <1>10

LEMMA ReturnStep ==
    ASSUME IrqInv, TrapReturn
    PROVE  IrqInv'
<1>1. /\ ev # AnyEvent /\ at > Len(irqs) /\ ev' = AnyEvent
      /\ UNCHANGED <<irqs, failed, at, ran, next>>
    BY DEF TrapReturn
<1> QED BY <1>1 DEF IrqInv, ListInv, TrapInv

LEMMA StepHolds ==
    ASSUME IrqInv, [IrqNext]_irqVars
    PROVE  IrqInv'
<1>1. ASSUME NEW h \in Handlers, Register(h) PROVE IrqInv'
    BY <1>1, RegisterStep
<1>2. ASSUME NEW e \in Events, Trap(e) PROVE IrqInv'
    BY <1>2, TrapStep
<1>3. CASE Dispatch
    BY <1>3, DispatchStep
<1>4. CASE TrapReturn
    BY <1>4, ReturnStep
<1>5. CASE UNCHANGED irqVars
    BY <1>5 DEF irqVars, IrqInv, ListInv, TrapInv, Passed
<1> QED BY <1>1, <1>2, <1>3, <1>4, <1>5 DEF IrqNext
------------------------------------------------------------------------------
\* IrqInv holds throughout.
THEOREM IrqInvariant == IrqSpec => []IrqInv
<1>1. IrqInit => IrqInv
    BY InitHolds
<1>2. IrqInv /\ [IrqNext]_irqVars => IrqInv'
    BY StepHolds
<1> QED BY <1>1, <1>2, PTL DEF IrqSpec

\* on_irq keeps the list ordered by seq, whatever is registered and in which order.
THEOREM OrderedTheorem == IrqSpec => []Ordered
<1>1. IrqInv => Ordered
    BY DEF IrqInv, ListInv, Sorted, Ordered
<1> QED BY <1>1, IrqInvariant, PTL

\* The assertion of on_irq never fails.
THEOREM HeadAssertTheorem == IrqSpec => []HeadAssert
<1>1. IrqInv => HeadAssert
    BY DEF IrqInv, ListInv, HeadAssert
<1> QED BY <1>1, IrqInvariant, PTL

\* No registration drops a handler or puts one in twice.
THEOREM NoneLostTheorem == IrqSpec => NoneLost
<1>1. IrqInv /\ [IrqNext]_irqVars =>
        [/\ Range(irqs) \subseteq Range(irqs')
         /\ Len(irqs') = Cardinality(Range(irqs'))]_irqVars
    <2> SUFFICES ASSUME IrqInv, IrqNext
                 PROVE  /\ Range(irqs) \subseteq Range(irqs')
                        /\ Len(irqs') = Cardinality(Range(irqs'))
        OBVIOUS
    <2>1. IrqInv'
        BY StepHolds
    <2>2. Len(irqs') = Cardinality(Range(irqs'))
        BY <2>1 DEF IrqInv, ListInv, Distinct
    <2>3. Range(irqs) \subseteq Range(irqs')
        <3>1. ASSUME NEW h \in Handlers, Register(h) PROVE Range(irqs) \subseteq Range(irqs')
            BY <3>1, RegisterStep
        <3>2. (\E h \in Handlers : Register(h)) \/ irqs' = irqs
            BY DEF IrqNext, Trap, Dispatch, TrapReturn
        <3> QED BY <3>1, <3>2
    <2> QED BY <2>2, <2>3
<1> QED BY <1>1, IrqInvariant, PTL DEF IrqSpec, NoneLost

\* The interrupted context is saved before anything else.
THEOREM SaveFirstTheorem == IrqSpec => []SaveFirst
<1>1. IrqInv => SaveFirst
    BY DEF IrqInv, TrapInv, SaveFirst
<1> QED BY <1>1, IrqInvariant, PTL

\* A trap calls each handler of its event once and returns the scheduler's context.
THEOREM ScheduleDecidesTheorem == IrqSpec => []ScheduleDecides
<1>1. IrqInv => ScheduleDecides
    <2> SUFFICES ASSUME IrqInv, ev # AnyEvent, at > Len(irqs)
                 PROVE  /\ Range(ran) = {h \in Range(irqs) : h.event \in {AnyEvent, ev}}
                        /\ Len(ran) = Cardinality(Range(ran)) /\ next = Schedule.name
        BY DEF ScheduleDecides
    <2>1. /\ at = Len(irqs) + 1 /\ Len(irqs) \in Nat /\ Range(ran) = Passed(at)
          /\ Distinct(ran) /\ next = Schedule.name /\ irqs \in Seq(Handlers)
        BY DEF IrqInv, ListInv, TrapInv
    <2>2. 1 .. at - 1 = DOMAIN irqs
        BY <2>1
    <2>3. Passed(at) = {h \in Range(irqs) : h.event \in {AnyEvent, ev}}
        BY <2>2 DEF Passed, Range
    <2> QED BY <2>1, <2>3 DEF Distinct
<1> QED BY <1>1, IrqInvariant, PTL

\* A trap saves first and ends with the choice of the scheduler, for every set of handlers.
THEOREM TrapTheorem == IrqSpec => []TrapOrder
<1> QED BY SaveFirstTheorem, ScheduleDecidesTheorem, PTL DEF TrapOrder
------------------------------------------------------------------------------
(***************************************************************************)
(* X86Vme                                                                  *)
(***************************************************************************)
Pages == Tables \cup Spaces \cup {Kernel}
Memories == [Pages -> [Index -> Entries]]
UserLeaves == {Absent, UserEntry(TRUE), UserEntry(FALSE)}

\* The address spaces in use and the kernel's, as far as they have a top level.
Roots(m, L) == {r \in L \cup {Kernel} : m[r][0].p}

\* The entries of its top level that belong to an address space itself.
Own(m, r) == {i \in Index : m[TopIn(m, r)][i].p /\ (i \in KernelTop <=> r = Kernel)}
Sub(m, r, i) == m[TopIn(m, r)][i].to

Flags(r) == IF r = Kernel THEN KernelFlags ELSE UserFlags

\* Where the tables in use are: tops first.
TopsOk(m, f, L) ==
    /\ \A r \in L : m[r][0].p
    /\ \A r \in Roots(m, L) : TopIn(m, r) \in Tables \ f /\ (m[r][0].u <=> r # Kernel)
    /\ \A r \in Spaces \cup {Kernel}, i \in Index \ {0} : ~m[r][i].p

SubsOk(m, f, L) ==
    \A r \in Roots(m, L) : \A i \in Own(m, r) :
        Sub(m, r, i) \in Tables \ f /\ m[TopIn(m, r)][i] = Link(Flags(r), Sub(m, r, i))

\* Every table in use hangs in one place.
Apart(m, L) ==
    /\ \A r, q \in Roots(m, L) : TopIn(m, r) = TopIn(m, q) => r = q
    /\ \A r, q \in Roots(m, L) : \A i \in Own(m, r) : Sub(m, r, i) # TopIn(m, q)
    /\ \A r, q \in Roots(m, L) : \A i \in Own(m, r), j \in Own(m, q) :
          Sub(m, r, i) = Sub(m, q, j) => r = q /\ i = j

Reached(m, f, L) ==
    \A t \in Tables \ f : \E r \in Roots(m, L) :
        t = TopIn(m, r) \/ \E i \in Own(m, r) : t = Sub(m, r, i)

\* Every space has the kernel's entries, and the kernel no others.
KernelShared(m, L) ==
    /\ \A s \in L, i \in KernelTop : m[TopIn(m, s)][i] = m[TopIn(m, Kernel)][i]
    /\ m[Kernel][0].p => \A i \in Index \ KernelTop : ~m[TopIn(m, Kernel)][i].p

LeavesOk(m, L, um) ==
    /\ \A s \in L : \A i \in Own(m, s), j \in Index : m[Sub(m, s, i)][j] \in UserLeaves
    /\ \A k \in KernelPaths \ um :
          /\ Kernel \in Roots(m, L) /\ k[2] \in Own(m, Kernel)
          /\ m[Sub(m, Kernel, k[2])][k[3]] = KernelEntry(k)

Shape(m, f, L, um) ==
    /\ m \in Memories /\ f \subseteq Tables /\ L \subseteq Spaces /\ um \subseteq KernelPaths
    /\ L # {} => um = {}
    /\ TopsOk(m, f, L) /\ SubsOk(m, f, L) /\ Apart(m, L) /\ Reached(m, f, L)
    /\ KernelShared(m, L) /\ LeavesOk(m, L, um)

\* m and n have the same tops and the same translations.
SameLeaves(m, n, L) ==
    \A r \in Roots(m, L) :
        /\ r \in Roots(n, L) /\ TopIn(n, r) = TopIn(m, r)
        /\ \A q \in {0} \X Index \X Index : Leaf(n, TopIn(m, r), q) = Leaf(m, TopIn(m, r), q)
------------------------------------------------------------------------------
LEMMA Basics ==
    /\ Spaces \cap Tables = {} /\ Kernel \notin Spaces /\ Kernel \notin Tables
    /\ 0 \notin Tables /\ 0 \notin Spaces /\ 0 # Kernel
    /\ 0 \in Index /\ KernelTop \subseteq Index /\ KernelPaths # {}
    /\ \A p \in Paths : p[2] \in Index /\ p[3] \in Index /\ p[1] = 0 /\ p \in {0} \X Index \X Index
    /\ \A p \in UserPaths : p[2] \notin KernelTop /\ p \in Paths
    /\ \A p \in KernelPaths : p[2] \in KernelTop /\ p \in Paths
    /\ Absent \in Entries /\ Zero \in [Index -> Entries]
    /\ \A t \in Tables, r \in Spaces \cup {Kernel} : Link(Flags(r), t) \in Entries
    /\ \A w \in BOOLEAN : UserEntry(w) \in Entries /\ UserEntry(w) \in UserLeaves
    /\ \A k \in KernelPaths : KernelEntry(k) \in Entries
<1>1. \A p \in Paths : p[2] \in Index /\ p[3] \in Index /\ p[1] = 0 /\ p \in {0} \X Index \X Index
    BY VmeAssumption
<1>2. \A p \in UserPaths : p[2] \notin KernelTop /\ p \in Paths
    BY VmeAssumption DEF KernelTop, Paths
<1>3. \A p \in KernelPaths : p[2] \in KernelTop /\ p \in Paths
    BY DEF KernelTop, Paths
<1>4. KernelTop \subseteq Index
    BY <1>1 DEF KernelTop, Paths
<1>5. Absent \in Entries /\ Zero \in [Index -> Entries]
    BY DEF Absent, Entries, Zero
<1>6. \A t \in Tables, r \in Spaces \cup {Kernel} : Link(Flags(r), t) \in Entries
    BY DEF Link, Entries
<1>7. \A w \in BOOLEAN : UserEntry(w) \in Entries /\ UserEntry(w) \in UserLeaves
    BY DEF UserEntry, Entries, UserLeaves
<1>8. \A k \in KernelPaths : KernelEntry(k) \in Entries
    BY DEF KernelEntry, Entries
<1> QED BY <1>1, <1>2, <1>3, <1>4, <1>5, <1>6, <1>7, <1>8, VmeAssumption

LEMMA LinkFields ==
    ASSUME NEW r, NEW t
    PROVE  /\ Link(Flags(r), t).p /\ Link(Flags(r), t).w /\ Link(Flags(r), t).to = t
           /\ (Link(Flags(r), t).u <=> r # Kernel)
<1>1. CASE r = Kernel
    BY <1>1 DEF Link, Flags, KernelFlags
<1>2. CASE r # Kernel
    BY <1>2 DEF Link, Flags, UserFlags
<1> QED BY <1>1, <1>2

LEMMA ShapeFacts ==
    ASSUME NEW m, NEW f, NEW L, NEW um, Shape(m, f, L, um)
    PROVE  /\ L \subseteq Roots(m, L)
           /\ \A r \in Roots(m, L) : /\ r \in Spaces \cup {Kernel} /\ r \in Pages /\ m[r][0].p
                                     /\ TopIn(m, r) \in Tables \ f /\ TopIn(m, r) \in Pages
           /\ \A r \in Roots(m, L) : \A i \in Own(m, r) :
                 i \in Index /\ Sub(m, r, i) \in Tables \ f /\ Sub(m, r, i) \in Pages
           /\ um = {} => Kernel \in Roots(m, L) /\ \A i \in KernelTop : i \in Own(m, Kernel)
<1>1. L \subseteq Roots(m, L)
    BY DEF Shape, TopsOk, Roots
<1>2. ASSUME NEW r \in Roots(m, L)
      PROVE  /\ r \in Spaces \cup {Kernel} /\ r \in Pages /\ m[r][0].p
             /\ TopIn(m, r) \in Tables \ f /\ TopIn(m, r) \in Pages
    BY DEF Shape, TopsOk, Roots, Pages
<1>3. ASSUME NEW r \in Roots(m, L), NEW i \in Own(m, r)
      PROVE  i \in Index /\ Sub(m, r, i) \in Tables \ f /\ Sub(m, r, i) \in Pages
    BY DEF Shape, SubsOk, Own, Pages
<1>4. ASSUME um = {}
      PROVE  Kernel \in Roots(m, L) /\ \A i \in KernelTop : i \in Own(m, Kernel)
    <2>1. \A k \in KernelPaths : Kernel \in Roots(m, L) /\ k[2] \in Own(m, Kernel)
        BY <1>4 DEF Shape, LeavesOk
    <2> QED BY <2>1, Basics DEF KernelTop
<1> QED BY <1>1, <1>2, <1>3, <1>4

\* A translation goes through an entry of the space's own or of the kernel's.
LEMMA TopEntry ==
    ASSUME NEW m, NEW f, NEW L, NEW um, Shape(m, f, L, um),
           NEW r \in Roots(m, L), NEW i \in Index, m[TopIn(m, r)][i].p
    PROVE  \/ i \in Own(m, r)
           \/ /\ r \in L /\ r # Kernel /\ i \in KernelTop /\ um = {}
              /\ Kernel \in Roots(m, L) /\ i \in Own(m, Kernel)
              /\ m[TopIn(m, r)][i] = m[TopIn(m, Kernel)][i]
<1>1. r \in L \/ r = Kernel
    BY DEF Roots
<1>2. CASE r = Kernel
    BY <1>2, ShapeFacts DEF Shape, KernelShared, Own
<1>3. CASE r \in L /\ r # Kernel /\ i \notin KernelTop
    BY <1>3 DEF Own
<1>4. CASE r \in L /\ r # Kernel /\ i \in KernelTop
    BY <1>4, ShapeFacts DEF Shape, KernelShared
<1> QED BY <1>1, <1>2, <1>3, <1>4

\* A new table is hung into the top level of r.
LEMMA HangSub ==
    ASSUME NEW m, NEW f, NEW L, NEW um, Shape(m, f, L, um),
           NEW r \in Roots(m, L), NEW i \in Index, ~m[TopIn(m, r)][i].p,
           i \in KernelTop <=> r = Kernel, r = Kernel => L = {}, NEW g \in f
    PROVE  LET n == Hang(m, TopIn(m, r), i, Flags(r), g)
           IN  /\ Shape(n, f \ {g}, L, um) /\ SameLeaves(m, n, L)
               /\ r \in Roots(n, L) /\ i \in Own(n, r) /\ Sub(n, r, i) = g
<1> DEFINE T == TopIn(m, r)
           n == Hang(m, T, i, Flags(r), g)
<1>1. g \in Tables /\ g # T /\ g \in Pages /\ T \in Pages /\ T \in Tables
    BY ShapeFacts DEF Shape, Pages
<1>2. n \in [Pages -> [Index -> Entries]]
    <2>1. Link(Flags(r), g) \in Entries
        BY <1>1, Basics, ShapeFacts
    <2> QED BY <1>1, <2>1, Basics DEF Shape, Memories, Hang
<1>3. /\ \A x \in Pages \ {g, T} : n[x] = m[x]
      /\ n[g] = Zero
      /\ \A j \in Index \ {i} : n[T][j] = m[T][j]
      /\ n[T][i] = Link(Flags(r), g)
    BY <1>1 DEF Shape, Memories, Hang
<1> HIDE DEF n, T
<1>4. \A q \in Spaces \cup {Kernel} : n[q] = m[q] /\ TopIn(n, q) = TopIn(m, q)
    BY <1>1, <1>3, Basics DEF TopIn, Pages
<1>5. Roots(n, L) = Roots(m, L)
    BY <1>4 DEF Roots, Shape
<1>6. \A q \in Roots(m, L) : TopIn(m, q) # g /\ TopIn(m, q) \in Pages
    BY ShapeFacts
<1>7. \A q \in Roots(m, L) : q # r => TopIn(m, q) # T
    BY DEF Shape, Apart, T
<1>8. \A q \in Roots(m, L) : q # r => Own(n, q) = Own(m, q) /\ \A j \in Index : Sub(n, q, j) = Sub(m, q, j)
    BY <1>3, <1>4, <1>6, <1>7, ShapeFacts DEF Own, Sub
<1>9. /\ Own(n, r) = Own(m, r) \cup {i} /\ i \notin Own(m, r) /\ Sub(n, r, i) = g
      /\ \A j \in Index \ {i} : Sub(n, r, j) = Sub(m, r, j)
    <2>1. TopIn(n, r) = T
        BY <1>4, ShapeFacts DEF T
    <2> QED BY <2>1, <1>3, LinkFields DEF Own, Sub, T
<1>10. \A q \in Roots(m, L) : \A j \in Own(m, q) : Sub(m, q, j) # g /\ Sub(m, q, j) # T
    BY ShapeFacts DEF Shape, Apart, T
<1>11. TopsOk(n, f \ {g}, L)
    <2>1. \A q \in L : n[q][0].p
        BY <1>4 DEF Shape, TopsOk
    <2>2. \A q \in Roots(n, L) : TopIn(n, q) \in Tables \ (f \ {g}) /\ (n[q][0].u <=> q # Kernel)
        BY <1>4, <1>5, ShapeFacts DEF Shape, TopsOk
    <2>3. \A q \in Spaces \cup {Kernel}, j \in Index \ {0} : ~n[q][j].p
        BY <1>4 DEF Shape, TopsOk
    <2> QED BY <2>1, <2>2, <2>3 DEF TopsOk
<1>12. SubsOk(n, f \ {g}, L)
    <2>1. ASSUME NEW q \in Roots(n, L), NEW j \in Own(n, q)
          PROVE  Sub(n, q, j) \in Tables \ (f \ {g}) /\ n[TopIn(n, q)][j] = Link(Flags(q), Sub(n, q, j))
        <3>1. q \in Roots(m, L) /\ TopIn(n, q) = TopIn(m, q) /\ j \in Index
            BY <2>1, <1>4, <1>5, ShapeFacts DEF Own
        <3>2. CASE q # r
            <4>1. j \in Own(m, q) /\ Sub(n, q, j) = Sub(m, q, j)
                BY <3>1, <3>2, <2>1, <1>8
            <4>2. Sub(m, q, j) \in Tables \ f /\ m[TopIn(m, q)][j] = Link(Flags(q), Sub(m, q, j))
                BY <4>1, <3>1 DEF Shape, SubsOk
            <4>3. n[TopIn(m, q)] = m[TopIn(m, q)]
                BY <3>1, <3>2, <1>3, <1>6, <1>7
            <4> QED BY <3>1, <4>1, <4>2, <4>3
        <3>3. CASE q = r /\ j = i
            BY <3>1, <3>3, <1>1, <1>3, <1>9 DEF T
        <3>4. CASE q = r /\ j # i
            <4>1. j \in Own(m, r) /\ Sub(n, r, j) = Sub(m, r, j)
                BY <3>1, <3>4, <2>1, <1>9
            <4>2. Sub(m, r, j) \in Tables \ f /\ m[T][j] = Link(Flags(r), Sub(m, r, j))
                BY <4>1, <3>1 DEF Shape, SubsOk, T
            <4>3. n[T][j] = m[T][j]
                BY <3>1, <3>4, <1>3
            <4> QED BY <3>1, <3>4, <4>1, <4>2, <4>3 DEF T
        <3> QED BY <3>2, <3>3, <3>4
    <2> QED BY <2>1 DEF SubsOk
\* What hangs where: as before, but for g.
<1>13. \A q \in Roots(n, L) : \A j \in Own(n, q) :
          /\ q \in Roots(m, L)
          /\ \/ j \in Own(m, q) /\ Sub(n, q, j) = Sub(m, q, j) /\ Sub(n, q, j) # g
             \/ q = r /\ j = i /\ Sub(n, q, j) = g
    <2>1. ASSUME NEW q \in Roots(n, L), NEW j \in Own(n, q)
          PROVE  /\ q \in Roots(m, L)
                 /\ \/ j \in Own(m, q) /\ Sub(n, q, j) = Sub(m, q, j) /\ Sub(n, q, j) # g
                    \/ q = r /\ j = i /\ Sub(n, q, j) = g
        <3>1. q \in Roots(m, L) /\ j \in Index
            BY <1>5 DEF Own
        <3>2. CASE q # r
            BY <3>1, <3>2, <1>8, <1>10
        <3>3. CASE q = r
            BY <3>1, <3>3, <1>9, <1>10
        <3> QED BY <3>2, <3>3
    <2> QED BY <2>1
<1>14. Apart(n, L)
    <2>1. \A p, q \in Roots(n, L) : TopIn(n, p) = TopIn(n, q) => p = q
        BY <1>4, <1>5, ShapeFacts DEF Shape, Apart
    <2>2. \A p, q \in Roots(n, L) : \A j \in Own(n, p) : Sub(n, p, j) # TopIn(n, q)
        BY <1>4, <1>5, <1>6, <1>13, ShapeFacts DEF Shape, Apart
    <2>3. \A p, q \in Roots(n, L) : \A j \in Own(n, p), k \in Own(n, q) :
              Sub(n, p, j) = Sub(n, q, k) => p = q /\ j = k
        BY <1>13 DEF Shape, Apart
    <2> QED BY <2>1, <2>2, <2>3 DEF Apart
<1>15. Reached(n, f \ {g}, L)
    <2>1. ASSUME NEW t \in Tables \ (f \ {g})
          PROVE  \E q \in Roots(n, L) : t = TopIn(n, q) \/ \E j \in Own(n, q) : t = Sub(n, q, j)
        <3>1. CASE t = g
            BY <3>1, <1>5, <1>9
        <3>2. CASE t # g
            <4>1. PICK q \in Roots(m, L) : t = TopIn(m, q) \/ \E j \in Own(m, q) : t = Sub(m, q, j)
                BY <3>2, <2>1 DEF Shape, Reached
            <4>2. CASE t = TopIn(m, q)
                BY <4>1, <4>2, <1>4, <1>5, ShapeFacts
            <4>3. CASE \E j \in Own(m, q) : t = Sub(m, q, j)
                <5>1. PICK j \in Own(m, q) : t = Sub(m, q, j)
                    BY <4>3
                <5>2. j \in Own(n, q) /\ Sub(n, q, j) = Sub(m, q, j)
                    BY <5>1, <1>8, <1>9, ShapeFacts
                <5> QED BY <4>1, <5>1, <5>2, <1>5
            <4> QED BY <4>1, <4>2, <4>3
        <3> QED BY <3>1, <3>2
    <2> QED BY <2>1 DEF Reached
<1>16. KernelShared(n, L)
    <2>1. ASSUME NEW s \in L, NEW j \in KernelTop
          PROVE  n[TopIn(n, s)][j] = n[TopIn(n, Kernel)][j]
        <3>1. r # Kernel /\ i \notin KernelTop /\ um = {} /\ s \in Roots(m, L) /\ Kernel \in Roots(m, L)
            BY <2>1, ShapeFacts DEF Shape
        <3>2. j # i /\ j \in Index
            BY <3>1, <2>1, Basics
        <3>3. \A q \in Roots(m, L) : n[TopIn(n, q)][j] = m[TopIn(m, q)][j]
            BY <3>2, <1>3, <1>4, <1>6, <1>7, ShapeFacts
        <3> QED BY <2>1, <3>1, <3>3 DEF Shape, KernelShared
    <2>2. ASSUME n[Kernel][0].p, NEW j \in Index \ KernelTop
          PROVE  ~n[TopIn(n, Kernel)][j].p
        <3>1. Kernel \in Roots(m, L) /\ m[Kernel][0].p
            BY <2>2, <1>4 DEF Roots
        <3>2. ~m[TopIn(m, Kernel)][j].p
            BY <2>2, <3>1 DEF Shape, KernelShared
        <3>3. CASE r = Kernel
            BY <3>1, <3>2, <3>3, <1>3, <1>4, <2>2 DEF T
        <3>4. CASE r # Kernel
            BY <3>1, <3>2, <3>4, <1>3, <1>4, <1>6, <1>7
        <3> QED BY <3>3, <3>4
    <2> QED BY <2>1, <2>2 DEF KernelShared
<1>17. LeavesOk(n, L, um)
    <2>1. ASSUME NEW s \in L, NEW j \in Own(n, s), NEW k \in Index
          PROVE  n[Sub(n, s, j)][k] \in UserLeaves
        <3>1. s \in Roots(n, L)
            BY <1>5, ShapeFacts
        <3>2. CASE j \in Own(m, s) /\ Sub(n, s, j) = Sub(m, s, j)
            <4>1. n[Sub(m, s, j)] = m[Sub(m, s, j)]
                BY <3>2, <1>3, <1>10, ShapeFacts
            <4> QED BY <3>2, <4>1 DEF Shape, LeavesOk
        <3>3. CASE Sub(n, s, j) = g
            BY <3>3, <1>3 DEF Zero, UserLeaves
        <3> QED BY <3>1, <3>2, <3>3, <1>13
    <2>2. ASSUME NEW k \in KernelPaths \ um
          PROVE  /\ Kernel \in Roots(n, L) /\ k[2] \in Own(n, Kernel)
                 /\ n[Sub(n, Kernel, k[2])][k[3]] = KernelEntry(k)
        <3>1. /\ Kernel \in Roots(m, L) /\ k[2] \in Own(m, Kernel)
              /\ m[Sub(m, Kernel, k[2])][k[3]] = KernelEntry(k)
            BY DEF Shape, LeavesOk
        <3>2. k[2] \in Own(n, Kernel) /\ Sub(n, Kernel, k[2]) = Sub(m, Kernel, k[2])
            BY <3>1, <1>8, <1>9, ShapeFacts
        <3>3. n[Sub(m, Kernel, k[2])] = m[Sub(m, Kernel, k[2])]
            BY <3>1, <1>3, <1>10, ShapeFacts
        <3> QED BY <3>1, <3>2, <3>3, <1>5
    <2> QED BY <2>1, <2>2 DEF LeavesOk
<1>18. SameLeaves(m, n, L)
    <2>1. ASSUME NEW q \in Roots(m, L), NEW w \in {0} \X Index \X Index
          PROVE  Leaf(n, TopIn(m, q), w) = Leaf(m, TopIn(m, q), w)
        <3> DEFINE e == m[TopIn(m, q)][w[2]]
        <3>1. w[2] \in Index /\ w[3] \in Index
            BY <2>1
        <3>2. CASE q = r /\ w[2] = i
            <4>1. n[T][i].p /\ n[T][i].to = g /\ ~n[g][w[3]].p
                BY <3>1, <1>3, LinkFields DEF Zero, Absent
            <4>2. Leaf(n, T, w) = Absent
                BY <3>2, <4>1 DEF Leaf
            <4>3. Leaf(m, T, w) = Absent
                BY <3>2 DEF Leaf, T
            <4> QED BY <3>2, <4>2, <4>3 DEF T
        <3>3. CASE ~(q = r /\ w[2] = i)
            <4>1. n[TopIn(m, q)][w[2]] = e
                BY <3>1, <3>3, <1>3, <1>6, <1>7 DEF T
            <4>2. CASE ~e.p
                BY <4>1, <4>2 DEF Leaf
            <4>3. CASE e.p
                <5>1. \E b \in Roots(m, L) : \E j \in Own(m, b) : e.to = Sub(m, b, j)
                    BY <3>1, <4>3, TopEntry DEF Sub
                <5>2. n[e.to] = m[e.to]
                    BY <5>1, <1>3, <1>10, ShapeFacts
                <5> QED BY <4>1, <4>3, <5>2 DEF Leaf
            <4> QED BY <4>2, <4>3
        <3> QED BY <3>2, <3>3
    <2> QED BY <2>1, <1>4, <1>5, ShapeFacts DEF SameLeaves
<1>19. Shape(n, f \ {g}, L, um)
    BY <1>2, <1>11, <1>12, <1>14, <1>15, <1>16, <1>17 DEF Shape, Memories
<1> QED BY <1>5, <1>9, <1>18, <1>19 DEF n, T

\* The kernel's top level is made.
LEMMA HangTop ==
    ASSUME NEW m, NEW f, NEW um, Shape(m, f, {}, um), ~m[Kernel][0].p, NEW g \in f
    PROVE  LET n == Hang(m, Kernel, 0, KernelFlags, g)
           IN  /\ Shape(n, f \ {g}, {}, um) /\ Kernel \in Roots(n, {}) /\ TopIn(n, Kernel) = g
               /\ \A j \in Index : ~n[g][j].p
<1> DEFINE n == Hang(m, Kernel, 0, KernelFlags, g)
<1>1. g \in Tables /\ g # Kernel /\ g \in Pages /\ Kernel \in Pages /\ 0 \in Index
    BY Basics DEF Shape, Pages
<1>2. n \in [Pages -> [Index -> Entries]]
    <2>1. Link(KernelFlags, g) \in Entries
        BY <1>1, Basics DEF Flags
    <2> QED BY <1>1, <2>1, Basics DEF Shape, Memories, Hang
<1>3. /\ \A x \in Pages \ {g, Kernel} : n[x] = m[x]
      /\ n[g] = Zero
      /\ \A j \in Index \ {0} : n[Kernel][j] = m[Kernel][j]
      /\ n[Kernel][0] = Link(KernelFlags, g)
    BY <1>1 DEF Shape, Memories, Hang
<1> HIDE DEF n
<1>4. TopIn(n, Kernel) = g /\ Roots(n, {}) = {Kernel} /\ n[Kernel][0].p /\ ~n[Kernel][0].u
    <2>1. n[Kernel][0] = Link(Flags(Kernel), g)
        BY <1>3 DEF Flags
    <2> QED BY <2>1, LinkFields DEF TopIn, Roots
<1>5. Own(n, Kernel) = {} /\ \A j \in Index : ~n[g][j].p
    BY <1>3, <1>4 DEF Own, Zero, Absent
<1>6. Roots(m, {}) = {}
    BY DEF Roots
<1>7. Tables \ f = {} /\ KernelPaths \ um = {}
    BY <1>6 DEF Shape, Reached, LeavesOk
<1>8. TopsOk(n, f \ {g}, {})
    <2>1. \A q \in Spaces \cup {Kernel}, j \in Index \ {0} : ~n[q][j].p
        BY <1>1, <1>3, Basics DEF Shape, TopsOk, Pages
    <2>2. \A q \in Roots(n, {}) : TopIn(n, q) \in Tables \ (f \ {g})
        BY <1>1, <1>4
    <2>3. \A q \in Roots(n, {}) : n[q][0].u <=> q # Kernel
        <3>1. ~n[Kernel][0].u
            BY <1>4
        <3> QED BY <1>4, <3>1
    <2> QED BY <2>1, <2>2, <2>3 DEF TopsOk
<1>9. SubsOk(n, f \ {g}, {}) /\ Apart(n, {}) /\ Reached(n, f \ {g}, {})
    BY <1>4, <1>5, <1>7 DEF SubsOk, Apart, Reached
<1>10. KernelShared(n, {}) /\ LeavesOk(n, {}, um)
    BY <1>4, <1>5, <1>7 DEF KernelShared, LeavesOk
<1> QED BY <1>2, <1>4, <1>5, <1>8, <1>9, <1>10 DEF Shape, Memories, n

\* An entry that may be set at i, j below r, and what is left unmade then.
Fits(r, i, j, e, um, vm) ==
    /\ vm \subseteq um /\ \A k \in um \ vm : k[2] = i /\ k[3] = j
    /\ r # Kernel => e \in UserLeaves /\ vm = um
    /\ r = Kernel => \A k \in KernelPaths \ vm : k[2] = i /\ k[3] = j => e = KernelEntry(k)

\* An entry of a last table is set, one of the kernel's only for the page it is for.
LEMMA SetLeaf ==
    ASSUME NEW m, NEW f, NEW L, NEW um, Shape(m, f, L, um),
           NEW r \in Roots(m, L), NEW i \in Own(m, r), NEW j \in Index, NEW e \in Entries,
           NEW vm, Fits(r, i, j, e, um, vm)
    PROVE  LET n == [m EXCEPT ![Sub(m, r, i)][j] = e]
           IN  /\ Shape(n, f, L, vm)
               /\ \A q \in Roots(m, L) : /\ q \in Roots(n, L) /\ TopIn(n, q) = TopIn(m, q)
                                         /\ Own(n, q) = Own(m, q)
               /\ \A q \in Roots(m, L), w \in {0} \X Index \X Index :
                     r # Kernel =>
                        Leaf(n, TopIn(m, q), w) = IF q = r /\ w[2] = i /\ w[3] = j THEN e
                                                  ELSE Leaf(m, TopIn(m, q), w)
<1> DEFINE S == Sub(m, r, i)
           n == [m EXCEPT ![S][j] = e]
<1>0. /\ vm \subseteq um /\ \A k \in um \ vm : k[2] = i /\ k[3] = j
      /\ r # Kernel => e \in UserLeaves /\ vm = um
      /\ r = Kernel => \A k \in KernelPaths \ vm : k[2] = i /\ k[3] = j => e = KernelEntry(k)
    BY DEF Fits
<1>1. i \in Index /\ S \in Tables \ f /\ S \in Pages
    BY ShapeFacts
<1>2. n \in [Pages -> [Index -> Entries]]
    BY <1>1 DEF Shape, Memories
<1>3. /\ \A x \in Pages \ {S} : n[x] = m[x]
      /\ \A k \in Index \ {j} : n[S][k] = m[S][k]
      /\ n[S][j] = e
    BY <1>1 DEF Shape, Memories
<1> HIDE DEF n, S
<1>4. \A q \in Spaces \cup {Kernel} : n[q] = m[q] /\ TopIn(n, q) = TopIn(m, q)
    BY <1>1, <1>3, Basics DEF TopIn, Pages
<1>5. Roots(n, L) = Roots(m, L)
    BY <1>4 DEF Roots, Shape
<1>6. \A q \in Roots(m, L) : TopIn(m, q) # S
    BY DEF Shape, Apart, S
<1>7. \A q \in Roots(m, L) : n[TopIn(m, q)] = m[TopIn(m, q)] /\ TopIn(n, q) = TopIn(m, q)
    BY <1>3, <1>4, <1>6, ShapeFacts
<1>8. \A q \in Roots(m, L) : Own(n, q) = Own(m, q) /\ \A k \in Index : Sub(n, q, k) = Sub(m, q, k)
    BY <1>7 DEF Own, Sub
<1>9. \A q \in Roots(m, L) : \A k \in Own(m, q) : Sub(m, q, k) = S => q = r /\ k = i
    BY DEF Shape, Apart, S
<1>10. TopsOk(n, f, L)
    <2>1. \A q \in L : q \in Spaces
        BY DEF Shape
    <2> QED BY <2>1, <1>4, <1>5, ShapeFacts DEF Shape, TopsOk
<1>11. SubsOk(n, f, L) /\ Apart(n, L) /\ Reached(n, f, L)
    <2>1. SubsOk(n, f, L)
        BY <1>5, <1>7, <1>8, ShapeFacts DEF Shape, SubsOk
    <2>2. Apart(n, L)
        BY <1>5, <1>7, <1>8, ShapeFacts DEF Shape, Apart
    <2>3. Reached(n, f, L)
        BY <1>5, <1>7, <1>8, ShapeFacts DEF Shape, Reached
    <2> QED BY <2>1, <2>2, <2>3
<1>12. KernelShared(n, L)
    <2>1. \A s \in L : s \in Roots(m, L) /\ Kernel \in Roots(m, L)
        BY ShapeFacts DEF Shape
    <2>2. n[Kernel][0].p => Kernel \in Roots(m, L) /\ m[Kernel][0].p
        BY <1>4 DEF Roots
    <2> QED BY <1>7, <2>1, <2>2 DEF Shape, KernelShared
<1>13. LeavesOk(n, L, vm)
    <2>1. ASSUME NEW s \in L, NEW k \in Own(n, s), NEW x \in Index
          PROVE  n[Sub(n, s, k)][x] \in UserLeaves
        <3>1. s \in Roots(m, L) /\ k \in Own(m, s) /\ Sub(n, s, k) = Sub(m, s, k) /\ s # Kernel
            BY <1>8, ShapeFacts, Basics DEF Shape
        <3>2. m[Sub(m, s, k)][x] \in UserLeaves
            BY <3>1 DEF Shape, LeavesOk
        <3>3. CASE Sub(m, s, k) # S
            BY <3>1, <3>2, <3>3, <1>3, ShapeFacts
        <3>4. CASE Sub(m, s, k) = S
            BY <3>1, <3>2, <3>4, <1>0, <1>3, <1>9
        <3> QED BY <3>3, <3>4
    <2>2. ASSUME NEW k \in KernelPaths \ vm
          PROVE  /\ Kernel \in Roots(n, L) /\ k[2] \in Own(n, Kernel)
                 /\ n[Sub(n, Kernel, k[2])][k[3]] = KernelEntry(k)
        <3>1. k[3] \in Index /\ k[2] \in Index
            BY Basics
        <3>2. CASE k \notin um
            <4>1. /\ Kernel \in Roots(m, L) /\ k[2] \in Own(m, Kernel)
                  /\ m[Sub(m, Kernel, k[2])][k[3]] = KernelEntry(k)
                BY <3>2 DEF Shape, LeavesOk
            <4>2. Sub(n, Kernel, k[2]) = Sub(m, Kernel, k[2]) /\ k[2] \in Own(n, Kernel)
                BY <4>1, <3>1, <1>8
            <4>3. n[Sub(m, Kernel, k[2])][k[3]] = KernelEntry(k)
                <5>1. CASE Sub(m, Kernel, k[2]) # S
                    BY <4>1, <5>1, <1>3, ShapeFacts
                <5>2. CASE Sub(m, Kernel, k[2]) = S
                    BY <4>1, <5>2, <3>1, <1>0, <1>3, <1>9
                <5> QED BY <5>1, <5>2
            <4> QED BY <4>1, <4>2, <4>3, <1>5
        <3>3. CASE k \in um
            <4>1. k[2] = i /\ k[3] = j /\ r = Kernel
                BY <3>3, <1>0
            <4>2. e = KernelEntry(k)
                BY <4>1, <1>0
            <4> QED BY <4>1, <4>2, <1>1, <1>3, <1>5, <1>8 DEF S
        <3> QED BY <3>2, <3>3
    <2> QED BY <2>1, <2>2 DEF LeavesOk
<1>14. ASSUME NEW q \in Roots(m, L), NEW w \in {0} \X Index \X Index, r # Kernel
       PROVE  Leaf(n, TopIn(m, q), w) = IF q = r /\ w[2] = i /\ w[3] = j THEN e
                                        ELSE Leaf(m, TopIn(m, q), w)
    <2> DEFINE x == m[TopIn(m, q)][w[2]]
    <2>1. w[2] \in Index /\ w[3] \in Index
        OBVIOUS
    <2>2. n[TopIn(m, q)][w[2]] = x
        BY <1>7
    <2>3. CASE q = r /\ w[2] = i /\ w[3] = j
        <3>1. x = Link(Flags(r), S)
            BY <2>3, <1>14 DEF Shape, SubsOk, S, Flags
        <3>2. x.p /\ x.u /\ x.w /\ x.to = S
            BY <3>1, <1>14, LinkFields
        <3>3. n[x.to][w[3]] = e
            BY <2>3, <3>2, <1>3
        <3>4. ASSUME e = Absent PROVE Leaf(n, TopIn(m, q), w) = e
            <4>1. ~n[x.to][w[3]].p
                BY <3>3, <3>4 DEF Absent
            <4> QED BY <2>2, <3>4, <4>1 DEF Leaf
        <3>5. ASSUME NEW b \in BOOLEAN, e = UserEntry(b)
              PROVE  Leaf(n, TopIn(m, q), w) = e
            <4>1. /\ e.p /\ e.u /\ e.to = UserFrame /\ e.w = b
                  /\ e = [p |-> TRUE, u |-> TRUE, w |-> b, to |-> UserFrame]
                BY <3>5 DEF UserEntry
            <4>2. Leaf(n, TopIn(m, q), w) = [p |-> TRUE, u |-> x.u /\ e.u, w |-> x.w /\ e.w, to |-> e.to]
                BY <2>2, <3>2, <3>3, <4>1 DEF Leaf
            <4>3. (x.u /\ e.u) = TRUE /\ (x.w /\ e.w) = b
                BY <3>2, <4>1
            <4> QED BY <4>1, <4>2, <4>3
        <3>6. e = Absent \/ e = UserEntry(TRUE) \/ e = UserEntry(FALSE)
            BY <1>0, <1>14 DEF UserLeaves
        <3> QED BY <2>3, <3>4, <3>5, <3>6
    <2>4. CASE ~(q = r /\ w[2] = i /\ w[3] = j)
        <3>1. CASE ~x.p
            BY <2>2, <2>4, <3>1 DEF Leaf
        <3>2. CASE x.p
            <4>1. PICK b \in Roots(m, L) : \E k \in Own(m, b) : /\ k = w[2] /\ x.to = Sub(m, b, k)
                                                                /\ b = q \/ b = Kernel
                BY <2>1, <3>2, TopEntry DEF Sub
            <4>2. x.to = S => b = r /\ w[2] = i /\ b = q
                BY <4>1, <1>9, <1>14
            <4>3. x.to \in Pages
                BY <4>1, ShapeFacts
            <4>4. n[x.to][w[3]] = m[x.to][w[3]]
                BY <2>1, <2>4, <4>2, <4>3, <1>3
            <4> QED BY <2>2, <2>4, <3>2, <4>4 DEF Leaf
        <3> QED BY <3>1, <3>2
    <2> QED BY <2>3, <2>4
<1> QED
    <2>1. Shape(n, f, L, vm)
        BY <1>2, <1>10, <1>11, <1>12, <1>13, <1>0 DEF Shape, Memories
    <2> QED BY <2>1, <1>5, <1>7, <1>8, <1>14 DEF n, S
\* The entries of a new top level.
CopyOf(m) == [i \in Index |-> IF i \in KernelTop THEN m[TopIn(m, Kernel)][i] ELSE Absent]

\* An address space is protected.
LEMMA NewSpace ==
    ASSUME NEW m, NEW f, NEW L, Shape(m, f, L, {}), NEW s \in Spaces \ L, NEW g \in f
    PROVE  LET n == [m EXCEPT ![g] = CopyOf(m),
                       ![s][0] = [p |-> TRUE, u |-> TRUE, w |-> FALSE, to |-> g]]
           IN  /\ Shape(n, f \ {g}, L \cup {s}, {}) /\ SameLeaves(m, n, L)
               /\ TopIn(n, s) = g
               /\ \A i \in Index \ KernelTop : ~n[g][i].p
<1> DEFINE top == [p |-> TRUE, u |-> TRUE, w |-> FALSE, to |-> g]
           n == [m EXCEPT ![g] = CopyOf(m), ![s][0] = top]
           K == L \cup {s}
<1>1. /\ g \in Tables /\ g # s /\ g # Kernel /\ g \in Pages /\ s \in Pages /\ 0 \in Index
      /\ s # Kernel /\ s \notin Tables /\ s \in Spaces /\ g \in f /\ g \notin Spaces
    BY Basics DEF Shape, Pages
<1>2. Kernel \in Roots(m, L) /\ \A i \in KernelTop : i \in Own(m, Kernel)
    BY ShapeFacts
<1>3. CopyOf(m) \in [Index -> Entries]
    BY <1>2, ShapeFacts, Basics DEF CopyOf, Shape, Memories
<1>4. top \in Entries
    BY <1>1 DEF Entries
<1>5. n \in [Pages -> [Index -> Entries]]
    <2>1. m \in [Pages -> [Index -> Entries]]
        BY DEF Shape, Memories
    <2>2. [m[s] EXCEPT ![0] = top] \in [Index -> Entries]
        BY <1>1, <1>4, <2>1
    <2> HIDE DEF top
    <2> QED BY <1>1, <1>3, <2>1, <2>2
<1>6. /\ \A x \in Pages \ {g, s} : n[x] = m[x]
      /\ n[g] = CopyOf(m)
      /\ \A j \in Index \ {0} : n[s][j] = m[s][j]
      /\ n[s][0] = top
    <2> HIDE DEF top
    <2> QED BY <1>1 DEF Shape, Memories
<1>7. top.p /\ top.u /\ top.to = g
    OBVIOUS
<1> HIDE DEF n, top
<1>8. \A q \in Roots(m, L) : /\ q # s /\ q \in Pages /\ q # g /\ n[q] = m[q] /\ TopIn(n, q) = TopIn(m, q)
                             /\ TopIn(m, q) # g /\ TopIn(m, q) # s /\ TopIn(m, q) \in Pages
    <2>1. \A q \in Roots(m, L) : q # s /\ q \in Pages /\ q # g
        BY <1>1, ShapeFacts DEF Roots
    <2>2. \A q \in Roots(m, L) : n[q] = m[q] /\ TopIn(n, q) = TopIn(m, q)
        BY <2>1, <1>6 DEF TopIn
    <2>3. \A q \in Roots(m, L) : TopIn(m, q) \in Tables \ f /\ TopIn(m, q) \in Pages
        BY ShapeFacts
    <2> QED BY <2>1, <2>2, <2>3, <1>1
<1>9. TopIn(n, s) = g /\ n[s][0].p /\ n[s][0].u
    BY <1>6, <1>7 DEF TopIn
<1>10. Roots(n, K) = Roots(m, L) \cup {s}
    <2>1. ASSUME NEW q \in Roots(n, K) PROVE q \in Roots(m, L) \cup {s}
        <3>1. CASE q = s
            BY <3>1
        <3>2. CASE q # s
            <4>1. q \in L \cup {Kernel} /\ n[q][0].p
                BY <3>2 DEF Roots
            <4>2. q \in Pages \ {g, s}
                BY <3>2, <4>1, <1>1, Basics DEF Shape, Pages
            <4> QED BY <4>1, <4>2, <1>6 DEF Roots
        <3> QED BY <3>1, <3>2
    <2>2. ASSUME NEW q \in Roots(m, L) PROVE q \in Roots(n, K)
        BY <1>8 DEF Roots
    <2> QED BY <2>1, <2>2, <1>9 DEF Roots
<1>11. \A i \in Index : n[g][i] = IF i \in KernelTop THEN m[TopIn(m, Kernel)][i] ELSE Absent
    BY <1>6 DEF CopyOf
<1>12. Own(n, s) = {} /\ \A i \in Index \ KernelTop : ~n[g][i].p
    BY <1>1, <1>9, <1>11 DEF Own, Absent
<1>13. \A q \in Roots(m, L) : n[TopIn(n, q)] = m[TopIn(m, q)]
    BY <1>6, <1>8
<1>14. \A q \in Roots(m, L) : Own(n, q) = Own(m, q) /\ \A i \in Index : Sub(n, q, i) = Sub(m, q, i)
    BY <1>13 DEF Own, Sub
<1>15. \A q \in Roots(m, L) : \A i \in Own(m, q) : Sub(m, q, i) # g /\ Sub(m, q, i) # s /\ Sub(m, q, i) \in Pages
    <2>1. \A q \in Roots(m, L) : \A i \in Own(m, q) : Sub(m, q, i) \in Tables \ f /\ Sub(m, q, i) \in Pages
        BY ShapeFacts
    <2> QED BY <1>1, <2>1
<1>16. \A q \in Roots(n, K) : \A i \in Own(n, q) :
          q \in Roots(m, L) /\ i \in Own(m, q) /\ Sub(n, q, i) = Sub(m, q, i) /\ i \in Index
    BY <1>10, <1>12, <1>14, ShapeFacts
<1>17. TopsOk(n, f \ {g}, K)
    <2>1. \A q \in L : n[q][0].p
        BY <1>8, ShapeFacts DEF Shape, TopsOk
    <2>2. \A q \in Roots(n, K) : TopIn(n, q) \in Tables \ (f \ {g})
        BY <1>1, <1>8, <1>9, <1>10, ShapeFacts
    <2>3. \A q \in Roots(n, K) : n[q][0].u <=> q # Kernel
        <3>1. \A q \in Roots(m, L) : n[q][0].u <=> q # Kernel
            BY <1>8 DEF Shape, TopsOk
        <3>2. n[s][0].u <=> s # Kernel
            BY <1>1, <1>9
        <3> QED BY <3>1, <3>2, <1>10
    <2>4. \A q \in Spaces \cup {Kernel}, j \in Index \ {0} : ~n[q][j].p
        <3>1. \A q \in Spaces \cup {Kernel}, j \in Index \ {0} : n[q][j] = m[q][j]
            BY <1>1, <1>6 DEF Pages
        <3> QED BY <3>1 DEF Shape, TopsOk
    <2> QED BY <2>1, <2>2, <2>3, <2>4, <1>9 DEF TopsOk
<1>18. SubsOk(n, f \ {g}, K)
    BY <1>13, <1>16 DEF Shape, SubsOk
<1>19. Apart(n, K)
    <2>1. \A p, q \in Roots(n, K) : TopIn(n, p) = TopIn(n, q) => p = q
        BY <1>8, <1>9, <1>10 DEF Shape, Apart
    <2>2. ASSUME NEW p \in Roots(n, K), NEW q \in Roots(n, K), NEW j \in Own(n, p)
          PROVE  Sub(n, p, j) # TopIn(n, q)
        <3>1. p \in Roots(m, L) /\ j \in Own(m, p) /\ Sub(n, p, j) = Sub(m, p, j)
            BY <1>16
        <3>2. CASE q = s
            BY <3>1, <3>2, <1>9, <1>15
        <3>3. CASE q \in Roots(m, L)
            BY <3>1, <3>3, <1>8 DEF Shape, Apart
        <3> QED BY <3>2, <3>3, <1>10
    <2>3. \A p, q \in Roots(n, K) : \A j \in Own(n, p), k \in Own(n, q) :
              Sub(n, p, j) = Sub(n, q, k) => p = q /\ j = k
        BY <1>16 DEF Shape, Apart
    <2> QED BY <2>1, <2>2, <2>3 DEF Apart
<1>20. Reached(n, f \ {g}, K)
    <2>1. ASSUME NEW t \in Tables \ (f \ {g})
          PROVE  \E q \in Roots(n, K) : t = TopIn(n, q) \/ \E j \in Own(n, q) : t = Sub(n, q, j)
        <3>1. CASE t = g
            BY <3>1, <1>9, <1>10
        <3>2. CASE t # g
            <4>1. PICK q \in Roots(m, L) : t = TopIn(m, q) \/ \E j \in Own(m, q) : t = Sub(m, q, j)
                BY <3>2, <2>1 DEF Shape, Reached
            <4>2. q \in Roots(n, K) /\ TopIn(n, q) = TopIn(m, q) /\ Own(n, q) = Own(m, q)
                BY <4>1, <1>8, <1>10, <1>14
            <4>3. \A j \in Own(m, q) : Sub(n, q, j) = Sub(m, q, j)
                BY <4>1, <1>14, ShapeFacts
            <4> QED BY <4>1, <4>2, <4>3
        <3> QED BY <3>1, <3>2
    <2> QED BY <2>1 DEF Reached
<1>21. KernelShared(n, K)
    <2>1. ASSUME NEW q \in K, NEW i \in KernelTop
          PROVE  n[TopIn(n, q)][i] = n[TopIn(n, Kernel)][i]
        <3>1. n[TopIn(n, Kernel)][i] = m[TopIn(m, Kernel)][i] /\ i \in Index
            BY <1>2, <1>13, Basics
        <3>2. CASE q = s
            BY <3>1, <3>2, <1>9, <1>11
        <3>3. CASE q \in L
            BY <3>1, <3>3, <1>13, ShapeFacts DEF Shape, KernelShared
        <3> QED BY <3>2, <3>3
    <2>2. \A i \in Index \ KernelTop : ~n[TopIn(n, Kernel)][i].p
        BY <1>2, <1>13, ShapeFacts DEF Shape, KernelShared
    <2> QED BY <2>1, <2>2 DEF KernelShared
<1>22. LeavesOk(n, K, {})
    <2>1. ASSUME NEW q \in K, NEW i \in Own(n, q), NEW j \in Index
          PROVE  n[Sub(n, q, i)][j] \in UserLeaves
        <3>1. q \in L /\ q \in Roots(m, L) /\ i \in Own(m, q) /\ Sub(n, q, i) = Sub(m, q, i)
            BY <1>12, <1>14, ShapeFacts
        <3>2. n[Sub(m, q, i)] = m[Sub(m, q, i)]
            BY <3>1, <1>6, <1>15
        <3> QED BY <3>1, <3>2 DEF Shape, LeavesOk
    <2>2. ASSUME NEW k \in KernelPaths
          PROVE  /\ Kernel \in Roots(n, K) /\ k[2] \in Own(n, Kernel)
                 /\ n[Sub(n, Kernel, k[2])][k[3]] = KernelEntry(k)
        <3>1. k[2] \in Own(m, Kernel) /\ m[Sub(m, Kernel, k[2])][k[3]] = KernelEntry(k)
            BY DEF Shape, LeavesOk
        <3>2. k[2] \in Own(n, Kernel) /\ Sub(n, Kernel, k[2]) = Sub(m, Kernel, k[2])
            BY <3>1, <1>2, <1>14, ShapeFacts
        <3>3. n[Sub(m, Kernel, k[2])] = m[Sub(m, Kernel, k[2])]
            BY <3>1, <1>2, <1>6, <1>15
        <3> QED BY <3>1, <3>2, <3>3, <1>2, <1>10
    <2> QED BY <2>1, <2>2 DEF LeavesOk
<1>23. SameLeaves(m, n, L)
    <2>1. ASSUME NEW q \in Roots(m, L), NEW w \in {0} \X Index \X Index
          PROVE  Leaf(n, TopIn(m, q), w) = Leaf(m, TopIn(m, q), w)
        <3> DEFINE e == m[TopIn(m, q)][w[2]]
        <3>1. w[2] \in Index /\ n[TopIn(m, q)][w[2]] = e
            BY <1>8, <1>13
        <3>2. CASE ~e.p
            BY <3>1, <3>2 DEF Leaf
        <3>3. CASE e.p
            <4>1. \E b \in Roots(m, L) : \E j \in Own(m, b) : e.to = Sub(m, b, j)
                BY <3>1, <3>3, TopEntry DEF Sub
            <4>2. n[e.to] = m[e.to]
                BY <4>1, <1>6, <1>15
            <4> QED BY <3>1, <3>3, <4>2 DEF Leaf
        <3> QED BY <3>2, <3>3
    <2>2. \A q \in Roots(m, L) : q \in Roots(n, L)
        BY <1>8 DEF Roots
    <2> QED BY <2>1, <2>2, <1>8 DEF SameLeaves
<1>24. Shape(n, f \ {g}, K, {})
    BY <1>5, <1>17, <1>18, <1>19, <1>20, <1>21, <1>22 DEF Shape, Memories
<1> QED BY <1>9, <1>12, <1>23, <1>24 DEF n, top

\* teardown finds the tables of the address space, and not those of the kernel.
LEMMA TornDownIs ==
    ASSUME NEW m, NEW f, NEW L, NEW um, Shape(m, f, L, um), NEW s \in L
    PROVE  TornDown(m, s) = {TopIn(m, s)} \cup {Sub(m, s, i) : i \in Own(m, s)}
<1> DEFINE T == TopIn(m, s)
<1>1. s \in Roots(m, L) /\ s # Kernel /\ s \in Spaces /\ 0 \in Index
    BY ShapeFacts, Basics DEF Shape
<1>2. Below(m, s) = {T}
    <2>1. m[s][0].p /\ m[s][0].u /\ \A i \in Index \ {0} : ~m[s][i].p
        BY <1>1 DEF Shape, TopsOk
    <2> QED BY <1>1, <2>1 DEF Below, TopIn
<1>3. \A i \in Index : m[T][i].p /\ m[T][i].u <=> i \in Own(m, s)
    <2>1. ASSUME NEW i \in Index, m[T][i].p, m[T][i].u
          PROVE  i \in Own(m, s)
        <3>1. ASSUME i \in Own(m, Kernel), Kernel \in Roots(m, L), m[T][i] = m[TopIn(m, Kernel)][i]
              PROVE  FALSE
            <4>1. m[TopIn(m, Kernel)][i] = Link(Flags(Kernel), Sub(m, Kernel, i))
                BY <3>1 DEF Shape, SubsOk, Flags
            <4> QED BY <2>1, <3>1, <4>1, LinkFields
        <3> QED BY <1>1, <2>1, <3>1, TopEntry
    <2>2. ASSUME NEW i \in Own(m, s)
          PROVE  m[T][i].p /\ m[T][i].u
        <3>1. m[T][i] = Link(Flags(s), Sub(m, s, i))
            BY <1>1 DEF Shape, SubsOk, Flags
        <3> QED BY <3>1, <1>1, LinkFields
    <2> QED BY <2>1, <2>2
<1>4. Below(m, T) = {Sub(m, s, i) : i \in Own(m, s)}
    <2>1. {j \in Index : m[T][j].p /\ m[T][j].u} = Own(m, s)
        BY <1>3 DEF Own
    <2> QED BY <2>1 DEF Below, Sub
<1> QED BY <1>2, <1>4 DEF TornDown

\* An address space is torn down.
LEMMA Torn ==
    ASSUME NEW m, NEW f, NEW L, NEW um, Shape(m, f, L, um), NEW s \in L
    PROVE  LET D == TornDown(m, s)
               n == [t \in DOMAIN m |-> IF t \in D THEN Zero ELSE m[t]]
           IN  Shape(n, f \cup D, L \ {s}, um) /\ SameLeaves(m, n, L \ {s})
<1> DEFINE D == TornDown(m, s)
           n == [t \in DOMAIN m |-> IF t \in D THEN Zero ELSE m[t]]
           K == L \ {s}
<1>1. s \in Roots(m, L) /\ s # Kernel /\ s \in Spaces /\ 0 \in Index /\ m \in [Pages -> [Index -> Entries]]
    BY ShapeFacts, Basics DEF Shape, Memories
<1>2. D = {TopIn(m, s)} \cup {Sub(m, s, i) : i \in Own(m, s)}
    BY TornDownIs
<1>3. D \subseteq Tables \ f
    BY <1>1, <1>2, ShapeFacts
<1> HIDE DEF D
<1>4. n \in [Pages -> [Index -> Entries]] /\ \A x \in Pages \ D : n[x] = m[x]
    BY <1>1, Basics
<1> HIDE DEF n
<1>5. \A q \in Spaces \cup {Kernel} : n[q] = m[q] /\ TopIn(n, q) = TopIn(m, q) /\ q \in Pages
    BY <1>3, <1>4, Basics DEF TopIn, Pages
<1>6. Roots(n, K) = Roots(m, L) \ {s}
    BY <1>1, <1>5 DEF Roots, Shape
<1>7. \A q \in Roots(n, K) : /\ q \in Roots(m, L) /\ q # s /\ TopIn(m, q) \in Pages \ D
                             /\ TopIn(n, q) = TopIn(m, q) /\ n[TopIn(m, q)] = m[TopIn(m, q)]
    <2>1. ASSUME NEW q \in Roots(m, L), q # s PROVE TopIn(m, q) \in Pages \ D
        BY <1>1, <1>2, <2>1, ShapeFacts DEF Shape, Apart
    <2> QED BY <2>1, <1>4, <1>5, <1>6, ShapeFacts
<1>8. \A q \in Roots(n, K) : Own(n, q) = Own(m, q) /\ \A i \in Index : Sub(n, q, i) = Sub(m, q, i)
    BY <1>7 DEF Own, Sub
<1>9. ASSUME NEW q \in Roots(n, K), NEW i \in Own(n, q)
      PROVE  /\ q \in Roots(m, L) /\ i \in Own(m, q) /\ i \in Index /\ Sub(n, q, i) = Sub(m, q, i)
             /\ Sub(m, q, i) \in Tables \ (f \cup D) /\ n[Sub(m, q, i)] = m[Sub(m, q, i)]
    <2>1. q \in Roots(m, L) /\ q # s /\ i \in Own(m, q) /\ i \in Index
        <3>1. q \in Roots(m, L) /\ q # s
            BY <1>7
        <3>2. i \in Own(m, q)
            BY <1>8, <1>9
        <3> QED BY <3>1, <3>2 DEF Own
    <2>2. Sub(m, q, i) \notin D
        BY <1>1, <1>2, <2>1 DEF Shape, Apart
    <2> QED BY <2>1, <2>2, <1>4, <1>8, ShapeFacts
<1>10. TopsOk(n, f \cup D, K)
    <2>1. \A q \in K : n[q][0].p
        BY <1>5 DEF Shape, TopsOk
    <2>2. \A q \in Roots(n, K) : TopIn(n, q) \in Tables \ (f \cup D)
        BY <1>7, ShapeFacts
    <2>3. \A q \in Roots(n, K) : n[q][0].u <=> q # Kernel
        <3>1. \A q \in Roots(n, K) : q \in Roots(m, L) /\ n[q] = m[q]
            BY <1>5, <1>7, ShapeFacts
        <3> QED BY <3>1 DEF Shape, TopsOk
    <2>4. \A q \in Spaces \cup {Kernel}, j \in Index \ {0} : ~n[q][j].p
        BY <1>5 DEF Shape, TopsOk
    <2> QED BY <2>1, <2>2, <2>3, <2>4 DEF TopsOk
<1>11. SubsOk(n, f \cup D, K)
    BY <1>7, <1>9 DEF Shape, SubsOk
<1>12. Apart(n, K)
    <2>1. \A p, q \in Roots(n, K) : TopIn(n, p) = TopIn(n, q) => p = q
        BY <1>7 DEF Shape, Apart
    <2>2. ASSUME NEW p \in Roots(n, K), NEW q \in Roots(n, K), NEW j \in Own(n, p)
          PROVE  Sub(n, p, j) # TopIn(n, q)
        <3>1. p \in Roots(m, L) /\ j \in Own(m, p) /\ Sub(n, p, j) = Sub(m, p, j)
            BY <1>9
        <3>2. q \in Roots(m, L) /\ TopIn(n, q) = TopIn(m, q)
            BY <1>7
        <3> QED BY <3>1, <3>2 DEF Shape, Apart
    <2>3. \A p, q \in Roots(n, K) : \A j \in Own(n, p), k \in Own(n, q) :
              Sub(n, p, j) = Sub(n, q, k) => p = q /\ j = k
        BY <1>9 DEF Shape, Apart
    <2> QED BY <2>1, <2>2, <2>3 DEF Apart
<1>13. Reached(n, f \cup D, K)
    <2>1. ASSUME NEW t \in Tables \ (f \cup D)
          PROVE  \E q \in Roots(n, K) : t = TopIn(n, q) \/ \E j \in Own(n, q) : t = Sub(n, q, j)
        <3>1. PICK q \in Roots(m, L) : t = TopIn(m, q) \/ \E j \in Own(m, q) : t = Sub(m, q, j)
            BY <2>1 DEF Shape, Reached
        <3>2. q # s
            BY <2>1, <3>1, <1>2
        <3>3. q \in Roots(n, K) /\ TopIn(n, q) = TopIn(m, q) /\ Own(n, q) = Own(m, q)
            BY <3>1, <3>2, <1>6, <1>7, <1>8
        <3>4. \A j \in Own(m, q) : Sub(n, q, j) = Sub(m, q, j)
            BY <3>1, <3>3, <1>8, ShapeFacts
        <3> QED BY <3>1, <3>3, <3>4
    <2> QED BY <2>1 DEF Reached
<1>14. KernelShared(n, K)
    <2>1. ASSUME NEW q \in K, NEW i \in KernelTop
          PROVE  n[TopIn(n, q)][i] = n[TopIn(n, Kernel)][i]
        <3>1. q \in L /\ q \in Roots(n, K) /\ Kernel \in Roots(n, K)
            <4>1. q \in L /\ q \in Roots(m, L) /\ q # s
                BY ShapeFacts
            <4>2. Kernel \in Roots(m, L)
                BY <4>1, ShapeFacts DEF Shape
            <4> QED BY <1>1, <1>6, <4>1, <4>2
        <3>2. m[TopIn(m, q)][i] = m[TopIn(m, Kernel)][i]
            BY <3>1 DEF Shape, KernelShared
        <3>3. /\ n[TopIn(n, q)] = m[TopIn(m, q)]
              /\ n[TopIn(n, Kernel)] = m[TopIn(m, Kernel)]
            BY <3>1, <1>7
        <3> QED BY <3>2, <3>3
    <2>2. ASSUME n[Kernel][0].p, NEW i \in Index \ KernelTop
          PROVE  ~n[TopIn(n, Kernel)][i].p
        <3>1. m[Kernel][0].p /\ Kernel \in Roots(n, K)
            BY <2>2, <1>5 DEF Roots
        <3> QED BY <3>1, <1>7 DEF Shape, KernelShared
    <2> QED BY <2>1, <2>2 DEF KernelShared
<1>15. LeavesOk(n, K, um)
    <2>1. ASSUME NEW q \in K, NEW i \in Own(n, q), NEW j \in Index
          PROVE  n[Sub(n, q, i)][j] \in UserLeaves
        <3>1. q \in L /\ q \in Roots(n, K)
            BY <1>6, ShapeFacts
        <3> QED BY <3>1, <1>9 DEF Shape, LeavesOk
    <2>2. ASSUME NEW k \in KernelPaths \ um
          PROVE  /\ Kernel \in Roots(n, K) /\ k[2] \in Own(n, Kernel)
                 /\ n[Sub(n, Kernel, k[2])][k[3]] = KernelEntry(k)
        <3>1. /\ Kernel \in Roots(m, L) /\ k[2] \in Own(m, Kernel)
              /\ m[Sub(m, Kernel, k[2])][k[3]] = KernelEntry(k)
            BY DEF Shape, LeavesOk
        <3>2. Kernel \in Roots(n, K) /\ k[2] \in Own(n, Kernel)
            BY <3>1, <1>1, <1>6, <1>8
        <3> QED BY <3>1, <3>2, <1>9
    <2> QED BY <2>1, <2>2 DEF LeavesOk
<1>16. SameLeaves(m, n, K)
    <2>1. Roots(m, K) = Roots(n, K)
        BY <1>1, <1>6 DEF Roots, Shape
    <2>2. ASSUME NEW q \in Roots(n, K), NEW w \in {0} \X Index \X Index
          PROVE  Leaf(n, TopIn(m, q), w) = Leaf(m, TopIn(m, q), w)
        <3> DEFINE e == m[TopIn(m, q)][w[2]]
        <3>1. w[2] \in Index /\ n[TopIn(m, q)][w[2]] = e /\ q \in Roots(m, L) /\ q # s
            BY <1>7
        <3>2. CASE ~e.p
            BY <3>1, <3>2 DEF Leaf
        <3>3. CASE e.p
            <4>1. \E b \in Roots(n, K) : \E j \in Own(n, b) : e.to = Sub(m, b, j)
                <5>1. CASE w[2] \in Own(m, q)
                    BY <5>1, <3>1, <1>8 DEF Sub
                <5>2. CASE Kernel \in Roots(m, L) /\ w[2] \in Own(m, Kernel) /\ e = m[TopIn(m, Kernel)][w[2]]
                    <6>1. Kernel \in Roots(n, K) /\ w[2] \in Own(n, Kernel)
                        BY <5>2, <1>1, <1>6, <1>8
                    <6> QED BY <5>2, <6>1 DEF Sub
                <5>3. e.p /\ q \in Roots(m, L) /\ w[2] \in Index
                    BY <3>1, <3>3
                <5> HIDE DEF e
                <5>4. \/ w[2] \in Own(m, q)
                      \/ /\ Kernel \in Roots(m, L) /\ w[2] \in Own(m, Kernel)
                         /\ m[TopIn(m, q)][w[2]] = m[TopIn(m, Kernel)][w[2]]
                    <6>1. PICK i : i = w[2]
                        OBVIOUS
                    <6>2. i \in Index /\ m[TopIn(m, q)][i].p
                        BY <5>3, <6>1 DEF e
                    <6> QED BY <5>3, <6>1, <6>2, TopEntry
                <5> QED BY <5>1, <5>2, <5>4 DEF e
            <4>2. n[e.to] = m[e.to]
                BY <4>1, <1>9
            <4> QED BY <3>1, <3>3, <4>2 DEF Leaf
        <3> QED BY <3>2, <3>3
    <2> QED BY <2>1, <2>2, <1>7 DEF SameLeaves
<1>17. f \cup D \subseteq Tables /\ K \subseteq Spaces /\ (K # {} => um = {})
    BY <1>3 DEF Shape
<1>18. Shape(n, f \cup D, K, um)
    BY <1>4, <1>10, <1>11, <1>12, <1>13, <1>14, <1>15, <1>17 DEF Shape, Memories
<1> QED BY <1>16, <1>18 DEF n, D
------------------------------------------------------------------------------
(***************************************************************************)
(* Walks                                                                   *)
(***************************************************************************)
LEMMA AtFields ==
    ASSUME NEW m, NEW f, NEW t
    PROVE  At(m, f, t).mem = m /\ At(m, f, t).free = f /\ At(m, f, t).at = t
BY DEF At

\* One level of a walk.
LEMMA LevelIs ==
    ASSUME NEW m, NEW f, NEW x, x # Null, NEW i, NEW flags, NEW t \in Level(At(m, f, x), i, flags)
    PROVE  \/ m[x][i].p /\ t = At(m, f, m[x][i].to)
           \/ ~m[x][i].p /\ f = {} /\ t = At(m, f, Null)
           \/ ~m[x][i].p /\ \E g \in f :
                t = At(Hang(m, x, i, flags, g), f \ {g}, g)
<1> DEFINE st == At(m, f, x)
<1>1. st.mem = m /\ st.free = f /\ st.at = x /\ st.at # Null
    BY AtFields
<1> HIDE DEF st
<1>2. t \in Level(st, i, flags)
    BY DEF st
<1> QED BY <1>1, <1>2 DEF Level, Pgallocz

LEMMA HangUser ==
    ASSUME NEW m, NEW f, NEW L, NEW um, Shape(m, f, L, um), NEW s \in L,
           NEW i \in Index, i \notin KernelTop, ~m[TopIn(m, s)][i].p, NEW g \in f, NEW n,
           n = Hang(m, TopIn(m, s), i, UserFlags, g)
    PROVE  /\ Shape(n, f \ {g}, L, um) /\ SameLeaves(m, n, L)
           /\ s \in Roots(n, L) /\ i \in Own(n, s) /\ Sub(n, s, i) = g
<1>1. s \in Roots(m, L) /\ s # Kernel
    BY ShapeFacts, Basics DEF Shape
<1>2. Flags(s) = UserFlags
    BY <1>1 DEF Flags
<1>3. i \in KernelTop <=> s = Kernel
    BY <1>1
<1>4. s = Kernel => L = {}
    BY <1>1
<1> QED BY <1>1, <1>2, <1>3, <1>4, HangSub

LEMMA UserWalk ==
    ASSUME Shape(mem, free, live, unmade), NEW s \in live, NEW path \in UserPaths,
           NEW t \in Ptwalk(s, path, UserFlags)
    PROVE  /\ Shape(t.mem, t.free, live, unmade) /\ SameLeaves(mem, t.mem, live)
           /\ t.at # Null => /\ s \in Roots(t.mem, live) /\ path[2] \in Own(t.mem, s)
                        /\ t.at = Sub(t.mem, s, path[2])
<1> DEFINE T == TopIn(mem, s)
           i == path[2]
<1>1. /\ s \in Roots(mem, live) /\ mem[s][0].p /\ s # Kernel
      /\ path[1] = 0 /\ i \in Index /\ i \notin KernelTop
      /\ s # Null /\ T # Null
    BY ShapeFacts, Basics DEF Shape, Null
<1>2. PICK st \in Level(Start(s), path[1], UserFlags) : t \in Level(st, i, UserFlags)
    BY DEF Ptwalk
<1>3. st = At(mem, free, T)
    BY <1>1, <1>2, LevelIs DEF Start, TopIn
<1> HIDE DEF i, T
<1>4. CASE mem[T][i].p /\ t = At(mem, free, mem[T][i].to)
    <2>1. i \in Own(mem, s)
        BY <1>1, <1>4 DEF Own, T
    <2>2. SameLeaves(mem, mem, live)
        BY DEF SameLeaves
    <2> QED BY <1>1, <1>4, <2>1, <2>2, AtFields DEF Sub, T, i
<1>5. CASE t = At(mem, free, Null)
    <2>1. SameLeaves(mem, mem, live)
        BY DEF SameLeaves
    <2> QED BY <1>5, <2>1, AtFields
<1>6. ASSUME NEW g \in free, ~mem[T][i].p,
             t = At(Hang(mem, T, i, UserFlags, g), free \ {g}, g)
      PROVE  /\ Shape(t.mem, t.free, live, unmade) /\ SameLeaves(mem, t.mem, live)
             /\ s \in Roots(t.mem, live) /\ i \in Own(t.mem, s) /\ t.at = Sub(t.mem, s, i)
    <2> DEFINE n == Hang(mem, TopIn(mem, s), i, UserFlags, g)
    <2>1. /\ Shape(n, free \ {g}, live, unmade) /\ SameLeaves(mem, n, live)
          /\ s \in Roots(n, live) /\ i \in Own(n, s) /\ Sub(n, s, i) = g
        <3>1. ~mem[TopIn(mem, s)][i].p /\ i \in Index /\ i \notin KernelTop
            BY <1>1, <1>6 DEF T, i
        <3> HIDE DEF n
        <3> QED BY <3>1, HangUser DEF n
    <2> HIDE DEF n
    <2>3. t.mem = n /\ t.free = free \ {g} /\ t.at = g
        BY <1>6, AtFields DEF n, T
    <2> QED BY <2>1, <2>3
<1>7. \/ mem[T][i].p /\ t = At(mem, free, mem[T][i].to)
      \/ t = At(mem, free, Null)
      \/ ~mem[T][i].p /\ \E g \in free :
            t = At(Hang(mem, T, i, UserFlags, g), free \ {g}, g)
    BY <1>1, <1>2, <1>3, LevelIs
<1> QED BY <1>4, <1>5, <1>6, <1>7 DEF i

\* While the kernel's tables are built there are no others.
LEMMA KernelWalk ==
    ASSUME Shape(mem, free, {}, unmade), NEW path \in KernelPaths,
           NEW t \in Ptwalk(Kernel, path, KernelFlags)
    PROVE  /\ Shape(t.mem, t.free, {}, unmade)
           /\ t.at # Null => /\ Kernel \in Roots(t.mem, {}) /\ path[2] \in Own(t.mem, Kernel)
                        /\ t.at = Sub(t.mem, Kernel, path[2])
<1> DEFINE i == path[2]
<1>1. path[1] = 0 /\ i \in Index /\ i \in KernelTop /\ Kernel # Null /\ Null \notin Tables
    BY Basics DEF Null
<1>2. PICK st \in Level(Start(Kernel), path[1], KernelFlags) : t \in Level(st, i, KernelFlags)
    BY DEF Ptwalk
<1> HIDE DEF i
<1>3. \E m, f : /\ Shape(m, f, {}, unmade)
                /\ \/ st = At(m, f, TopIn(m, Kernel)) /\ Kernel \in Roots(m, {})
                   \/ st = At(m, f, Null)
    <2>1. CASE mem[Kernel][0].p /\ st = At(mem, free, mem[Kernel][0].to)
        BY <2>1 DEF Roots, TopIn
    <2>2. CASE st = At(mem, free, Null)
        BY <2>2
    <2>3. ASSUME ~mem[Kernel][0].p, NEW g \in free,
                 st = At(Hang(mem, Kernel, 0, KernelFlags, g), free \ {g}, g)
          PROVE  \E m, f : /\ Shape(m, f, {}, unmade)
                           /\ st = At(m, f, TopIn(m, Kernel)) /\ Kernel \in Roots(m, {})
        <3> DEFINE n == Hang(mem, Kernel, 0, KernelFlags, g)
        <3>1. Shape(n, free \ {g}, {}, unmade) /\ Kernel \in Roots(n, {}) /\ TopIn(n, Kernel) = g
            <4> HIDE DEF n
            <4> QED BY <2>3, HangTop DEF n
        <3> HIDE DEF n
        <3>2. st = At(n, free \ {g}, TopIn(n, Kernel))
            BY <2>3, <3>1 DEF n
        <3> QED BY <3>1, <3>2
    <2>4. \/ mem[Kernel][0].p /\ st = At(mem, free, mem[Kernel][0].to)
          \/ st = At(mem, free, Null)
          \/ ~mem[Kernel][0].p /\ \E g \in free :
                st = At(Hang(mem, Kernel, 0, KernelFlags, g), free \ {g}, g)
        <3>1. st \in Level(At(mem, free, Kernel), 0, KernelFlags)
            BY <1>1, <1>2 DEF Start
        <3> QED BY <1>1, <3>1, LevelIs
    <2> QED BY <2>1, <2>2, <2>3, <2>4
<1>4. PICK m, f : /\ Shape(m, f, {}, unmade)
                  /\ \/ st = At(m, f, TopIn(m, Kernel)) /\ Kernel \in Roots(m, {})
                     \/ st = At(m, f, Null)
    BY <1>3
<1>5. CASE st = At(m, f, Null)
    <2>1. t = st
        BY <1>2, <1>5, AtFields DEF Level
    <2> QED BY <1>4, <1>5, <2>1, AtFields
<1>6. CASE st = At(m, f, TopIn(m, Kernel)) /\ Kernel \in Roots(m, {})
    <2> DEFINE T == TopIn(m, Kernel)
    <2>1. CASE m[T][i].p /\ t = At(m, f, m[T][i].to)
        <3>1. i \in Own(m, Kernel)
            BY <1>1, <2>1 DEF Own, i
        <3> QED BY <1>4, <1>6, <2>1, <3>1, AtFields DEF Sub, i
    <2>2. CASE t = At(m, f, Null)
        BY <1>4, <2>2, AtFields
    <2>3. ASSUME NEW g \in f, ~m[T][i].p,
                 t = At(Hang(m, T, i, KernelFlags, g), f \ {g}, g)
          PROVE  /\ Shape(t.mem, t.free, {}, unmade)
                 /\ Kernel \in Roots(t.mem, {}) /\ i \in Own(t.mem, Kernel)
                 /\ t.at = Sub(t.mem, Kernel, i)
        <3> DEFINE n == Hang(m, TopIn(m, Kernel), i, KernelFlags, g)
        <3>1. /\ Shape(n, f \ {g}, {}, unmade)
              /\ Kernel \in Roots(n, {}) /\ i \in Own(n, Kernel) /\ Sub(n, Kernel, i) = g
            <4>1. (i \in KernelTop <=> Kernel = Kernel) /\ i \in Index
                BY <1>1 DEF i
            <4>2. ~m[TopIn(m, Kernel)][i].p
                BY <2>3
            <4>3. Flags(Kernel) = KernelFlags
                BY DEF Flags
            <4> HIDE DEF n
            <4> QED BY <1>4, <1>6, <4>1, <4>2, <4>3, HangSub DEF n
        <3>2. n = Hang(m, T, i, KernelFlags, g)
            OBVIOUS
        <3> HIDE DEF n
        <3>3. t.mem = n /\ t.free = f \ {g} /\ t.at = g
            BY <2>3, <3>2, AtFields
        <3> QED BY <3>1, <3>3
    <2> HIDE DEF T
    <2>4. \/ m[T][i].p /\ t = At(m, f, m[T][i].to)
          \/ t = At(m, f, Null)
          \/ ~m[T][i].p /\ \E g \in f :
                t = At(Hang(m, T, i, KernelFlags, g), f \ {g}, g)
        <3>1. t \in Level(At(m, f, T), i, KernelFlags)
            BY <1>2, <1>6 DEF T
        <3>2. T # Null
            BY <1>1, <1>4, <1>6, ShapeFacts DEF T
        <3> QED BY <3>1, <3>2, LevelIs
    <2> QED BY <2>1, <2>2, <2>3, <2>4 DEF i
<1> QED BY <1>4, <1>5, <1>6

\* The entry a user walk ends at is set: one translation of one address space changes.
LEMMA LeafSet ==
    ASSUME NEW m, NEW n, NEW f, NEW L, NEW um, Shape(n, f, L, um), SameLeaves(m, n, L),
           NEW s \in L, s \in Roots(m, L), NEW path \in UserPaths, path[2] \in Own(n, s),
           NEW e \in UserLeaves
    PROVE  LET k == [n EXCEPT ![Sub(n, s, path[2])][path[3]] = e] IN
           /\ Shape(k, f, L, um)
           /\ \A q \in Roots(m, L) : q \in Roots(k, L) /\ TopIn(k, q) = TopIn(m, q)
           /\ \A q \in Roots(m, L), x \in {0} \X Index \X Index :
                 Leaf(k, TopIn(m, q), x) = IF q = s /\ x = path THEN e ELSE Leaf(m, TopIn(m, q), x)
           /\ Leaf(m, TopIn(m, s), path).p <=> n[Sub(n, s, path[2])][path[3]].p
<1> DEFINE k == [n EXCEPT ![Sub(n, s, path[2])][path[3]] = e]
<1>1. /\ s # Kernel /\ path \in {0} \X Index \X Index /\ path[3] \in Index
      /\ s \in Roots(n, L) /\ TopIn(n, s) = TopIn(m, s)
    BY ShapeFacts, Basics DEF Shape, SameLeaves
<1>2. e \in Entries
    BY Basics DEF UserLeaves
<1>3. /\ Shape(k, f, L, um)
      /\ \A q \in Roots(n, L) : q \in Roots(k, L) /\ TopIn(k, q) = TopIn(n, q)
      /\ \A q \in Roots(n, L), x \in {0} \X Index \X Index :
            Leaf(k, TopIn(n, q), x) = IF q = s /\ x[2] = path[2] /\ x[3] = path[3] THEN e
                                      ELSE Leaf(n, TopIn(n, q), x)
    <2>1. PICK i, j : i = path[2] /\ j = path[3]
        OBVIOUS
    <2>2. Fits(s, i, j, e, um, um)
        BY <1>1 DEF Fits
    <2>3. i \in Own(n, s) /\ j \in Index
        BY <1>1, <2>1
    <2> DEFINE z == [n EXCEPT ![Sub(n, s, i)][j] = e]
    <2>4. /\ Shape(z, f, L, um)
          /\ \A q \in Roots(n, L) : q \in Roots(z, L) /\ TopIn(z, q) = TopIn(n, q)
          /\ \A q \in Roots(n, L), x \in {0} \X Index \X Index :
                Leaf(z, TopIn(n, q), x) = IF q = s /\ x[2] = i /\ x[3] = j THEN e
                                          ELSE Leaf(n, TopIn(n, q), x)
        <3>1. Shape(z, f, L, um)
            BY <1>1, <1>2, <2>2, <2>3, SetLeaf
        <3>2. \A q \in Roots(n, L) : q \in Roots(z, L) /\ TopIn(z, q) = TopIn(n, q)
            BY <1>1, <1>2, <2>2, <2>3, SetLeaf
        <3>3. \A q \in Roots(n, L), x \in {0} \X Index \X Index :
                s # Kernel => Leaf(z, TopIn(n, q), x) = IF q = s /\ x[2] = i /\ x[3] = j THEN e
                                          ELSE Leaf(n, TopIn(n, q), x)
            BY <1>1, <1>2, <2>2, <2>3, SetLeaf
        <3> HIDE DEF z
        <3> QED BY <1>1, <3>1, <3>2, <3>3
    <2>5. z = k
        BY <2>1
    <2> HIDE DEF z, k
    <2> QED BY <2>1, <2>4, <2>5
<1>4. \A x \in {0} \X Index \X Index : x[2] = path[2] /\ x[3] = path[3] <=> x = path
    BY <1>1
<1>5. \A q \in Roots(m, L) : /\ q \in Roots(n, L) /\ TopIn(n, q) = TopIn(m, q)
                            /\ \A x \in {0} \X Index \X Index :
                                  Leaf(n, TopIn(m, q), x) = Leaf(m, TopIn(m, q), x)
    BY DEF SameLeaves
<1>6. Leaf(m, TopIn(m, s), path) = Leaf(n, TopIn(n, s), path)
    BY <1>1, <1>5
<1>7. Leaf(n, TopIn(n, s), path).p <=> n[Sub(n, s, path[2])][path[3]].p
    <2>1. n[TopIn(n, s)][path[2]].p
        BY DEF Own
    <2> QED BY <2>1 DEF Leaf, Sub, Absent
<1> HIDE DEF k
<1>8. ASSUME NEW q \in Roots(m, L), NEW x \in {0} \X Index \X Index
      PROVE  Leaf(k, TopIn(m, q), x) = IF q = s /\ x = path THEN e ELSE Leaf(m, TopIn(m, q), x)
    BY <1>3, <1>4, <1>5
<1>9. \A q \in Roots(m, L) : q \in Roots(k, L) /\ TopIn(k, q) = TopIn(m, q)
    BY <1>3, <1>5
<1> QED BY <1>3, <1>6, <1>7, <1>8, <1>9 DEF k

LEMMA UserSet ==
    ASSUME Shape(mem, free, live, unmade), NEW s \in live, NEW path \in UserPaths,
           NEW t \in Ptwalk(s, path, UserFlags), t.at # Null, NEW e \in UserLeaves
    PROVE  LET k == [t.mem EXCEPT ![t.at][path[3]] = e] IN
           /\ Shape(k, t.free, live, unmade)
           /\ \A q \in Roots(mem, live) : q \in Roots(k, live) /\ TopIn(k, q) = TopIn(mem, q)
           /\ \A q \in Roots(mem, live), x \in {0} \X Index \X Index :
                 Leaf(k, TopIn(mem, q), x) = IF q = s /\ x = path THEN e ELSE Leaf(mem, TopIn(mem, q), x)
           /\ Leaf(mem, TopIn(mem, s), path).p <=> t.mem[t.at][path[3]].p
<1>1. /\ Shape(t.mem, t.free, live, unmade) /\ SameLeaves(mem, t.mem, live)
      /\ path[2] \in Own(t.mem, s) /\ t.at = Sub(t.mem, s, path[2]) /\ s \in Roots(mem, live)
    BY UserWalk, ShapeFacts
<1>2. PICK m, n, f, L, um : m = mem /\ n = t.mem /\ f = t.free /\ L = live /\ um = unmade
    OBVIOUS
<1>3. /\ Shape(n, f, L, um) /\ SameLeaves(m, n, L) /\ s \in L /\ s \in Roots(m, L)
      /\ path[2] \in Own(n, s) /\ t.at = Sub(n, s, path[2])
    BY <1>1, <1>2
<1> DEFINE z == [n EXCEPT ![Sub(n, s, path[2])][path[3]] = e]
<1>4. /\ Shape(z, f, L, um)
      /\ \A q \in Roots(m, L) : q \in Roots(z, L) /\ TopIn(z, q) = TopIn(m, q)
      /\ \A q \in Roots(m, L), x \in {0} \X Index \X Index :
            Leaf(z, TopIn(m, q), x) = IF q = s /\ x = path THEN e ELSE Leaf(m, TopIn(m, q), x)
      /\ Leaf(m, TopIn(m, s), path).p <=> n[Sub(n, s, path[2])][path[3]].p
    BY <1>3, LeafSet
<1>5. z = [t.mem EXCEPT ![t.at][path[3]] = e]
    BY <1>2, <1>3
<1> HIDE DEF z
<1> QED BY <1>2, <1>3, <1>4, <1>5
------------------------------------------------------------------------------
(***************************************************************************)
(* The invariant: the shape of the tables, and what the processors hold.   *)
(***************************************************************************)
\* A processor has the tables of an address space in use loaded, or none and no TLB.
Loaded ==
    \A c \in Processors :
        \/ cr3[c] = 0 /\ DOMAIN tlb[c] = {}
        \/ \E r \in live \cup {Kernel} : cr3[c] = Top(r)

TlbOk(c) ==
    \A p \in DOMAIN tlb[c] :
        p \in Paths /\ tlb[c][p].p /\ (tlb[c][p] = Leaf(mem, cr3[c], p) \/ p \in unmapped[c])

ProcessorsOk ==
    /\ cr3 \in [Processors -> Tables \cup {0}] /\ paging \subseteq {Bsp}
    /\ tlb = [c \in Processors |-> tlb[c]]
    /\ unmapped \in [Processors -> SUBSET UserPaths]
    /\ halted \in BOOLEAN

VmeIInv ==
    /\ Shape(mem, free, live, unmade) /\ ProcessorsOk
    /\ unmade = {} => Loaded
    /\ unmade # {} => \A c \in Processors : cr3[c] = 0 /\ DOMAIN tlb[c] = {}
    /\ \A c \in Processors : TlbOk(c)

LEMMA Initially == VmeInit => VmeIInv
<1> SUFFICES ASSUME VmeInit PROVE VmeIInv
    OBVIOUS
<1>1. mem = [t \in Pages |-> Zero] /\ free = Tables /\ unmade = KernelPaths /\ live = {}
    BY DEF VmeInit, Pages
<1>2. mem \in Memories /\ \A t \in Pages, i \in Index : ~mem[t][i].p
    BY <1>1, Basics DEF Memories, Zero, Absent
<1>3. Roots(mem, live) = {} /\ Kernel \in Pages
    BY <1>1, <1>2, Basics DEF Roots, Pages
<1>4. TopsOk(mem, free, live)
    BY <1>1, <1>2, <1>3 DEF TopsOk, Pages
<1>5. SubsOk(mem, free, live) /\ Apart(mem, live) /\ Reached(mem, free, live)
    BY <1>1, <1>3 DEF SubsOk, Apart, Reached
<1>6. KernelShared(mem, live) /\ LeavesOk(mem, live, unmade)
    BY <1>1, <1>2, <1>3, Basics DEF KernelShared, LeavesOk
<1>7. Shape(mem, free, live, unmade)
    BY <1>1, <1>2, <1>4, <1>5, <1>6 DEF Shape
<1>8. \A c \in Processors : tlb[c] = << >> /\ DOMAIN tlb[c] = {} /\ cr3[c] = 0
    BY DEF VmeInit
<1>9. ProcessorsOk
    BY DEF VmeInit, ProcessorsOk
<1> QED BY <1>1, <1>7, <1>8, <1>9, Basics DEF VmeIInv, TlbOk

\* What the processors hold stays right where their translations do.
LEMMA StillOk ==
    ASSUME VmeIInv, Shape(mem', free', live', unmade'), unmade = {}, unmade' = {}, halted' \in BOOLEAN,
           UNCHANGED <<cr3, paging, tlb, unmapped>>,
           \A r \in live \cup {Kernel} :
              (\E c \in Processors : cr3[c] = Top(r)) =>
                 /\ r \in live' \cup {Kernel} /\ TopIn(mem', r) = Top(r)
                 /\ \A x \in {0} \X Index \X Index : Leaf(mem', Top(r), x) = Leaf(mem, Top(r), x)
    PROVE  VmeIInv'
<1>1. ASSUME NEW c \in Processors
      PROVE  /\ \/ cr3[c] = 0 /\ DOMAIN tlb[c] = {}
                \/ \E r \in live' \cup {Kernel} : cr3[c] = TopIn(mem', r)
             /\ TlbOk(c)'
    <2>1. CASE cr3[c] = 0 /\ DOMAIN tlb[c] = {}
        BY <2>1 DEF TlbOk
    <2>2. ASSUME NEW r \in live \cup {Kernel}, cr3[c] = Top(r)
          PROVE  (\E q \in live' \cup {Kernel} : cr3[c] = TopIn(mem', q)) /\ TlbOk(c)'
        <3>1. \A x \in {0} \X Index \X Index : Leaf(mem', cr3[c], x) = Leaf(mem, cr3[c], x)
            BY <2>2
        <3>2. TlbOk(c)
            BY DEF VmeIInv
        <3>3. \A p \in DOMAIN tlb[c] :
                 p \in Paths /\ tlb[c][p].p /\ (tlb[c][p] = Leaf(mem', cr3[c], p) \/ p \in unmapped[c])
            BY <3>1, <3>2, Basics DEF TlbOk
        <3>4. TlbOk(c)'
            BY <3>3 DEF TlbOk
        <3> QED BY <2>2, <3>4
    <2> QED BY <2>1, <2>2 DEF VmeIInv, Loaded
<1>2. Loaded'
    BY <1>1 DEF Loaded, Top
<1>3. ProcessorsOk'
    BY DEF VmeIInv, ProcessorsOk
<1> QED BY <1>1, <1>2, <1>3 DEF VmeIInv

\* The kernel is among the roots once its tables are made.
LEMMA RootsMade ==
    ASSUME VmeIInv, unmade = {}
    PROVE  live \cup {Kernel} = Roots(mem, live)
<1>1. Shape(mem, free, live, unmade)
    BY DEF VmeIInv
<1> QED BY <1>1, ShapeFacts DEF Roots

\* A panic leaves the tables of a walk, and no translation differs.
LEMMA PanicStep ==
    ASSUME VmeIInv, NEW t, Panic(t), Shape(t.mem, t.free, live, unmade),
           unmade = {} => SameLeaves(mem, t.mem, live)
    PROVE  VmeIInv'
<1>1. mem' = t.mem /\ free' = t.free /\ halted' /\ UNCHANGED <<unmade, live, cr3, paging, tlb, unmapped>>
    BY DEF Panic
<1>2. CASE unmade = {}
    <2>1. \A r \in live \cup {Kernel} :
             TopIn(mem', r) = Top(r) /\ \A x \in {0} \X Index \X Index : Leaf(mem', Top(r), x) = Leaf(mem, Top(r), x)
        BY <1>1, <1>2, RootsMade DEF SameLeaves, Top
    <2>2. Shape(mem', free', live', unmade') /\ halted' \in BOOLEAN
        BY <1>1 DEF Panic
    <2> QED BY <1>1, <1>2, <2>1, <2>2, StillOk
<1>3. CASE unmade # {}
    <2>1. \A c \in Processors : cr3'[c] = 0 /\ DOMAIN tlb'[c] = {}
        BY <1>1, <1>3 DEF VmeIInv
    <2>2. ProcessorsOk'
        BY DEF VmeIInv, ProcessorsOk, Panic
    <2> QED BY <1>1, <1>3, <2>1, <2>2 DEF VmeIInv, TlbOk
<1> QED BY <1>2, <1>3

LEMMA InitPageStep ==
    ASSUME VmeIInv, NEW path \in KernelPaths, InitPage(path)
    PROVE  VmeIInv'
<1>1. PICK t \in Ptwalk(Kernel, path, KernelFlags) :
         IF t.at = Null THEN Panic(t)
         ELSE /\ mem' = [t.mem EXCEPT ![t.at][path[3]] = KernelEntry(path)]
              /\ free' = t.free
              /\ unmade' = unmade \ {path}
              /\ IF unmade' = {}
                 THEN cr3' = [cr3 EXCEPT ![Bsp] = TopIn(t.mem, Kernel)] /\ paging' = paging \cup {Bsp}
                 ELSE UNCHANGED <<cr3, paging>>
              /\ UNCHANGED <<live, tlb, halted, unmapped>>
    BY DEF InitPage
<1>2. /\ unmade # {} /\ path \in unmade /\ live = {} /\ Shape(mem, free, {}, unmade)
      /\ \A c \in Processors : cr3[c] = 0 /\ DOMAIN tlb[c] = {}
    BY DEF InitPage, VmeIInv, Shape
<1>3. /\ Shape(t.mem, t.free, {}, unmade)
      /\ t.at # Null => /\ Kernel \in Roots(t.mem, {}) /\ path[2] \in Own(t.mem, Kernel)
                       /\ t.at = Sub(t.mem, Kernel, path[2])
    BY <1>2, KernelWalk
<1>4. CASE t.at = Null
    BY <1>1, <1>2, <1>3, <1>4, PanicStep
<1>5. CASE t.at # Null
    <2> DEFINE vm == unmade \ {path}
    <2>1. Fits(Kernel, path[2], path[3], KernelEntry(path), unmade, vm)
        <3>1. \A k \in KernelPaths : k[2] = path[2] /\ k[3] = path[3] => k = path
            BY Basics
        <3> QED BY <1>2, <3>1, Basics DEF Fits, Shape
    <2>2. PICK m, f, i, j, e : m = t.mem /\ f = t.free /\ i = path[2] /\ j = path[3] /\ e = KernelEntry(path)
        OBVIOUS
    <2>3. /\ Shape(m, f, {}, unmade) /\ Kernel \in Roots(m, {}) /\ i \in Own(m, Kernel) /\ j \in Index
          /\ e \in Entries /\ Fits(Kernel, i, j, e, unmade, vm)
        BY <1>3, <1>5, <2>1, <2>2, Basics
    <2> HIDE DEF vm
    <2> DEFINE n == [m EXCEPT ![Sub(m, Kernel, i)][j] = e]
    <2>4. /\ Shape(n, f, {}, vm)
          /\ \A q \in Roots(m, {}) : q \in Roots(n, {}) /\ TopIn(n, q) = TopIn(m, q)
        <3>1. Shape(n, f, {}, vm)
            BY <2>3, SetLeaf
        <3>2. \A q \in Roots(m, {}) : q \in Roots(n, {}) /\ TopIn(n, q) = TopIn(m, q)
            BY <2>3, SetLeaf
        <3> QED BY <3>1, <3>2
    <2>5. n = mem' /\ f = free' /\ vm = unmade' /\ live' = {} /\ TopIn(mem', Kernel) = TopIn(m, Kernel)
        BY <1>1, <1>2, <1>3, <1>5, <2>2, <2>3, <2>4 DEF vm
    <2>6. Shape(mem', free', live', unmade')
        BY <2>4, <2>5
    <2>7. TopIn(m, Kernel) \in Tables
        BY <2>3, ShapeFacts
    <2> HIDE DEF n
    <2>8. UNCHANGED <<live, tlb, halted, unmapped>> /\ cr3 \in [Processors -> Tables \cup {0}]
        BY <1>1, <1>5 DEF VmeIInv, ProcessorsOk
    <2>9. \A c \in Processors :
             /\ cr3'[c] \in {0, TopIn(m, Kernel)} /\ (unmade' # {} => cr3'[c] = 0)
             /\ DOMAIN tlb'[c] = {}
        BY <1>1, <1>2, <1>5, <2>2, <2>8
    <2>10. unmade' = {} => Loaded'
        BY <2>5, <2>9 DEF Loaded, Top
    <2>11. ProcessorsOk'
        <3>1. cr3' \in [Processors -> Tables \cup {0}] /\ paging' \subseteq {Bsp}
            BY <1>1, <1>5, <2>2, <2>7, <2>8 DEF VmeIInv, ProcessorsOk
        <3> QED BY <2>8, <3>1 DEF VmeIInv, ProcessorsOk
    <2> QED BY <2>6, <2>9, <2>10, <2>11 DEF VmeIInv, TlbOk
<1> QED BY <1>4, <1>5

\* A call of map: a panic, or one translation set.
LEMMA MapEffect ==
    ASSUME VmeIInv, NEW s \in live, NEW path \in UserPaths, NEW t \in Ptwalk(s, path, UserFlags)
    PROVE  /\ unmade = {} /\ Shape(t.mem, t.free, live, unmade) /\ SameLeaves(mem, t.mem, live)
           /\ t.at # Null => \A e \in UserLeaves :
                 LET k == [t.mem EXCEPT ![t.at][path[3]] = e] IN
                 /\ Shape(k, t.free, live, unmade)
                 /\ \A q \in live \cup {Kernel} : TopIn(k, q) = Top(q)
                 /\ \A q \in live \cup {Kernel}, x \in {0} \X Index \X Index :
                       Leaf(k, Top(q), x) = IF q = s /\ x = path THEN e ELSE Leaf(mem, Top(q), x)
                 /\ Leaf(mem, Top(s), path).p <=> t.mem[t.at][path[3]].p
<1>1. Shape(mem, free, live, unmade) /\ unmade = {}
    BY DEF VmeIInv, Shape
<1>2. live \cup {Kernel} = Roots(mem, live)
    BY <1>1, RootsMade
<1>3. Shape(t.mem, t.free, live, unmade) /\ SameLeaves(mem, t.mem, live)
    BY <1>1, UserWalk
<1>4. ASSUME t.at # Null, NEW e \in UserLeaves
      PROVE  LET k == [t.mem EXCEPT ![t.at][path[3]] = e] IN
             /\ Shape(k, t.free, live, unmade)
             /\ \A q \in live \cup {Kernel} : TopIn(k, q) = Top(q)
             /\ \A q \in live \cup {Kernel}, x \in {0} \X Index \X Index :
                   Leaf(k, Top(q), x) = IF q = s /\ x = path THEN e ELSE Leaf(mem, Top(q), x)
             /\ Leaf(mem, Top(s), path).p <=> t.mem[t.at][path[3]].p
    <2> DEFINE k == [t.mem EXCEPT ![t.at][path[3]] = e]
    <2>1. /\ Shape(k, t.free, live, unmade)
          /\ \A q \in Roots(mem, live) : q \in Roots(k, live) /\ TopIn(k, q) = TopIn(mem, q)
          /\ \A q \in Roots(mem, live), x \in {0} \X Index \X Index :
                Leaf(k, TopIn(mem, q), x) = IF q = s /\ x = path THEN e ELSE Leaf(mem, TopIn(mem, q), x)
          /\ Leaf(mem, TopIn(mem, s), path).p <=> t.mem[t.at][path[3]].p
        BY <1>1, <1>4, UserSet
    <2> HIDE DEF k
    <2>2. \A q : Top(q) = TopIn(mem, q)
        BY DEF Top
    <2>3. /\ Shape(k, t.free, live, unmade)
          /\ \A q \in live \cup {Kernel} : TopIn(k, q) = Top(q)
          /\ \A q \in live \cup {Kernel}, x \in {0} \X Index \X Index :
                Leaf(k, Top(q), x) = IF q = s /\ x = path THEN e ELSE Leaf(mem, Top(q), x)
          /\ Leaf(mem, Top(s), path).p <=> t.mem[t.at][path[3]].p
        BY <1>2, <2>1, <2>2
    <2> QED BY <2>3 DEF k
<1> QED BY <1>1, <1>3, <1>4

LEMMA MapStep ==
    ASSUME VmeIInv, NEW s \in Spaces, NEW path \in UserPaths, NEW write \in BOOLEAN, Map(s, path, write)
    PROVE  VmeIInv'
<1>1. s \in live
    BY DEF Map
<1>2. PICK t \in Ptwalk(s, path, UserFlags) :
         IF t.at = Null \/ t.mem[t.at][path[3]].p THEN Panic(t)
         ELSE /\ mem' = [t.mem EXCEPT ![t.at][path[3]] = UserEntry(write)]
              /\ free' = t.free
              /\ UNCHANGED <<unmade, live, cr3, paging, tlb, halted, unmapped>>
    BY DEF Map
<1>3. unmade = {} /\ Shape(t.mem, t.free, live, unmade) /\ SameLeaves(mem, t.mem, live)
    BY <1>1, MapEffect
<1>4. CASE Panic(t)
    BY <1>3, <1>4, PanicStep
<1>5. CASE t.at # Null /\ ~t.mem[t.at][path[3]].p
    <2>1. UserEntry(write) \in UserLeaves
        BY Basics
    <2>2. /\ mem' = [t.mem EXCEPT ![t.at][path[3]] = UserEntry(write)] /\ free' = t.free
          /\ UNCHANGED <<unmade, live, cr3, paging, tlb, halted, unmapped>>
        BY <1>2, <1>5
    <2>3. /\ Shape(mem', t.free, live, unmade)
          /\ \A q \in live \cup {Kernel} : TopIn(mem', q) = Top(q)
          /\ \A q \in live \cup {Kernel}, x \in {0} \X Index \X Index :
                Leaf(mem', Top(q), x) = IF q = s /\ x = path THEN UserEntry(write) ELSE Leaf(mem, Top(q), x)
          /\ ~Leaf(mem, Top(s), path).p
        BY <1>1, <1>5, <2>1, <2>2, MapEffect
    <2>4. ASSUME NEW c \in Processors
          PROVE  /\ \/ cr3[c] = 0 /\ DOMAIN tlb[c] = {}
                    \/ \E r \in live' \cup {Kernel} : cr3[c] = TopIn(mem', r)
                 /\ TlbOk(c)'
        <3>1. CASE cr3[c] = 0 /\ DOMAIN tlb[c] = {}
            BY <2>2, <3>1 DEF TlbOk
        <3>2. ASSUME NEW r \in live \cup {Kernel}, cr3[c] = Top(r)
              PROVE  TlbOk(c)' /\ cr3[c] = TopIn(mem', r) /\ r \in live' \cup {Kernel}
            <4>1. ASSUME NEW p \in DOMAIN tlb[c]
                  PROVE  p \in Paths /\ tlb[c][p].p /\ (tlb[c][p] = Leaf(mem', cr3[c], p) \/ p \in unmapped[c])
                <5>1. p \in Paths /\ tlb[c][p].p /\ (tlb[c][p] = Leaf(mem, cr3[c], p) \/ p \in unmapped[c])
                    BY DEF VmeIInv, TlbOk
                <5>2. p \in {0} \X Index \X Index
                    BY <5>1, Basics
                <5> QED BY <3>2, <5>1, <5>2, <2>3
            <4> QED BY <2>2, <2>3, <3>2, <4>1 DEF TlbOk
        <3> QED BY <1>3, <3>1, <3>2 DEF VmeIInv, Loaded
    <2>5. ProcessorsOk'
        BY <2>2 DEF VmeIInv, ProcessorsOk
    <2>6. Loaded'
        BY <2>2, <2>4 DEF Loaded, Top
    <2> QED BY <1>3, <2>2, <2>3, <2>4, <2>5, <2>6 DEF VmeIInv
<1> QED BY <1>2, <1>4, <1>5

LEMMA UnmapStep ==
    ASSUME VmeIInv, NEW s \in Spaces, NEW path \in UserPaths, Unmap(s, path)
    PROVE  VmeIInv'
<1>1. s \in live
    BY DEF Unmap
<1>2. PICK t \in Ptwalk(s, path, UserFlags) :
         IF t.at = Null \/ ~t.mem[t.at][path[3]].p THEN Panic(t)
         ELSE /\ mem' = [t.mem EXCEPT ![t.at][path[3]] = Absent]
              /\ free' = t.free
              /\ unmapped' = [c \in Processors |-> IF cr3[c] = Top(s) THEN unmapped[c] \cup {path}
                                                  ELSE unmapped[c]]
              /\ UNCHANGED <<unmade, live, cr3, paging, tlb, halted>>
    BY DEF Unmap
<1>3. unmade = {} /\ Shape(t.mem, t.free, live, unmade) /\ SameLeaves(mem, t.mem, live)
    BY <1>1, MapEffect
<1>4. CASE Panic(t)
    BY <1>3, <1>4, PanicStep
<1>5. CASE t.at # Null /\ t.mem[t.at][path[3]].p
    <2>1. Absent \in UserLeaves
        BY DEF UserLeaves
    <2>2. /\ mem' = [t.mem EXCEPT ![t.at][path[3]] = Absent] /\ free' = t.free
          /\ unmapped' = [c \in Processors |-> IF cr3[c] = Top(s) THEN unmapped[c] \cup {path}
                                              ELSE unmapped[c]]
          /\ UNCHANGED <<unmade, live, cr3, paging, tlb, halted>>
        BY <1>2, <1>5
    <2>3. /\ Shape(mem', t.free, live, unmade)
          /\ \A q \in live \cup {Kernel} : TopIn(mem', q) = Top(q)
          /\ \A q \in live \cup {Kernel}, x \in {0} \X Index \X Index :
                Leaf(mem', Top(q), x) = IF q = s /\ x = path THEN Absent ELSE Leaf(mem, Top(q), x)
        BY <1>1, <1>5, <2>1, <2>2, MapEffect
    <2>4. ASSUME NEW c \in Processors
          PROVE  /\ \/ cr3[c] = 0 /\ DOMAIN tlb[c] = {}
                    \/ \E r \in live' \cup {Kernel} : cr3[c] = TopIn(mem', r)
                 /\ TlbOk(c)'
        <3>1. CASE cr3[c] = 0 /\ DOMAIN tlb[c] = {}
            BY <2>2, <3>1 DEF TlbOk
        <3>2. ASSUME NEW r \in live \cup {Kernel}, cr3[c] = Top(r)
              PROVE  TlbOk(c)' /\ cr3[c] = TopIn(mem', r) /\ r \in live' \cup {Kernel}
            <4>1. ASSUME NEW p \in DOMAIN tlb[c]
                  PROVE  p \in Paths /\ tlb[c][p].p /\ (tlb[c][p] = Leaf(mem', cr3[c], p) \/ p \in unmapped'[c])
                <5>1. p \in Paths /\ tlb[c][p].p /\ (tlb[c][p] = Leaf(mem, cr3[c], p) \/ p \in unmapped[c])
                    BY DEF VmeIInv, TlbOk
                <5>2. p \in {0} \X Index \X Index
                    BY <5>1, Basics
                <5>3. unmapped[c] \subseteq unmapped'[c] /\ (r = s => path \in unmapped'[c])
                    BY <2>2, <3>2
                <5> QED BY <3>2, <5>1, <5>2, <5>3, <2>3
            <4> QED BY <2>2, <2>3, <3>2, <4>1 DEF TlbOk
        <3> QED BY <1>3, <3>1, <3>2 DEF VmeIInv, Loaded
    <2>5. ProcessorsOk'
        BY <2>2 DEF VmeIInv, ProcessorsOk
    <2>6. Loaded'
        BY <2>2, <2>4 DEF Loaded, Top
    <2> QED BY <1>3, <2>2, <2>3, <2>4, <2>5, <2>6 DEF VmeIInv
<1> QED BY <1>2, <1>4, <1>5

LEMMA ProtectStep ==
    ASSUME VmeIInv, NEW s \in Spaces, Protect(s)
    PROVE  VmeIInv'
<1>1. unmade = {} /\ s \notin live /\ Shape(mem, free, live, {})
    BY DEF Protect, VmeIInv
<1>2. ASSUME Panic(Start(s))
      PROVE  VmeIInv'
    <2>1. Start(s).mem = mem /\ Start(s).free = free
        BY AtFields DEF Start
    <2>2. SameLeaves(mem, mem, live)
        BY DEF SameLeaves
    <2> QED BY <1>1, <1>2, <2>1, <2>2, PanicStep
<1>3. ASSUME NEW f \in free,
             mem' = [mem EXCEPT ![f] = KernelEntries,
                       ![s][0] = [p |-> TRUE, u |-> TRUE, w |-> FALSE, to |-> f]],
             free' = free \ {f}, live' = live \cup {s},
             UNCHANGED <<unmade, cr3, paging, tlb, halted, unmapped>>
      PROVE  VmeIInv'
    <2>1. KernelEntries = CopyOf(mem)
        BY DEF KernelEntries, CopyOf, Top
    <2>2. /\ Shape(mem', free', live', {}) /\ SameLeaves(mem, mem', live)
        <3>1. PICK m, F, L : m = mem /\ F = free /\ L = live
            OBVIOUS
        <3>2. Shape(m, F, L, {}) /\ s \in Spaces \ L /\ f \in F
            BY <1>1, <3>1
        <3> DEFINE n == [m EXCEPT ![f] = CopyOf(m),
                           ![s][0] = [p |-> TRUE, u |-> TRUE, w |-> FALSE, to |-> f]]
        <3>3. n = mem'
            BY <1>3, <2>1, <3>1
        <3>4. Shape(n, F \ {f}, L \cup {s}, {}) /\ SameLeaves(m, n, L)
            BY <3>2, NewSpace
        <3> HIDE DEF n
        <3> QED BY <1>3, <3>1, <3>3, <3>4
    <2>3. \A r \in live \cup {Kernel} :
             /\ r \in live' \cup {Kernel} /\ TopIn(mem', r) = Top(r)
             /\ \A x \in {0} \X Index \X Index : Leaf(mem', Top(r), x) = Leaf(mem, Top(r), x)
        BY <1>1, <1>3, <2>2, RootsMade DEF SameLeaves, Top
    <2>4. halted' \in BOOLEAN
        BY <1>3 DEF VmeIInv, ProcessorsOk
    <2> QED BY <1>1, <1>3, <2>2, <2>3, <2>4, StillOk
<1> QED BY <1>2, <1>3 DEF Protect

LEMMA UnprotectStep ==
    ASSUME VmeIInv, NEW s \in Spaces, Unprotect(s)
    PROVE  VmeIInv'
<1>1. /\ s \in live /\ Shape(mem, free, live, unmade) /\ unmade = {} /\ unmade' = {}
      /\ \A c \in Processors : cr3[c] # Top(s)
      /\ mem' = [t \in DOMAIN mem |-> IF t \in TornDown(mem, s) THEN Zero ELSE mem[t]]
      /\ free' = free \cup TornDown(mem, s) /\ live' = live \ {s}
      /\ UNCHANGED <<cr3, paging, tlb, halted, unmapped>>
    BY DEF Unprotect, VmeIInv, Shape
<1>2. Shape(mem', free', live', unmade') /\ SameLeaves(mem, mem', live')
    BY <1>1, Torn
<1>3. ASSUME NEW r \in live \cup {Kernel}, \E c \in Processors : cr3[c] = Top(r)
      PROVE  /\ r \in live' \cup {Kernel} /\ TopIn(mem', r) = Top(r)
             /\ \A x \in {0} \X Index \X Index : Leaf(mem', Top(r), x) = Leaf(mem, Top(r), x)
    <2>1. r # s
        BY <1>1, <1>3
    <2>2. r \in Roots(mem, live') /\ r \in live' \cup {Kernel}
        BY <1>1, <2>1, RootsMade DEF Roots
    <2> QED BY <2>2, <1>2 DEF SameLeaves, Top
<1>4. halted' \in BOOLEAN
    BY <1>1 DEF VmeIInv, ProcessorsOk
<1> QED BY <1>1, <1>2, <1>3, <1>4, StillOk

LEMMA SetCr3Step ==
    ASSUME VmeIInv, NEW c \in Processors, NEW s \in Spaces \cup {Kernel}, SetCr3(c, s)
    PROVE  VmeIInv'
<1>1. /\ unmade = {} /\ s \in live \cup {Kernel} /\ cr3' = [cr3 EXCEPT ![c] = Top(s)]
      /\ tlb' = [tlb EXCEPT ![c] = << >>] /\ unmapped' = [unmapped EXCEPT ![c] = {}]
      /\ UNCHANGED <<mem, free, unmade, live, paging, halted>>
    BY DEF SetCr3
<1>2. Shape(mem, free, live, unmade) /\ Top(s) \in Tables
    BY <1>1, RootsMade, ShapeFacts DEF VmeIInv, Top
<1>3. ProcessorsOk'
    <2>1. /\ cr3' \in [Processors -> Tables \cup {0}]
          /\ unmapped' \in [Processors -> SUBSET UserPaths]
          /\ halted' \in BOOLEAN /\ paging' \subseteq {Bsp}
        BY <1>1, <1>2 DEF VmeIInv, ProcessorsOk
    <2>2. tlb' = [d \in Processors |-> tlb'[d]]
        BY <1>1 DEF VmeIInv, ProcessorsOk
    <2> QED BY <2>1, <2>2 DEF ProcessorsOk
<1>4. ASSUME NEW d \in Processors, d # c
      PROVE  cr3'[d] = cr3[d] /\ tlb'[d] = tlb[d] /\ unmapped'[d] = unmapped[d]
    BY <1>1, <1>4 DEF VmeIInv, ProcessorsOk
<1>5. cr3'[c] = Top(s) /\ DOMAIN tlb'[c] = {}
    <2>1. c \in DOMAIN cr3 /\ c \in DOMAIN tlb
        BY DEF VmeIInv, ProcessorsOk
    <2>2. tlb'[c] = << >>
        BY <1>1, <2>1
    <2> QED BY <1>1, <2>1, <2>2
<1>6. Loaded'
    <2>1. \A d \in Processors :
             \/ cr3'[d] = 0 /\ DOMAIN tlb'[d] = {}
             \/ \E r \in live \cup {Kernel} : cr3'[d] = TopIn(mem, r)
        BY <1>1, <1>4, <1>5 DEF VmeIInv, Loaded, Top
    <2> QED BY <1>1, <2>1 DEF Loaded, Top
<1>7. ASSUME NEW d \in Processors PROVE TlbOk(d)'
    <2>1. CASE d = c
        BY <1>5, <2>1 DEF TlbOk
    <2>2. CASE d # c
        BY <1>1, <1>4, <2>2 DEF VmeIInv, TlbOk
    <2> QED BY <2>1, <2>2
<1> QED BY <1>1, <1>2, <1>3, <1>6, <1>7 DEF VmeIInv

LEMMA AccessStep ==
    ASSUME VmeIInv, NEW c \in Processors, NEW path \in Paths, Access(c, path)
    PROVE  VmeIInv'
<1> DEFINE e == Entry(c, path)
           T == [q \in DOMAIN tlb[c] \cup {path} |-> IF q = path THEN e ELSE tlb[c][q]]
<1>1. /\ e.p /\ tlb' = [tlb EXCEPT ![c] = T] /\ \E r \in live : cr3[c] = Top(r)
      /\ UNCHANGED <<mem, free, unmade, live, cr3, paging, halted, unmapped>>
    BY DEF Access, UserRuns
<1>2. unmade = {} /\ TlbOk(c)
    BY <1>1 DEF VmeIInv, Shape
<1>3. e = Leaf(mem, cr3[c], path) \/ path \in unmapped[c]
    BY <1>2 DEF Entry, TlbOk
<1> HIDE DEF e
<1>4. DOMAIN T = DOMAIN tlb[c] \cup {path} /\ T[path] = e
      /\ \A q \in DOMAIN tlb[c] : q # path => T[q] = tlb[c][q]
    OBVIOUS
<1> HIDE DEF T
<1>5. tlb'[c] = T /\ \A d \in Processors : d # c => tlb'[d] = tlb[d]
    BY <1>1 DEF VmeIInv, ProcessorsOk
<1>6. ASSUME NEW q \in DOMAIN T
      PROVE  q \in Paths /\ T[q].p /\ (T[q] = Leaf(mem, cr3[c], q) \/ q \in unmapped[c])
    <2>1. CASE q = path
        BY <1>1, <1>3, <1>4, <2>1
    <2>2. CASE q # path
        BY <1>2, <1>4, <2>2 DEF TlbOk
    <2> QED BY <2>1, <2>2
<1>7. ASSUME NEW d \in Processors PROVE TlbOk(d)'
    <2>1. CASE d = c
        BY <1>1, <1>5, <1>6, <2>1 DEF TlbOk
    <2>2. CASE d # c
        BY <1>1, <1>5, <2>2 DEF VmeIInv, TlbOk
    <2> QED BY <2>1, <2>2
<1>8. ProcessorsOk'
    <2>1. tlb' = [d \in Processors |-> tlb'[d]]
        BY <1>1 DEF VmeIInv, ProcessorsOk
    <2> QED BY <1>1, <2>1 DEF VmeIInv, ProcessorsOk
<1>9. Loaded'
    BY <1>1, <1>2, <1>5 DEF VmeIInv, Loaded, Top
<1> QED BY <1>1, <1>2, <1>7, <1>8, <1>9 DEF VmeIInv

LEMMA VmeStep == VmeIInv /\ [VmeNext]_vmeVars => VmeIInv'
<1> SUFFICES ASSUME VmeIInv, [VmeNext]_vmeVars PROVE VmeIInv'
    OBVIOUS
<1>1. ASSUME NEW p \in KernelPaths, InitPage(p) PROVE VmeIInv'
    BY <1>1, InitPageStep
<1>2. ASSUME NEW s \in Spaces, Protect(s) PROVE VmeIInv'
    BY <1>2, ProtectStep
<1>3. ASSUME NEW s \in Spaces, Unprotect(s) PROVE VmeIInv'
    BY <1>3, UnprotectStep
<1>4. ASSUME NEW s \in Spaces, NEW p \in UserPaths, Unmap(s, p) PROVE VmeIInv'
    BY <1>4, UnmapStep
<1>5. ASSUME NEW s \in Spaces, NEW p \in UserPaths, NEW w \in BOOLEAN, Map(s, p, w) PROVE VmeIInv'
    BY <1>5, MapStep
<1>6. ASSUME NEW c \in Processors, NEW s \in Spaces \cup {Kernel}, SetCr3(c, s) PROVE VmeIInv'
    BY <1>6, SetCr3Step
<1>7. ASSUME NEW c \in Processors, NEW p \in Paths, Access(c, p) PROVE VmeIInv'
    BY <1>7, AccessStep
<1>8. CASE UNCHANGED vmeVars
    BY <1>8 DEF vmeVars, VmeIInv, ProcessorsOk, Loaded, TlbOk, Top
<1> QED BY <1>1, <1>2, <1>3, <1>4, <1>5, <1>6, <1>7, <1>8 DEF VmeNext

\* The page tables of every number of address spaces, pages and processors stay a
\* forest with one kernel, and a TLB holds what the tables do but for what _map took away.
THEOREM VmeInvariant == VmeSpec => []VmeIInv
<1> QED BY Initially, VmeStep, PTL DEF VmeSpec

\* A stale translation is one of a page unmapped since cr3 was loaded: the code never
\* needs to tell a TLB of a mapping it makes, which vme.c does not.
THEOREM StaleTheorem == VmeSpec => []StaleOnlyUnmapped
<1>1. VmeIInv => StaleOnlyUnmapped
    BY DEF VmeIInv, TlbOk, StaleOnlyUnmapped
<1> QED BY <1>1, VmeInvariant, PTL

\* The tables of the kernel, which teardown never sees.
Hung(m, t) == {m[t][i].to : i \in {j \in Index : m[t][j].p}}
KernelTables(m) == Hung(m, Kernel) \cup UNION {Hung(m, t) : t \in Hung(m, Kernel)}

LEMMA KernelTablesAre ==
    ASSUME NEW m, NEW f, NEW L, NEW um, Shape(m, f, L, um)
    PROVE  \A t : t \in KernelTables(m) <=>
                 /\ Kernel \in Roots(m, L)
                 /\ t = TopIn(m, Kernel) \/ \E i \in Own(m, Kernel) : t = Sub(m, Kernel, i)
<1>1. \A i \in Index \ {0} : ~m[Kernel][i].p
    BY DEF Shape, TopsOk
<1>2. CASE Kernel \notin Roots(m, L)
    <2>1. \A i \in Index : ~m[Kernel][i].p
        BY <1>1, <1>2 DEF Roots
    <2>2. Hung(m, Kernel) = {}
        BY <2>1 DEF Hung
    <2> QED BY <1>2, <2>2 DEF KernelTables
<1>3. CASE Kernel \in Roots(m, L)
    <2>1. Hung(m, Kernel) = {TopIn(m, Kernel)}
        <3>1. {j \in Index : m[Kernel][j].p} = {0}
            BY <1>1, <1>3, Basics DEF Roots
        <3> QED BY <3>1 DEF Hung, TopIn
    <2>2. {j \in Index : m[TopIn(m, Kernel)][j].p} = Own(m, Kernel)
        BY <1>3, TopEntry DEF Own
    <2>3. Hung(m, TopIn(m, Kernel)) = {Sub(m, Kernel, i) : i \in Own(m, Kernel)}
        BY <2>2 DEF Hung, Sub
    <2> QED BY <1>3, <2>1, <2>3 DEF KernelTables
<1> QED BY <1>2, <1>3

LEMMA OwnedLemma ==
    ASSUME VmeIInv
    PROVE  TablesOwned
<1>0. PICK m, f, L, um : m = mem /\ f = free /\ L = live /\ um = unmade
    OBVIOUS
<1>1. Shape(m, f, L, um) /\ L \subseteq Roots(m, L) /\ Kernel \notin L
    BY <1>0, ShapeFacts, Basics DEF VmeIInv, Shape
<1>2. \A s \in L : \A t : t \in TornDown(m, s) <=> t = TopIn(m, s) \/ \E i \in Own(m, s) : t = Sub(m, s, i)
    BY <1>1, TornDownIs
<1>3. \A t : t \in KernelTables(m) <=>
             /\ Kernel \in Roots(m, L)
             /\ t = TopIn(m, Kernel) \/ \E i \in Own(m, Kernel) : t = Sub(m, Kernel, i)
    BY <1>1, KernelTablesAre
<1>4. Tables \ f = KernelTables(m) \cup UNION {TornDown(m, s) : s \in L}
    <2>1. ASSUME NEW t \in Tables \ f
          PROVE  t \in KernelTables(m) \/ \E s \in L : t \in TornDown(m, s)
        <3>1. PICK r \in Roots(m, L) : t = TopIn(m, r) \/ \E i \in Own(m, r) : t = Sub(m, r, i)
            BY <1>1 DEF Shape, Reached
        <3>2. r = Kernel \/ r \in L
            BY DEF Roots
        <3> QED BY <1>2, <1>3, <3>1, <3>2
    <2>2. ASSUME NEW r \in Roots(m, L), NEW t, t = TopIn(m, r) \/ \E i \in Own(m, r) : t = Sub(m, r, i)
          PROVE  t \in Tables \ f
        BY <1>1, <2>2, ShapeFacts
    <2>3. \A t \in KernelTables(m) : t \in Tables \ f
        BY <1>3, <2>2
    <2>4. \A s \in L : \A t \in TornDown(m, s) : t \in Tables \ f
        BY <1>1, <1>2, <2>2
    <2> QED BY <2>1, <2>3, <2>4
<1>5. ASSUME NEW r \in Roots(m, L), NEW q \in Roots(m, L), r # q, NEW t,
             t = TopIn(m, r) \/ \E i \in Own(m, r) : t = Sub(m, r, i),
             t = TopIn(m, q) \/ \E i \in Own(m, q) : t = Sub(m, q, i)
      PROVE  FALSE
    <2>1. Apart(m, L)
        BY <1>1 DEF Shape
    <2>2. CASE t = TopIn(m, r) /\ t = TopIn(m, q)
        BY <1>5, <2>1, <2>2 DEF Apart
    <2>3. CASE t = TopIn(m, r) /\ \E i \in Own(m, q) : t = Sub(m, q, i)
        BY <2>1, <2>3 DEF Apart
    <2>4. CASE t = TopIn(m, q) /\ \E i \in Own(m, r) : t = Sub(m, r, i)
        BY <2>1, <2>4 DEF Apart
    <2>5. CASE (\E i \in Own(m, r) : t = Sub(m, r, i)) /\ \E i \in Own(m, q) : t = Sub(m, q, i)
        BY <1>5, <2>1, <2>5 DEF Apart
    <2> QED BY <1>5, <2>2, <2>3, <2>4, <2>5
<1>6. \A s \in L : TornDown(m, s) \cap KernelTables(m) = {}
    <2>1. ASSUME NEW s \in L, NEW t \in TornDown(m, s), t \in KernelTables(m) PROVE FALSE
        <3>1. s \in Roots(m, L) /\ s # Kernel /\ Kernel \in Roots(m, L)
            BY <1>1, <1>3, <2>1
        <3>2. t = TopIn(m, s) \/ \E i \in Own(m, s) : t = Sub(m, s, i)
            BY <1>2
        <3>3. t = TopIn(m, Kernel) \/ \E i \in Own(m, Kernel) : t = Sub(m, Kernel, i)
            BY <1>3, <2>1
        <3> QED BY <1>5, <3>1, <3>2, <3>3
    <2> QED BY <2>1
<1>7. \A s, r \in L : s # r => TornDown(m, s) \cap TornDown(m, r) = {}
    <2>1. ASSUME NEW s \in L, NEW r \in L, s # r, NEW t \in TornDown(m, s), t \in TornDown(m, r) PROVE FALSE
        <3>1. s \in Roots(m, L) /\ r \in Roots(m, L)
            BY <1>1
        <3>2. t = TopIn(m, s) \/ \E i \in Own(m, s) : t = Sub(m, s, i)
            BY <1>2
        <3>3. t = TopIn(m, r) \/ \E i \in Own(m, r) : t = Sub(m, r, i)
            BY <1>2, <2>1
        <3> QED BY <1>5, <2>1, <3>1, <3>2, <3>3
    <2> QED BY <2>1
<1>8. ASSUME NEW s \in L, NEW i \in Index \ KernelTop, NEW j \in Index \ KernelTop, m[TopIn(m, s)][i].p
      PROVE  /\ m[TopIn(m, s)][i].to # TopIn(m, s)
             /\ m[TopIn(m, s)][j].p /\ m[TopIn(m, s)][j].to = m[TopIn(m, s)][i].to => i = j
    <2>1. s \in Roots(m, L) /\ i \in Own(m, s) /\ (m[TopIn(m, s)][j].p => j \in Own(m, s))
        BY <1>1, <1>8 DEF Own
    <2>2. m[TopIn(m, s)][i].to = Sub(m, s, i) /\ m[TopIn(m, s)][j].to = Sub(m, s, j)
        BY DEF Sub
    <2> QED BY <1>1, <2>1, <2>2 DEF Shape, Apart
<1>9. /\ Tables \ free = KernelTables(mem) \cup UNION {TornDown(mem, s) : s \in live}
      /\ \A s \in live : TornDown(mem, s) \cap KernelTables(mem) = {}
      /\ \A s, r \in live : s # r => TornDown(mem, s) \cap TornDown(mem, r) = {}
      /\ \A s \in live, i, j \in Index \ KernelTop :
            mem[Top(s)][i].p => /\ mem[Top(s)][i].to # Top(s)
                                /\ mem[Top(s)][j].p /\ mem[Top(s)][j].to = mem[Top(s)][i].to => i = j
    BY <1>0, <1>4, <1>6, <1>7, <1>8 DEF Top
<1> QED BY <1>9 DEF TablesOwned, KernelTables, Hung

LEMMA KernelLemma ==
    ASSUME VmeIInv
    PROVE  KernelIntact
<1> SUFFICES ASSUME NEW s \in live \cup {Kernel}, NEW k \in KernelPaths \ unmade
             PROVE  Leaf(mem, Top(s), k) = KernelEntry(k)
    BY DEF KernelIntact
<1>1. Shape(mem, free, live, unmade)
    BY DEF VmeIInv
<1>2. /\ Kernel \in Roots(mem, live) /\ k[2] \in Own(mem, Kernel)
      /\ mem[Sub(mem, Kernel, k[2])][k[3]] = KernelEntry(k)
    BY <1>1 DEF Shape, LeavesOk
<1>3. mem[TopIn(mem, Kernel)][k[2]] = Link(Flags(Kernel), Sub(mem, Kernel, k[2]))
    BY <1>1, <1>2 DEF Shape, SubsOk, Flags
<1>4. mem[Top(s)][k[2]] = mem[TopIn(mem, Kernel)][k[2]]
    BY <1>1, Basics DEF Shape, KernelShared, Top
<1> DEFINE e == mem[Top(s)][k[2]]
           l == mem[e.to][k[3]]
<1>5. e.p /\ ~e.u /\ e.w /\ e.to = Sub(mem, Kernel, k[2])
    BY <1>3, <1>4, LinkFields
<1>6. l = KernelEntry(k) /\ l.p /\ ~l.u /\ l.w /\ l.to = Ident(k)
    BY <1>2, <1>5 DEF KernelEntry
<1>7. Leaf(mem, Top(s), k) = [p |-> TRUE, u |-> e.u /\ l.u, w |-> e.w /\ l.w, to |-> l.to]
    BY <1>5, <1>6 DEF Leaf
<1>8. (e.u /\ l.u) = FALSE /\ (e.w /\ l.w) = TRUE
    BY <1>5, <1>6
<1> HIDE DEF e, l
<1> QED BY <1>6, <1>7, <1>8 DEF KernelEntry

\* No order of calls leaks a page table, frees one of another address space or of the
\* kernel, or loses a page of the kernel, and pgalloc may fail at every one of them.
THEOREM VmeInvTheorem == VmeSpec => []VmeInv
<1>1. VmeIInv => VmeTypeOK
    <2> SUFFICES ASSUME VmeIInv PROVE VmeTypeOK
        OBVIOUS
    <2>1. /\ mem \in Memories /\ free \subseteq Tables /\ live \subseteq Spaces /\ unmade \subseteq KernelPaths
        BY DEF VmeIInv, Shape
    <2>2. \A c \in Processors : DOMAIN tlb[c] \subseteq Paths /\ unmapped[c] \subseteq UserPaths
        BY DEF VmeIInv, TlbOk, ProcessorsOk
    <2> QED BY <2>1, <2>2 DEF VmeTypeOK, VmeIInv, ProcessorsOk, Memories, Pages
<1>2. VmeIInv => VmeInv
    BY <1>1, OwnedLemma, KernelLemma DEF VmeInv
<1> QED BY <1>2, VmeInvariant, PTL
------------------------------------------------------------------------------
(***************************************************************************)
(* The tables implement the maps of AddrSpace.                             *)
(***************************************************************************)
LEMMA UserLeafIs ==
    ASSUME VmeIInv, NEW s \in live, NEW v \in UserPaths
    PROVE  Leaf(mem, Top(s), v) \in UserLeaves
<1>1. /\ Shape(mem, free, live, unmade) /\ s \in Roots(mem, live) /\ s # Kernel
      /\ v[2] \in Index /\ v[3] \in Index /\ v[2] \notin KernelTop
    BY ShapeFacts, Basics DEF VmeIInv, Shape
<1> DEFINE e == mem[Top(s)][v[2]]
           l == mem[e.to][v[3]]
<1>2. CASE ~(e.p /\ l.p)
    BY <1>2 DEF Leaf, UserLeaves
<1>3. CASE e.p /\ l.p
    <2>1. v[2] \in Own(mem, s)
        BY <1>1, <1>3 DEF Own, Top
    <2>2. e = Link(Flags(s), Sub(mem, s, v[2]))
        BY <1>1, <2>1 DEF Shape, SubsOk, Flags, Top
    <2>3. e.p /\ e.u /\ e.w /\ e.to = Sub(mem, s, v[2])
        BY <1>1, <2>2, LinkFields
    <2>4. l \in UserLeaves
        BY <1>1, <2>1, <2>3 DEF Shape, LeavesOk
    <2>5. PICK b \in BOOLEAN : l = UserEntry(b)
        <3>1. l # Absent
            BY <1>3 DEF Absent
        <3> HIDE DEF l
        <3> QED BY <2>4, <3>1 DEF UserLeaves
    <2>6. l.u /\ l.to = UserFrame /\ l.w = b
        BY <2>5 DEF UserEntry
    <2>7. Leaf(mem, Top(s), v) = [p |-> TRUE, u |-> e.u /\ l.u, w |-> e.w /\ l.w, to |-> l.to]
        BY <1>3 DEF Leaf
    <2>8. (e.u /\ l.u) = TRUE /\ (e.w /\ l.w) = b
        BY <2>3, <2>6
    <2> HIDE DEF e, l
    <2>9. Leaf(mem, Top(s), v) = UserEntry(b)
        BY <2>6, <2>7, <2>8 DEF UserEntry
    <2> QED BY <2>9 DEF UserLeaves
<1> QED BY <1>2, <1>3

\* What a translation says of a map.
Shown(l) == IF l.p /\ l.u THEN [to |-> l.to, w |-> l.w] ELSE Unmapped

LEMMA ShownIs ==
    /\ Shown(Absent) = Unmapped
    /\ \A w \in BOOLEAN : Shown(UserEntry(w)) = [to |-> UserFrame, w |-> w]
    /\ \A w \in BOOLEAN : [to |-> UserFrame, w |-> w] # Unmapped
    /\ \A l \in UserLeaves : l.p <=> Shown(l) # Unmapped
<1>1. Shown(Absent) = Unmapped /\ ~Absent.p
    BY DEF Shown, Absent
<1>2. \A w \in BOOLEAN : Shown(UserEntry(w)) = [to |-> UserFrame, w |-> w] /\ UserEntry(w).p
    BY DEF Shown, UserEntry
<1>3. \A w \in BOOLEAN : [to |-> UserFrame, w |-> w] # Unmapped
    BY VmeAssumption DEF Unmapped
<1> QED BY <1>1, <1>2, <1>3 DEF UserLeaves

LEMMA MapsAre ==
    Maps = [s \in Spaces |-> [v \in UserPaths |->
                IF s \in live THEN Shown(Leaf(mem, Top(s), v)) ELSE Unmapped]]
BY DEF Maps, MapOf, Shown

\* Where no translation of a live space differs, no map does.
LEMMA SameMaps ==
    ASSUME live' = live,
           \A s \in live, v \in UserPaths : Leaf(mem', TopIn(mem', s), v) = Leaf(mem, Top(s), v)
    PROVE  Maps' = Maps
<1>1. Maps' = [s \in Spaces |-> [v \in UserPaths |->
                  IF s \in live' THEN Shown(Leaf(mem', TopIn(mem', s), v)) ELSE Unmapped]]
    BY DEF Maps, MapOf, Top, Shown
<1> QED BY <1>1, MapsAre

LEMMA RefinePanic ==
    ASSUME ~halted, halted', UNCHANGED live, Maps' = Maps, halted' = TRUE
    PROVE  Abstract!ASNext
BY DEF Abstract!ASNext, Abstract!Stop

LEMMA RefineWalk ==
    ASSUME VmeIInv, ~halted, NEW s \in live, NEW path \in UserPaths,
           NEW t \in Ptwalk(s, path, UserFlags), Panic(t)
    PROVE  Abstract!ASNext
<1>1. mem' = t.mem /\ halted' = TRUE /\ UNCHANGED live
    BY DEF Panic
<1>2. SameLeaves(mem, t.mem, live) /\ unmade = {}
    BY MapEffect
<1>3. Maps' = Maps
    <2>1. \A r \in live, v \in UserPaths : Leaf(mem', TopIn(mem', r), v) = Leaf(mem, Top(r), v)
        BY <1>1, <1>2, RootsMade, Basics DEF SameLeaves, Top
    <2> QED BY <1>1, <2>1, SameMaps
<1> QED BY <1>1, <1>3, RefinePanic

\* A call that sets one translation, to a page or to nothing.
LEMMA RefineSet ==
    ASSUME VmeIInv, ~halted, NEW s \in live, NEW path \in UserPaths, NEW e \in UserLeaves,
           UNCHANGED <<live, halted>>,
           \A q \in live : TopIn(mem', q) = Top(q),
           \A q \in live, x \in {0} \X Index \X Index :
              Leaf(mem', Top(q), x) = IF q = s /\ x = path THEN e ELSE Leaf(mem, Top(q), x),
           Leaf(mem, Top(s), path).p <=> ~e.p
    PROVE  Abstract!ASNext
<1> DEFINE z == Shown(e)
<1>1. s \in Spaces /\ live \subseteq Spaces /\ \A v \in UserPaths : v \in {0} \X Index \X Index
    BY Basics DEF VmeIInv, Shape
<1>2. (Maps[s][path] = Unmapped) # (z = Unmapped)
    <2>1. Maps[s][path] = Shown(Leaf(mem, Top(s), path))
        BY <1>1, MapsAre
    <2>2. Maps[s][path] # Unmapped <=> Leaf(mem, Top(s), path).p
        BY <2>1, UserLeafIs, ShownIs
    <2>3. z # Unmapped <=> e.p
        BY ShownIs
    <2> HIDE DEF z
    <2> QED BY <2>2, <2>3
<1>3. Maps' = [Maps EXCEPT ![s][path] = z]
    <2>1. Maps' = [r \in Spaces |-> [v \in UserPaths |->
                  IF r \in live THEN Shown(Leaf(mem', Top(r), v)) ELSE Unmapped]]
        BY DEF Maps, MapOf, Top, Shown
    <2>2. \A r \in live, v \in UserPaths :
             Leaf(mem', Top(r), v) = IF r = s /\ v = path THEN e ELSE Leaf(mem, Top(r), v)
        BY <1>1
    <2> DEFINE M == [r \in Spaces |-> [v \in UserPaths |->
                        IF r \in live THEN Shown(Leaf(mem, Top(r), v)) ELSE Unmapped]]
               N == [r \in Spaces |-> [v \in UserPaths |->
                        IF r \in live THEN Shown(Leaf(mem', Top(r), v)) ELSE Unmapped]]
    <2>3. \A r \in Spaces, v \in UserPaths : N[r][v] = IF r = s /\ v = path THEN z ELSE M[r][v]
        BY <2>2
    <2>4. N = [r \in Spaces |-> [v \in UserPaths |-> N[r][v]]] /\ M = [r \in Spaces |-> [v \in UserPaths |-> M[r][v]]]
        OBVIOUS
    <2> HIDE DEF M, N, z
    <2>5. N = [M EXCEPT ![s][path] = z]
        <3>1. [M EXCEPT ![s][path] = z] =
                 [r \in Spaces |-> IF r = s THEN [M[r] EXCEPT ![path] = z] ELSE M[r]]
            BY <2>4, <1>1
        <3>2. \A r \in Spaces : M[r] = [v \in UserPaths |-> M[r][v]] /\ N[r] = [v \in UserPaths |-> N[r][v]]
            BY <2>4
        <3>3. \A r \in Spaces : N[r] = IF r = s THEN [M[r] EXCEPT ![path] = z] ELSE M[r]
            BY <2>3, <3>2
        <3>4. N = [r \in Spaces |-> N[r]]
            BY <2>4
        <3> QED BY <3>1, <3>3, <3>4
    <2> QED BY <2>1, <2>5, MapsAre DEF M, N
<1>4. z \in Abstract!Targets
    <2>1. z = Unmapped \/ \E w \in BOOLEAN : z = [to |-> UserFrame, w |-> w]
        BY ShownIs DEF UserLeaves
    <2> HIDE DEF z
    <2> QED BY <2>1 DEF Abstract!Targets
<1> HIDE DEF z
<1>5. Abstract!MapTo(s, path, z)
    BY <1>2, <1>3 DEF Abstract!MapTo
<1> QED BY <1>1, <1>4, <1>5 DEF Abstract!ASNext

LEMMA RefineStep ==
    ASSUME VmeIInv, [VmeNext]_vmeVars
    PROVE  [Abstract!ASNext]_<<live, Maps, halted>>
<1>1. ASSUME NEW path \in KernelPaths, InitPage(path)
      PROVE  Abstract!ASNext \/ UNCHANGED <<live, Maps, halted>>
    <2>1. PICK t \in Ptwalk(Kernel, path, KernelFlags) :
             IF t.at = Null THEN Panic(t) ELSE UNCHANGED <<live, tlb, halted, unmapped>>
        BY <1>1 DEF InitPage
    <2>2. live = {} /\ live' = live /\ ~halted
        BY <1>1, <2>1 DEF InitPage, Panic, VmeIInv, Shape
    <2>3. Maps' = Maps
        BY <2>2, SameMaps
    <2>4. CASE Panic(t)
        BY <2>2, <2>3, <2>4, RefinePanic DEF Panic
    <2> QED BY <2>1, <2>2, <2>3, <2>4
<1>2. ASSUME NEW s \in Spaces, Protect(s)
      PROVE  Abstract!ASNext
    <2>1. ~halted /\ s \notin live /\ unmade = {} /\ Shape(mem, free, live, {})
        BY <1>2 DEF Protect, VmeIInv
    <2>2. CASE Panic(Start(s))
        <3>1. mem' = mem /\ live' = live /\ halted' = TRUE
            BY <2>2, AtFields DEF Panic, Start
        <3>2. \A r \in live, v \in UserPaths : Leaf(mem', TopIn(mem', r), v) = Leaf(mem, Top(r), v)
            BY <3>1 DEF Top
        <3> QED BY <2>1, <3>1, <3>2, SameMaps, RefinePanic
    <2>3. ASSUME NEW f \in free,
                 mem' = [mem EXCEPT ![f] = KernelEntries,
                           ![s][0] = [p |-> TRUE, u |-> TRUE, w |-> FALSE, to |-> f]],
                 live' = live \cup {s}, UNCHANGED halted
          PROVE  Abstract!ASNext
        <3>1. KernelEntries = CopyOf(mem)
            BY DEF KernelEntries, CopyOf, Top
        <3>2. PICK m, F, L : m = mem /\ F = free /\ L = live
            OBVIOUS
        <3>3. Shape(m, F, L, {}) /\ s \in Spaces \ L /\ f \in F
            BY <1>2, <2>1, <3>2
        <3> DEFINE n == [m EXCEPT ![f] = CopyOf(m),
                           ![s][0] = [p |-> TRUE, u |-> TRUE, w |-> FALSE, to |-> f]]
        <3>4. n = mem'
            BY <2>3, <3>1, <3>2
        <3>5. /\ Shape(n, F \ {f}, L \cup {s}, {}) /\ SameLeaves(m, n, L) /\ TopIn(n, s) = f
              /\ \A i \in Index \ KernelTop : ~n[f][i].p
            <4>1. Shape(n, F \ {f}, L \cup {s}, {}) /\ SameLeaves(m, n, L)
                BY <3>3, NewSpace
            <4>2. TopIn(n, s) = f
                <5>1. /\ m \in [Pages -> [Index -> Entries]] /\ s \in Pages /\ 0 \in Index /\ f # s
                      /\ f \in Pages
                    BY <3>3, Basics DEF Shape, Pages, Memories
                <5>2. n[s] = [m[s] EXCEPT ![0] = [p |-> TRUE, u |-> TRUE, w |-> FALSE, to |-> f]]
                    BY <5>1
                <5>3. n[s][0].to = f
                    BY <5>1, <5>2
                <5> QED BY <5>3 DEF TopIn
            <4>3. \A i \in Index \ KernelTop : ~n[f][i].p
                BY <3>3, NewSpace
            <4> QED BY <4>1, <4>2, <4>3
        <3> HIDE DEF n
        <3>6. \A r \in live, v \in UserPaths : Leaf(mem', TopIn(mem', r), v) = Leaf(mem, Top(r), v)
            BY <2>1, <3>2, <3>4, <3>5, RootsMade, Basics DEF SameLeaves, Top
        <3>7. \A v \in UserPaths : Shown(Leaf(mem', TopIn(mem', s), v)) = Unmapped
            <4>1. ASSUME NEW v \in UserPaths PROVE Leaf(mem', TopIn(mem', s), v) = Absent
                BY <3>4, <3>5, Basics DEF Leaf
            <4> QED BY <4>1, ShownIs
        <3>8. Maps' = [r \in Spaces |-> [v \in UserPaths |->
                  IF r \in live' THEN Shown(Leaf(mem', TopIn(mem', r), v)) ELSE Unmapped]]
            BY DEF Maps, MapOf, Top, Shown
        <3>9. Maps' = [Maps EXCEPT ![s] = Abstract!NoMap]
            <4>1. ASSUME NEW r \in Spaces
                  PROVE  [v \in UserPaths |-> IF r \in live' THEN Shown(Leaf(mem', TopIn(mem', r), v))
                                              ELSE Unmapped]
                         = IF r = s THEN Abstract!NoMap ELSE Maps[r]
                <5>1. Maps[r] = [v \in UserPaths |-> IF r \in live THEN Shown(Leaf(mem, Top(r), v))
                                                     ELSE Unmapped]
                    BY MapsAre
                <5>2. CASE r = s
                    BY <2>3, <3>7, <5>2 DEF Abstract!NoMap
                <5>3. CASE r # s /\ r \in live
                    BY <2>3, <3>6, <5>1, <5>3
                <5>4. CASE r # s /\ r \notin live
                    BY <2>3, <5>1, <5>4
                <5> QED BY <5>2, <5>3, <5>4
            <4>2. Maps = [r \in Spaces |-> Maps[r]]
                BY MapsAre
            <4> QED BY <1>2, <3>8, <4>1, <4>2
        <3>10. Abstract!Protect(s)
            BY <2>1, <2>3, <3>9 DEF Abstract!Protect
        <3> QED BY <1>2, <2>1, <2>3, <3>10 DEF Abstract!ASNext
    <2> QED BY <1>2, <2>2, <2>3 DEF Protect
<1>3. ASSUME NEW s \in Spaces, Unprotect(s)
      PROVE  Abstract!ASNext
    <2>1. /\ ~halted /\ s \in live /\ Shape(mem, free, live, unmade) /\ unmade = {}
          /\ mem' = [t \in DOMAIN mem |-> IF t \in TornDown(mem, s) THEN Zero ELSE mem[t]]
          /\ live' = live \ {s} /\ UNCHANGED halted
        BY <1>3 DEF Unprotect, VmeIInv, Shape
    <2>2. SameLeaves(mem, mem', live')
        BY <2>1, Torn
    <2>3. \A r \in live', v \in UserPaths : Leaf(mem', TopIn(mem', r), v) = Leaf(mem, Top(r), v)
        <3>1. \A r \in live' : r \in Roots(mem, live')
            BY <2>1, RootsMade DEF Roots
        <3> QED BY <2>2, <3>1, Basics DEF SameLeaves, Top
    <2>4. Maps' = [r \in Spaces |-> [v \in UserPaths |->
                  IF r \in live' THEN Shown(Leaf(mem', TopIn(mem', r), v)) ELSE Unmapped]]
        BY DEF Maps, MapOf, Top, Shown
    <2>5. Maps' = [Maps EXCEPT ![s] = Abstract!NoMap]
        BY <1>3, <2>1, <2>3, <2>4, MapsAre DEF Abstract!NoMap
    <2>6. Abstract!Unprotect(s)
        BY <2>1, <2>5 DEF Abstract!Unprotect
    <2> QED BY <1>3, <2>1, <2>6 DEF Abstract!ASNext
<1>4. ASSUME NEW s \in Spaces, NEW path \in UserPaths, Unmap(s, path)
      PROVE  Abstract!ASNext
    <2>1. s \in live /\ ~halted
        BY <1>4 DEF Unmap
    <2>2. PICK t \in Ptwalk(s, path, UserFlags) :
             IF t.at = Null \/ ~t.mem[t.at][path[3]].p THEN Panic(t)
             ELSE mem' = [t.mem EXCEPT ![t.at][path[3]] = Absent] /\ UNCHANGED <<live, halted>>
        BY <1>4 DEF Unmap
    <2>3. CASE Panic(t)
        BY <2>1, <2>3, RefineWalk
    <2>4. CASE t.at # Null /\ t.mem[t.at][path[3]].p
        <3>1. Absent \in UserLeaves /\ ~Absent.p
            BY DEF UserLeaves, Absent
        <3>2. /\ \A q \in live \cup {Kernel} : TopIn(mem', q) = Top(q)
              /\ \A q \in live \cup {Kernel}, x \in {0} \X Index \X Index :
                    Leaf(mem', Top(q), x) = IF q = s /\ x = path THEN Absent ELSE Leaf(mem, Top(q), x)
              /\ Leaf(mem, Top(s), path).p
            BY <2>1, <2>2, <2>4, <3>1, MapEffect
        <3> QED BY <2>1, <2>2, <2>4, <3>1, <3>2, RefineSet
    <2> QED BY <2>2, <2>3, <2>4
<1>5. ASSUME NEW s \in Spaces, NEW path \in UserPaths, NEW write \in BOOLEAN, Map(s, path, write)
      PROVE  Abstract!ASNext
    <2>1. s \in live /\ ~halted
        BY <1>5 DEF Map
    <2>2. PICK t \in Ptwalk(s, path, UserFlags) :
             IF t.at = Null \/ t.mem[t.at][path[3]].p THEN Panic(t)
             ELSE mem' = [t.mem EXCEPT ![t.at][path[3]] = UserEntry(write)] /\ UNCHANGED <<live, halted>>
        BY <1>5 DEF Map
    <2>3. CASE Panic(t)
        BY <2>1, <2>3, RefineWalk
    <2>4. CASE t.at # Null /\ ~t.mem[t.at][path[3]].p
        <3>1. UserEntry(write) \in UserLeaves /\ UserEntry(write).p
            BY <1>5, Basics DEF UserEntry
        <3>2. /\ \A q \in live \cup {Kernel} : TopIn(mem', q) = Top(q)
              /\ \A q \in live \cup {Kernel}, x \in {0} \X Index \X Index :
                    Leaf(mem', Top(q), x) = IF q = s /\ x = path THEN UserEntry(write) ELSE Leaf(mem, Top(q), x)
              /\ ~Leaf(mem, Top(s), path).p
            BY <2>1, <2>2, <2>4, <3>1, MapEffect
        <3> QED BY <2>1, <2>2, <2>4, <3>1, <3>2, RefineSet
    <2> QED BY <2>2, <2>3, <2>4
<1>6. ASSUME UNCHANGED <<mem, live, halted>>
      PROVE  UNCHANGED <<live, Maps, halted>>
    <2>1. \A r \in live, v \in UserPaths : Leaf(mem', TopIn(mem', r), v) = Leaf(mem, Top(r), v)
        BY <1>6 DEF Top
    <2> QED BY <1>6, <2>1, SameMaps
<1>7. ASSUME NEW c \in Processors, NEW s \in Spaces \cup {Kernel}, SetCr3(c, s)
      PROVE  UNCHANGED <<live, Maps, halted>>
    BY <1>6, <1>7 DEF SetCr3
<1>8. ASSUME NEW c \in Processors, NEW p \in Paths, Access(c, p)
      PROVE  UNCHANGED <<live, Maps, halted>>
    BY <1>6, <1>8 DEF Access
<1>9. CASE UNCHANGED vmeVars
    BY <1>6, <1>9 DEF vmeVars
<1> QED BY <1>1, <1>2, <1>3, <1>4, <1>5, <1>7, <1>8, <1>9 DEF VmeNext

\* To its callers vme.c is a map for every address space, empty when it is protected
\* again, that changes at one page by a call of _map, whatever tables that takes.
THEOREM VmeRefinement == VmeSpec => ImplementsMaps
<1>1. VmeInit => Abstract!ASInit
    <2> SUFFICES ASSUME VmeInit PROVE Abstract!ASInit
        OBVIOUS
    <2>1. live = {} /\ halted = FALSE
        BY DEF VmeInit
    <2>2. Maps = [s \in Spaces |-> Abstract!NoMap]
        BY <2>1, MapsAre DEF Abstract!NoMap
    <2> QED BY <2>1, <2>2 DEF Abstract!ASInit
<1>2. VmeIInv /\ [VmeNext]_vmeVars => [Abstract!ASNext]_<<live, Maps, halted>>
    BY RefineStep
<1> QED BY <1>1, <1>2, VmeInvariant, PTL DEF VmeSpec, ImplementsMaps, Abstract!ASSpec, Abstract!asVars
=============================================================================
