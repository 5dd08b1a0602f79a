------------------------------ MODULE MCHosted ------------------------------
(***************************************************************************)
(* TLC instance of the parts that no kernel or device stands behind, each  *)
(* a stage of its own: address spaces (NativeVme) and keys (KeyQueue) of   *)
(* the native platform, sperf, and the arithmetic of klib and libkvdb.     *)
(***************************************************************************)
EXTENDS NativeVme, KeyQueue, Sperf, Int64, KvInt

VARIABLE stage

numbers == <<dividend, divisor, number>>
hostedVars == <<nativeVars, keyVars, sperfVars, numbers, stage>>

HostedInit ==
    /\ stage \in {"spaces", "keys", "sperf", "division", "offsets"}
    /\ NativeInit /\ KeyInit /\ SperfInit
    /\ stage # "keys" => running = CHOOSE t \in Readers : TRUE
    /\ IF stage = "division" THEN Int64Init ELSE dividend = 0 /\ divisor = 0
    /\ IF stage = "offsets" THEN KvIntInit ELSE number = 0

InSpaces(A) == stage = "spaces" /\ A /\ UNCHANGED <<keyVars, sperfVars, numbers, stage>>
InKeys(A) == stage = "keys" /\ A /\ UNCHANGED <<nativeVars, sperfVars, numbers, stage>>
InSperf(A) == stage = "sperf" /\ A /\ UNCHANGED <<nativeVars, keyVars, numbers, stage>>

HostedNext == InSpaces(NativeNext) \/ InKeys(KeyNext) \/ InSperf(SperfNext)

\* The fairness of KeySpec and SperfSpec, of the stage it is about.
HostedSpec ==
    /\ HostedInit /\ [][HostedNext]_hostedVars
    /\ WF_hostedVars(InKeys(EventLock \/ Store \/ Bump \/ EventUnlock))
    /\ WF_hostedVars(InKeys(\E t \in Readers : Reader(t)))
    /\ WF_hostedVars(InSperf(Parent))
=============================================================================
