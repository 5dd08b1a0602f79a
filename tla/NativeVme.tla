----------------------------- MODULE NativeVme -----------------------------
(***************************************************************************)
(* Virtual memory of the native platform: native/vme.c.  A processor is a  *)
(* process forked by _mpe_init, with host mappings of its own.  The list   *)
(* of an address space and the flags is_mapped in it are in memory that    *)
(* all processes share.  pgalloc returns zeroed pages.  A node is named by *)
(* its va: _map makes one per va.  Calls are atomic.                       *)
(***************************************************************************)
CONSTANTS Procs, Heads, Vas, Pas

None == "none"              \* NULL, and no mapping

ASSUME NativeAssumption ==
    /\ None \notin Heads \cup Vas \cup Pas
    /\ Heads \cap Vas = {}

VARIABLES
    link,       \* per list: node -> next node, the list itself being its head
    pa,         \* per list and va: pp->pa
    isMapped,   \* per list and va: pp->is_mapped
    vmHead,     \* per process: thiscpu->vm_head
    host,       \* per process: va -> pa, what the host has mapped
    endless,    \* processes in a list_foreach that does not end
    remapped,   \* history: _map has been called for a va that was in the list
    together,   \* history: an address space was in use on two processes at a time
    remote      \* history: _map has been called for one in use on another process

nativeVars == <<link, pa, isMapped, vmHead, host, endless, remapped, together, remote>>
history == <<remapped, together, remote>>

NativeInit ==
    /\ link = [s \in Heads |-> [x \in Vas \cup {s} |-> None]]
    /\ pa = [s \in Heads |-> [v \in Vas |-> None]]
    /\ isMapped = [s \in Heads |-> [v \in Vas |-> FALSE]]
    /\ vmHead = [c \in Procs |-> None]
    /\ host = [c \in Procs |-> [v \in Vas |-> None]]
    /\ endless = {}
    /\ remapped = FALSE /\ together = FALSE /\ remote = FALSE

\* What list_foreach comes across on a list l of s: the nodes, and None unless it never
\* ends, which is the least set with the first node and with the next of each.
Passes(l, s, S) == l[s] \in S /\ \A x \in S \ {None} : l[x] \in S
ReachedIn(l, s) ==
    {x \in Vas \cup {None} : \A S \in SUBSET (Vas \cup {None}) : Passes(l, s, S) => x \in S}
Reached(s) == ReachedIn(link[s], s)
Nodes(s) == Reached(s) \ {None}
Ends(s) == None \in Reached(s)

InUse(s) == {c \in Procs : vmHead[c] = s}

\* Faulty variant: the two assignments are swapped.
InsertedSwapped(s, v) == [link[s] EXCEPT ![s] = v, ![v] = v]

\* pp->next = vm_head->next; vm_head->next = pp, whether pp is new or not.
Inserted(s, v) == [link[s] EXCEPT ![v] = link[s][s], ![s] = v]

Map(c, s, v, p) ==
    /\ c \notin endless
    /\ IF v \notin Nodes(s) /\ ~Ends(s)
         THEN /\ endless' = endless \cup {c}
              /\ UNCHANGED <<link, pa, isMapped, host, history>>
         ELSE /\ link' = [link EXCEPT ![s] = Inserted(s, v)]
              /\ pa' = [pa EXCEPT ![s][v] = p]
              /\ isMapped' = [isMapped EXCEPT ![s][v] = vmHead[c] = s]
              /\ host' = IF vmHead[c] = s THEN [host EXCEPT ![c][v] = p] ELSE host
              /\ remapped' = (remapped \/ v \in Nodes(s))
              /\ remote' = (remote \/ InUse(s) \ {c} # {})
              /\ UNCHANGED <<endless, together>>
    /\ UNCHANGED vmHead

\* Faulty variant: is_mapped is not looked at, nor the mappings undone.
UnmappedNot(c) == host[c]

\* The host mappings of c after the loop over the old list.
Unmapped(c) ==
    [v \in Vas |-> IF vmHead[c] # None /\ v \in Nodes(vmHead[c]) /\ isMapped[vmHead[c]][v]
                   THEN None ELSE host[c][v]]

\* __am_switch to a context of s, or of the kernel.
Switch(c, s) ==
    /\ c \notin endless /\ s # vmHead[c]
    /\ IF \E l \in {vmHead[c], s} \ {None} : ~Ends(l)
         THEN /\ endless' = endless \cup {c}
              /\ UNCHANGED <<isMapped, vmHead, host, together>>
         ELSE /\ host' = [host EXCEPT ![c] =
                    [v \in Vas |-> IF s # None /\ v \in Nodes(s) THEN pa[s][v]
                                   ELSE Unmapped(c)[v]]]
              /\ isMapped' = [l \in Heads |-> [v \in Vas |->
                    CASE l = s /\ v \in Nodes(l) -> TRUE
                      [] l = vmHead[c] /\ v \in Nodes(l) -> FALSE
                      [] OTHER -> isMapped[l][v]]]
              /\ vmHead' = [vmHead EXCEPT ![c] = s]
              /\ together' = (together \/ (s # None /\ InUse(s) # {}))
              /\ UNCHANGED endless
    /\ UNCHANGED <<link, pa, remapped, remote>>

NativeNext ==
    \E c \in Procs :
        \/ \E s \in Heads, v \in Vas, p \in Pas : Map(c, s, v, p)
        \/ \E s \in Heads \cup {None} : Switch(c, s)

NativeSpec == NativeInit /\ [][NativeNext]_nativeVars
------------------------------------------------------------------------------
\* What a process ought to have mapped.
Wanted(c) ==
    [v \in Vas |-> IF vmHead[c] # None /\ v \in Nodes(vmHead[c]) THEN pa[vmHead[c]][v]
                   ELSE None]

\* As long as no address space is in use on two processes and no va is mapped twice,
\* a process never has a page of another address space, nor an outdated one, although
\* is_mapped belongs to the list and the mappings to the process.
NothingForeign ==
    ~together /\ ~remapped =>
        \A c \in Procs, v \in Vas : host[c][v] \in {None, Wanted(c)[v]}

\* If besides every _map is for an address space in use on no other process, a
\* process has all the pages of the one in use.
AllThere ==
    ~together /\ ~remapped /\ ~remote => \A c \in Procs : host[c] = Wanted(c)

\* Between them: what the host has mapped for a process is what its address space says.
HostMatches == NothingForeign /\ AllThere

\* Only mapping a va twice makes a list endless, and then it stays so.
EndlessByRemap ==
    /\ (endless # {} \/ \E s \in Heads : ~Ends(s)) => remapped
    /\ remapped => \E s \in Heads : ~Ends(s)
=============================================================================
