------------------------------- MODULE Sperf -------------------------------
(***************************************************************************)
(* sperf, the profiler of system calls: sperf/sperf.c.  The child becomes  *)
(* `strace -T` with its standard error on a pipe, and so is that of the    *)
(* program it traces.  The parent adds up the time of every call, and      *)
(* reports and starts again at the first call after a second.  A line has  *)
(* a kind, the name before the '(', and the microseconds of the time after *)
(* it: the last 8 characters, ".000012>", that the code takes for the time *)
(* have no seconds.  What is printed is left out but for the percentages.  *)
(***************************************************************************)
EXTENDS Integers, Sequences, FiniteSets, Functions

CONSTANTS
    SysNames,       \* names of system calls
    Micros,         \* microseconds of a call
    MaxLines,       \* bound: lines written
    PipeLines       \* bound: lines in the pipe

ASSUME SperfAssumption ==
    Micros \subseteq Nat /\ MaxLines \in Nat /\ PipeLines \in Nat \ {0}

Shown == 6                  \* calls in a report

VARIABLES
    pipe, written,  \* the lines in the pipe, how many were written
    child,          \* strace and the program under it: "starting", "tracing" or
                    \* "gone", when neither is left with the pipe to write to
    sysctrl, total, \* one entry [name, t] per call, and the sum
    reachEnd,       \* reachend
    phase,          \* the parent: "reading", "reporting", "recursing" or "done"
    seen, told      \* history: microseconds read, microseconds in earlier reports

sperfVars == <<pipe, written, child, sysctrl, total, reachEnd, phase, seen, told>>
childVars == <<pipe, written, child>>
parentVars == <<sysctrl, total, reachEnd, phase, seen, told>>

Line(kind, n, t) == [kind |-> kind, name |-> n, t |-> t]
Noise == Line("noise", "", 0)       \* no name in front of a '(': valid_syscall == 0
Plus == Line("plus", "", 0)         \* begins with '+'
Timed == {Line("call", n, t) : n \in SysNames, t \in Micros}
Untimed == {Line("call", n, 0) : n \in SysNames}    \* no '>' at the end

SperfInit ==
    /\ pipe = << >> /\ written = 0 /\ child = "starting"
    /\ sysctrl = << >> /\ total = 0 /\ reachEnd = FALSE /\ phase = "reading"
    /\ seen = 0 /\ told = 0
------------------------------------------------------------------------------
(***************************************************************************)
(* The child                                                               *)
(***************************************************************************)
Writes(l) ==
    /\ written < MaxLines /\ Len(pipe) < PipeLines
    /\ pipe' = Append(pipe, l)
    /\ written' = written + 1

\* No strace on the PATH: perror("After execve") is the only line.
ExecFails ==
    /\ child = "starting" /\ Writes(Noise) /\ child' = "gone"
    /\ UNCHANGED parentVars

\* strace, or the program, which may write anything.
Traces ==
    /\ child # "gone" /\ child' = "tracing"
    /\ \E l \in Timed \cup Untimed \cup {Noise, Plus} : Writes(l)
    /\ UNCHANGED parentVars

\* "+++ exited with 0 +++"
Exits ==
    /\ child = "tracing" /\ Writes(Plus) /\ child' = "gone"
    /\ UNCHANGED parentVars

\* strace and the program are killed, or the one that was left is.  A program that
\* survives its strace still has the pipe, and nothing changes for the parent.
Killed ==
    /\ child # "gone" /\ child' = "gone"
    /\ UNCHANGED <<pipe, written, parentVars>>
------------------------------------------------------------------------------
(***************************************************************************)
(* The parent                                                              *)
(***************************************************************************)
\* Faulty variant: a known name is added to its entry and to a new one.
RecordedTwice(l) ==
    Append([i \in DOMAIN sysctrl |->
              IF sysctrl[i].name = l.name THEN [sysctrl[i] EXCEPT !.t = @ + l.t]
              ELSE sysctrl[i]], [name |-> l.name, t |-> l.t])

Recorded(l) ==
    IF \E i \in DOMAIN sysctrl : sysctrl[i].name = l.name
      THEN [i \in DOMAIN sysctrl |->
              IF sysctrl[i].name = l.name THEN [sysctrl[i] EXCEPT !.t = @ + l.t]
              ELSE sysctrl[i]]
      ELSE Append(sysctrl, [name |-> l.name, t |-> l.t])

\* One round of the inner loop; `due` says whether a second has passed.
ReadLine(due) ==
    /\ phase = "reading" /\ pipe # << >>
    /\ pipe' = Tail(pipe)
    /\ LET l == Head(pipe)
       IN  CASE l.kind = "plus" ->
                  /\ reachEnd' = TRUE /\ phase' = "reporting"
                  /\ UNCHANGED <<sysctrl, total, seen>>
             [] l.kind = "noise" -> UNCHANGED <<sysctrl, total, reachEnd, phase, seen>>
             [] OTHER ->
                  /\ total' = total + l.t
                  /\ sysctrl' = Recorded(l)
                  /\ seen' = seen + l.t
                  /\ phase' = IF due THEN "reporting" ELSE "reading"
                  /\ UNCHANGED reachEnd
    /\ UNCHANGED <<written, child, told>>

\* read returns 0 and the inner loop ends, whether the last line came or not.
ReadsEof ==
    /\ phase = "reading" /\ pipe = << >> /\ child = "gone"
    /\ phase' = "reporting"
    /\ UNCHANGED <<childVars, sysctrl, total, reachEnd, seen, told>>

\* Faulty variant: 0/0 is taken for 0.
RatioBadNever(t) == total > 0 /\ (100 * t) \div total > 100

\* (int) of 0.0/0.0 is INT_MIN.  An entry above sys_num is 0.
RatioBad(t) == total = 0 \/ (100 * t) \div total \notin 0 .. 100

\* qsort with syscmp, which compares the times only: equal ones come in any order.
Sorted(s) ==
    {[i \in DOMAIN s |-> s[p[i]]] :
        p \in {q \in Bijection(DOMAIN s, DOMAIN s) :
                \A i, j \in DOMAIN s : i < j => s[q[i]].t >= s[q[j]].t}}

Cleared(s) == [i \in DOMAIN s |-> [s[i] EXCEPT !.t = 0]]

\* A bad percentage is met by error_dfs, which calls itself without end.
Report ==
    /\ phase = "reporting"
    /\ \E sorted \in Sorted(sysctrl) :
        LET ShownTime(i) == IF i <= Len(sorted) THEN sorted[i].t ELSE 0
        IN  IF \E i \in 1 .. Shown : RatioBad(ShownTime(i))
              THEN phase' = "recursing" /\ sysctrl' = sorted /\ UNCHANGED <<total, told>>
              ELSE /\ phase' = IF reachEnd THEN "done" ELSE "reading"
                   /\ sysctrl' = Cleared(sorted) /\ total' = 0
                   /\ told' = told + total
    /\ UNCHANGED <<childVars, reachEnd, seen>>

Parent == ReadsEof \/ Report \/ \E due \in BOOLEAN : ReadLine(due)
SperfNext == ExecFails \/ Traces \/ Exits \/ Killed \/ Parent

\* The parent runs on; nothing makes the program under strace end.
SperfSpec == SperfInit /\ [][SperfNext]_sperfVars /\ WF_sperfVars(Parent)
------------------------------------------------------------------------------
\* The microseconds in a table, each as a pair of an entry and a number.
Units(s) == UNION {{i} \X (1 .. s[i].t) : i \in DOMAIN s}

\* An entry per name, and the entries add up to the total that they are divided by,
\* which is what was read and not told yet: although table and total are reset by
\* different code and the table is sorted in between, every call is in one report.
\* The recursion without end at a bad percentage (sperf.c:177) begins in an interval
\* without any time, so that it takes no call with it.
CountedOnce ==
    /\ \A i, j \in DOMAIN sysctrl : sysctrl[i].name = sysctrl[j].name => i = j
    /\ Cardinality(Units(sysctrl)) = total
    /\ total = seen - told
    /\ phase = "recursing" => seen = told

\* Once strace and the program are gone, so that the pipe has no writer, the parent
\* comes to its end, in order or not, even if the last line never came.  A program that
\* outlives strace keeps the parent waiting for it in read.
EndsAfterChild == child = "gone" ~> phase \in {"recursing", "done"}
=============================================================================
