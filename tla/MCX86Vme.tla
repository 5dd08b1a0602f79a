------------------------------ MODULE MCX86Vme ------------------------------
(***************************************************************************)
(* TLC instance of X86Vme: two processors, one of them with paging, two    *)
(* address spaces with two pages below different level-1 entries, and four *)
(* tables for them, two less than they could use, besides the two that     *)
(* _vme_init takes.                                                        *)
(***************************************************************************)
EXTENDS X86Vme, TLC

TwoUserPaths == {<<0, 1, 0>>, <<0, 2, 1>>}
TwoKernelPaths == {<<0, 0, 0>>, <<0, 0, 1>>}
OwnFrame(path) == 100 + path[3]

\* Which page a table is in is never observed: View names a state by the trees of
\* tables below the address spaces in use, and by the number of pages left.
Hung(e) == [e EXCEPT !.to = IF e.p THEN mem[e.to] ELSE Zero]
Tree(s) == IF mem[s][0].p THEN [i \in Index |-> Hung(mem[Top(s)][i])] ELSE << >>

View == <<Cardinality(free), unmade, live, [s \in live \cup {Kernel} |-> Tree(s)],
          [c \in Processors |-> {s \in live \cup {Kernel} : cr3[c] = Top(s)}],
          paging, tlb, halted, unmapped>>
=============================================================================
