-------------------------------- MODULE MCPmm --------------------------------
(***************************************************************************)
(* TLC instances of Pmm: a heap of a few dozen bytes.                      *)
(*                                                                         *)
(* Which slot of the block area a block lies in, and what a slot that is   *)
(* in FreeAllocNo[] still contains, is never observed: balloc hands out    *)
(* slots that kalloc overwrites.  View names a state by its lists instead. *)
(***************************************************************************)
EXTENDS Pmm

Contents(head) ==
    LET at == Walk(area, head)
    IN  [n \in 1 .. NSlots |-> IF at[n] = NullPtr THEN NullPtr
                               ELSE <<RangeOf(at[n]), area.size[at[n]]>>]

View == <<Contents(Free), Contents(Alloc), Len(area.freeno), area.maxpos, owned,
          halted, tangled>>
=============================================================================
