------------------------------ MODULE EfStack ------------------------------
(***************************************************************************)
(* The stack of a fiber (src/ef/fiber.c): an area of whole pages of which  *)
(* at first only the highest is mapped.  A fault below the mapped part     *)
(* makes the signal handler map what lies between, down to the page of the *)
(* fault, but never the lowest page of the area, which is the guard.       *)
(* Addresses are natural numbers; sizes that overflow size_t are no sizes  *)
(* of areas, since mmap does not give such out.                            *)
(***************************************************************************)
EXTENDS Integers

CONSTANT PageSize \* ef_page_size

ASSUME PageAssumption == PageSize \in Nat \ {0}

\* addr & ~(ef_page_size - 1)
LowerBoundary(addr) == addr - (addr % PageSize)

\* The size of the area for the size that was asked for.
AreaSize(wanted) == LowerBoundary((IF wanted = 0 THEN PageSize ELSE wanted) + PageSize - 1)

\* ef_fiber_create: stack_area, the end of the area, stack_lower.
CreatedStack(area, wanted) ==
  [area |-> area, end |-> area + AreaSize(wanted), lower |-> area + (AreaSize(wanted) - PageSize)]

\* ef_fiber_expand_stack: whether it maps anything for a fault at addr, and what
\* becomes of the stack.  When it does not, or mprotect fails, the program is
\* aborted.
Expands(stack, addr) ==
  /\ LowerBoundary(addr) - stack.area >= PageSize
  /\ LowerBoundary(addr) < stack.lower

ExpandedStack(stack, addr) == [stack EXCEPT !.lower = LowerBoundary(addr)]

----------------------------------------------------------------------------
(***************************************************************************)
(* What a stack must be like.                                              *)
(***************************************************************************)
Boundary == {addr \in Nat : LowerBoundary(addr) = addr}

\* What is mapped is the upper part, whole pages; below it there is the guard,
\* unless the area has one page only.
Stack ==
  {s \in [area : Boundary, end : Boundary, lower : Boundary] :
     /\ s.lower + PageSize <= s.end
     /\ \/ s.area + PageSize <= s.lower
        \/ s.lower = s.area /\ s.end = s.area + PageSize}

\* The faults of a fiber on its own stack that are no overflow.
Reserve(s) == {addr \in Nat : s.area + PageSize <= addr /\ addr < s.lower}

\* A stack grows for exactly the addresses between the guard and what it has, to
\* a stack that has the address.
GrowsRightly(s, addr) ==
  /\ Expands(s, addr) <=> addr \in Reserve(s)
  /\ Expands(s, addr) => /\ ExpandedStack(s, addr) \in Stack
                         /\ addr \notin Reserve(ExpandedStack(s, addr))
                         /\ ExpandedStack(s, addr).lower <= addr
=============================================================================
