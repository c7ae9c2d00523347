--------------------------- MODULE VirtualSpaces ---------------------------
(***************************************************************************)
(* What the AddressSpaceManager promises its clients, without page tables, *)
(* locks or allocators: each kernel has a virtual address space, a partial *)
(* function from virtual pages to physical frames, and a frame backs one   *)
(* page of one kernel only, unless it is one of the reserved frames, which *)
(* every kernel may map at their own address.                              *)
(***************************************************************************)
EXTENDS Integers

CONSTANTS
  Id,        (* names of address spaces: physical addresses of the tables  *)
  Page,      (* virtual pages                                              *)
  Frame,     (* physical frames                                            *)
  Fixed      (* reserved frames: IO registers, local memory                *)

VARIABLE space     (* [live Id -> [mapped Page -> Frame]]                   *)

Live     == DOMAIN space
Backing  == UNION {{space[k][p] : p \in DOMAIN space[k]} : k \in Live}

Init == space = [k \in {} |-> {}]

\* A new kernel: its space is empty and its name is no frame in use.
Create(k) ==
  /\ k \notin Live \cup Backing
  /\ space' = [j \in Live \cup {k} |-> IF j = k THEN [p \in {} |-> 0] ELSE space[j]]

\* One more page of one kernel; no page already mapped ever moves.
Map(k, p, f) ==
  /\ k \in Live /\ p \notin DOMAIN space[k]
  /\ IF f \in Fixed THEN f = p ELSE f \notin Backing \cup Live
  /\ space' = [space EXCEPT ![k] =
                 [q \in DOMAIN @ \cup {p} |-> IF q = p THEN f ELSE @[q]]]

\* The kernel is freed: all its mappings go at once.
Destroy(k) ==
  /\ k \in Live
  /\ space' = [j \in Live \ {k} |-> space[j]]

Next ==
  \/ \E k \in Id : Create(k) \/ Destroy(k)
  \/ \E k \in Id, p \in Page, f \in Frame : Map(k, p, f)

Spec == Init /\ [][Next]_space
============================================================================
