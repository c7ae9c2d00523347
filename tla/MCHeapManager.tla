--------------------------- MODULE MCHeapManager ---------------------------
(***************************************************************************)
(* Instances of HeapManager for TLC: two bytes in a page; a segment below  *)
(* the heap and a stack in its way.                                        *)
(***************************************************************************)
EXTENDS HeapManager

SegmentAndStack == {BasePage - 1, BasePage + 3}
============================================================================
