------------------------------- MODULE MCHeap -------------------------------
(***************************************************************************)
(* The heap on eight cells, given with four bytes too many, and words of   *)
(* ten bits.  What programs write looks like a marker: of a free block of  *)
(* no size, and of a last block that is taken.                             *)
(***************************************************************************)
EXTENDS Heap

Asked == {0, 1, 9, 17}
Words == {0, 11}

\* Just below the heap, and just beyond what in_this_heap accepts.
OutOfReach == {Base, heap.memory + heap.size + 1}

\* The block of the neighbouring heap.
Neighbours == {other.memory + 1}
=============================================================================
