------------------------------- MODULE Start -------------------------------
(***************************************************************************)
(* What the processor's memory needs before guests run: the page table of  *)
(* memory_init, and caches that agree with memory.                         *)
(***************************************************************************)
EXTENDS MemoryInit, Caches
=============================================================================
