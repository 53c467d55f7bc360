---------------------------- MODULE MCMemoryInit ----------------------------
(***************************************************************************)
(* memory_init on the layouts of two boards.  520 sections reach past the  *)
(* last entry of the RealView layout; 8 hold all the RAM of the ARM9 one.  *)
(***************************************************************************)
EXTENDS MemoryInit

FirstSections == 0..(Sections - 1)
=============================================================================
