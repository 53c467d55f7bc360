------------------------------ MODULE MCStart ------------------------------
(***************************************************************************)
(* Memory and caches: memory_init as in MCMemoryInit, or the maintenance   *)
(* of a cache of two levels, with two sets and with three ways, in front   *)
(* of sixteen bytes.  The part that does not run stays as it was.          *)
(***************************************************************************)
EXTENDS MCMemoryInit, Start

VARIABLE part

TwoLevels == <<[sets |-> 2, ways |-> 1], [sets |-> 1, ways |-> 3]>>

\* Lines are of four bytes: buffers in one, with and without its ends, over
\* several, over the end of the address space, and empty ones.
AnyBuffer == {<<0, 3>>, <<0, 4>>, <<2, 1>>, <<1, 2>>, <<4, 0>>, <<4, 2>>, <<8, 8>>, <<9, 0>>,
              <<9, 2>>, <<9, 6>>, <<12, 5>>}

PartInit == part \in {"memory_init", "caches"} /\ Init /\ CacheInit

PartNext ==
  \/ part = "memory_init" /\ Next /\ UNCHANGED <<part, cache_vars>>
  \/ part = "caches" /\ CacheNext /\ UNCHANGED <<part, vars>>

PartSpec == PartInit /\ [][PartNext]_<<part, vars, cache_vars>>
=============================================================================
