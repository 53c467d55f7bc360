----------------------------- MODULE MCLibrary -----------------------------
(***************************************************************************)
(* The library: the heap, as in MCHeap, or printf with the serial port of  *)
(* one of the boards.  A program of the second kind prints nothing, one    *)
(* number, for every eight-bit number and conversion, or one of two        *)
(* mixtures.  The part that does not run stays as it was.                  *)
(***************************************************************************)
EXTENDS MCHeap, Library

text(c) == [kind |-> "text", c |-> c]
conversion(k, a) == [kind |-> k, arg |-> a]
bare(k) == [kind |-> k]
NumberCalls == {<<<<conversion(k, n)>>>> : k \in {"i", "x", "b"}, n \in -128 .. 127}
MixedCalls == {
  <<<<text("a"), conversion("s", <<"b", "\n">>), conversion("c", "d"), conversion("d", -7)>>,
    <<bare("%"), [kind |-> "other", c |-> "q"], text("\n"), bare("end")>>>>,
  <<<<conversion("x", 10), text("\n"), conversion("s", <<>>), conversion("i", 100)>>,
    <<>>,
    <<text("\n"), text("e")>>>>}
Programs == {<<>>} \union NumberCalls \union MixedCalls

ASSUME OutOfReachApart == ForeignApart
ASSUME ProgramsWellFormed == Out!IntWidth /\ Out!CallsWellFormed

VARIABLE part

PartInit ==
  /\ part \in {"heap", "output"} /\ LibraryInit
  /\ part = "heap" => p_calls = <<>> /\ p_port = "realview"

PartNext ==
  /\ UNCHANGED part
  /\ \/ part = "heap" /\ use_heap
     \/ part = "output" /\ use_printf

PartSpec == PartInit /\ [][PartNext]_<<part, vars, printing>>
=============================================================================
