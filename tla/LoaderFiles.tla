---------------------------- MODULE LoaderFiles ----------------------------
(***************************************************************************)
(* Files for instances of Loader.  Two ELF files whose symbols share a     *)
(* name and an address, with mapping symbols, names of source files and    *)
(* offsets the other's table lacks; an ELF file without symbols; raw files *)
(* of five and eight bytes; files that cannot be loaded.                   *)
(***************************************************************************)
EXTENDS Sequences, TLC

LOCAL sym(n, v, t) == [name |-> n, value |-> v, type |-> t]
LOCAL symtab(s, l) == [type |-> 2, symbols |-> s, link |-> l]
LOCAL strtab(t) == [type |-> 3, strings |-> t]
LOCAL elf(s) == [type |-> "elf", size |-> 0, readable |-> TRUE, is_elf |-> TRUE, sections |-> s]
LOCAL bin(n) == [type |-> "bin", size |-> n, readable |-> TRUE, is_elf |-> FALSE, sections |-> <<>>]

CoreFile ==
  elf(<<[type |-> 1],
        symtab(<<sym(1, 0, 2), sym(2, 0, 0), sym(3, 8, 1), sym(4, 8, 4), sym(0, 4, 2)>>, 3),
        strtab(<<"start", "$a", "count", "init.c">>)>>)
GuestFile == elf(<<symtab(<<sym(2, 0, 0), sym(1, 0, 2), sym(3, 4, 0)>>, 2),
                   strtab(<<"main", "$a", "start">>)>>)
Stripped == elf(<<[type |-> 1]>>)
Missing == [elf(<<>>) EXCEPT !.readable = FALSE]
Text == [bin(3) EXCEPT !.type = "other"]

Files == ("core" :> CoreFile) @@ ("guest" :> GuestFile) @@ ("stripped" :> Stripped)
         @@ ("five" :> bin(5)) @@ ("eight" :> bin(8)) @@ ("missing" :> Missing) @@ ("text" :> Text)
FileAndGuest == ("core" :> CoreFile) @@ ("guest" :> GuestFile)
Lines == {<<"core">>, <<"core", "guest">>, <<"five", "core">>, <<"eight">>, <<"text">>}
CoreFirst == {<<"core">>}
=============================================================================
