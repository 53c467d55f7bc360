------------------------------- MODULE Loader -------------------------------
(***************************************************************************)
(* Loading files into the simulator and their symbols into the debugger:   *)
(* main and doLoadBinary (debugger.c), and symbols.c.  The names of        *)
(* symbols are offsets into one string table, the one read last.  What the *)
(* simulator takes from an ELF file for memory is left out.                *)
(***************************************************************************)
EXTENDS Integers, Sequences, SequencesExt

CONSTANTS
  File,       \* File[f]: the files, by name
  Register,   \* the names icmReadReg knows
  Place,      \* the load addresses a user may give with a file
  MEM,        \* the bytes of memory
  Binaries,   \* the command lines: sequences of file names
  MaxLoads,   \* how many files are loaded in all
  none

\* A file has a kind by its extension; it may be missing.  An ELF file has
\* sections, of which symbol tables and string tables matter here; any other
\* is so many bytes.  A symbol table says which section has its names (link).

\* What the properties need of the constants: files have sizes, and what main is
\* given are files.
FilesOfBytes ==
  /\ \A f \in DOMAIN File : File[f].size \in Nat
  /\ Binaries \subseteq Seq(DOMAIN File)
  /\ Place \subseteq Nat /\ MEM \in Nat

\* And of ELF files that their symbols are names in the string table that comes
\* last, which is the one the symbol tables name.
SymbolTables ==
  \A f \in DOMAIN File : File[f].is_elf =>
    LET of_file == File[f].sections
    IN /\ of_file \in Seq(Range(of_file))
       /\ \A k \in DOMAIN of_file : of_file[k].type = 3 => of_file[k].strings # none
       /\ \A t \in {u \in Range(of_file) : u.type = 2} :
            /\ t.link \in DOMAIN of_file /\ of_file[t.link].type = 3
            /\ \A k \in DOMAIN of_file : of_file[k].type = 3 => k <= t.link
            /\ t.symbols \in Seq(Range(t.symbols))
            /\ \A s \in Range(t.symbols) :
                 s.name \in Nat /\ (s.name # 0 => s.name \in DOMAIN of_file[t.link].strings)

VARIABLES
  at,       \* main before the simulation starts, the prompt, or the end
  left,     \* the binaries main has yet to load
  loads,
  memory,   \* each byte: what was there, a byte of a file, or a filling
  need_start_binary, start,   \* start: the file the processor starts in
  symbols,  \* the chain, the last one first
  strings,
  read      \* the files whose sections were read, the last one first

vars == <<at, left, loads, memory, need_start_binary, start, symbols, strings, read>>

-----------------------------------------------------------------------------
(* Symbols.                                                                *)

wanted(s) == s.type \in {0, 1, 2} /\ s.name # 0

\* The symbols of one section, pushed one by one.
do_read_symbol_table(chain, section) ==
  LET pushed[k \in 0 .. Len(section.symbols)] ==
        IF k = 0 THEN chain
        ELSE IF wanted(section.symbols[k]) THEN <<section.symbols[k]>> \o pushed[k-1]
        ELSE pushed[k-1]
  IN pushed[Len(section.symbols)]

\* Mutant: a string table that is there already is kept.
do_read_string_table_once(table, section) == IF table = none THEN section.strings ELSE table

do_read_string_table(table, section) == section.strings

\* What the sections of f make of the chain and the table.
sections(f) ==
  LET of_file == File[f].sections
      turn(r, s) == IF s.type = 2 THEN [r EXCEPT !.chain = do_read_symbol_table(@, s)]
                    ELSE IF s.type = 3 THEN [r EXCEPT !.table = do_read_string_table(@, s)]
                    ELSE r
      turns[k \in 0 .. Len(of_file)] ==
        IF k = 0 THEN [chain |-> symbols, table |-> strings] ELSE turn(turns[k-1], of_file[k])
  IN turns[Len(of_file)]

\* A file that cannot be opened or is not an ELF file changes nothing.  Without
\* any string table the debugger ends, even if it was asked for symbols at the
\* prompt.
doLoadSymbols(f) ==
  IF ~(File[f].readable /\ File[f].is_elf) THEN UNCHANGED <<symbols, strings, read>>
  ELSE symbols' = sections(f).chain /\ strings' = sections(f).table /\ read' = <<f>> \o read

\* The string at an offset; beyond the table it is whatever is in memory there.
name(s) == IF s.name \in DOMAIN strings THEN strings[s.name] ELSE "garbage"

\* Where the chain has a name first; 0 if nowhere.
symbol_named(str) == SelectInSeq(symbols, LAMBDA s : name(s) = str)

getAddressFromSymbol(str) ==
  IF strings = none \/ symbol_named(str) = 0 THEN none ELSE symbols[symbol_named(str)].value

\* Mutant: mapping symbols are answered too.
getSymbolFromAddress_mapping(addr) ==
  LET found == SelectInSeq(symbols, LAMBDA s : s.value = addr)
  IN IF strings = none \/ found = 0 THEN none ELSE name(symbols[found])

is_mapping(str) == str \in {"$a", "$d"}

getSymbolFromAddress(addr) ==
  LET found == SelectInSeq(symbols, LAMBDA s : s.value = addr /\ ~is_mapping(name(s)))
  IN IF strings = none \/ found = 0 THEN none ELSE name(symbols[found])

\* What a word that is not a number stands for.
getNumber(str) ==
  IF str \in Register THEN "register" ELSE getAddressFromSymbol(str)

-----------------------------------------------------------------------------
(* Files.                                                                  *)

\* Mutant: the loop stops in front of the word that ends the file.
words_short(f) == File[f].size \div 4

\* The end of a file is only seen when a read meets it, so a word follows a file
\* of whole words.
words(f) == File[f].size \div 4 + 1

byte(f, k) == IF k < File[f].size THEN <<f, k>> ELSE <<"0xFF", 0>>

\* The words that can be written are, one after the other.
load_words(f, adr) ==
  LET fits == {k \in 0 .. words(f) - 1 : adr + 4 * k + 3 < MEM}
  IN memory' = [a \in DOMAIN memory |-> IF \E k \in fits : a \in adr + 4*k .. adr + 4*k + 3
                                        THEN byte(f, a - adr) ELSE memory[a]]

\* The answer of doLoadBinary, given whether the simulator took an ELF file.
loaded(f, adr, taken) ==
  CASE File[f].type = "bin" -> File[f].readable /\ adr + 4 * words(f) <= MEM
    [] File[f].type = "elf" -> taken
    [] OTHER -> FALSE

doLoadBinary(f, adr, taken) ==
  CASE File[f].type = "bin" /\ File[f].readable ->
         load_words(f, adr) /\ UNCHANGED <<need_start_binary, start, symbols, strings, read>>
    [] File[f].type = "elf" /\ taken ->
         /\ need_start_binary' = FALSE
         /\ start' = IF need_start_binary THEN f ELSE start
         /\ doLoadSymbols(f)
         /\ UNCHANGED memory
    [] OTHER -> UNCHANGED <<memory, need_start_binary, start, symbols, strings, read>>

\* Where the debugger stands after a step that may have looked for strings.
go_on(looked, where) == at' = IF looked /\ strings' = none THEN "exit" ELSE where

\* The simulator refuses what is not a readable ELF file, and may refuse others.
answers(f) == IF File[f].readable /\ File[f].is_elf THEN BOOLEAN ELSE {FALSE}

main_load ==
  /\ at = "main" /\ left # <<>>
  /\ \E adr \in Place \union {0}, taken \in answers(Head(left)) :
       /\ doLoadBinary(Head(left), adr, taken)
       /\ IF loaded(Head(left), adr, taken)
          THEN go_on(File[Head(left)].type = "elf", "main") ELSE at' = "exit"
  /\ left' = Tail(left) /\ loads' = loads + 1

main_starts ==
  /\ at = "main" /\ left = <<>>
  /\ at' = "prompt"
  /\ UNCHANGED <<left, loads, memory, need_start_binary, start, symbols, strings, read>>

command_L ==
  /\ at = "prompt" /\ loads < MaxLoads
  /\ \E f \in DOMAIN File, adr \in Place \union {0} : \E taken \in answers(f) :
       /\ doLoadBinary(f, adr, taken)
       /\ go_on(File[f].type = "elf" /\ taken, "prompt")
  /\ loads' = loads + 1
  /\ UNCHANGED left

command_l ==
  /\ at = "prompt" /\ loads < MaxLoads
  /\ \E f \in DOMAIN File : doLoadSymbols(f) /\ go_on(File[f].readable, "prompt")
  /\ loads' = loads + 1
  /\ UNCHANGED <<left, memory, need_start_binary, start>>

finished ==
  /\ at = "exit" \/ (at = "prompt" /\ loads = MaxLoads)
  /\ UNCHANGED vars

Init ==
  /\ at = "main" /\ left \in Binaries /\ loads = 0
  /\ memory = [a \in 0 .. MEM - 1 |-> <<"old", 0>>]
  /\ need_start_binary = TRUE /\ start = none
  /\ symbols = <<>> /\ strings = none /\ read = <<>>

Next == main_load \/ main_starts \/ command_L \/ command_l \/ finished

Spec == Init /\ [][Next]_vars

-----------------------------------------------------------------------------
(* Properties.                                                             *)

TypeOK ==
  /\ at \in {"main", "prompt", "exit"} /\ loads \in Nat
  /\ DOMAIN memory = 0 .. MEM - 1
  /\ need_start_binary \in BOOLEAN /\ start \in DOMAIN File \union {none}
  /\ \A k \in DOMAIN symbols : symbols[k].name \in Nat \ {0} /\ symbols[k].type \in 0 .. 2
  /\ at = "prompt" /\ read # <<>> => strings # none

\* The symbols of a file, each with the name it has by the format of the file.
Names(f) ==
  UNION {LET strtab == File[f].sections[t.link].strings
         IN {<<strtab[s.name], s.value>> :
               s \in {x \in Range(t.symbols) : x.type \in 0 .. 2 /\ x.name # 0}} :
           t \in {u \in Range(File[f].sections) : u.type = 2}}

\* Whatever was loaded before, in whatever order, the names of the file loaded
\* last stand for its addresses, unless they are names of registers.
NewestNames ==
  read # <<>> => \A n \in Names(read[1]) :
    n[1] \in Register \/ <<n[1], getNumber(n[1])>> \in Names(read[1])

\* And an address of that file is shown with a name it has in that file, never
\* with a mapping symbol.
NewestAddresses ==
  read # <<>> => \A n \in Names(read[1]) :
    ~is_mapping(n[1]) => LET m == getSymbolFromAddress(n[2])
                         IN ~is_mapping(m) /\ <<m, n[2]>> \in Names(read[1])

NewestFirst == NewestNames /\ NewestAddresses

\* symbols.c: "this file will load ELF symbols so we can enter variable and
\* functions names in the debugger instead of using their addresses".
NamesUsable ==
  at = "prompt" => \A f \in Range(read) : \A n \in Names(f) :
    \E g \in Range(read) : <<n[1], getAddressFromSymbol(n[1])>> \in Names(g)

\* A load that changes memory puts all bytes of one file there, in order from a
\* load address on, as far as memory goes, and leaves alone what is not in the
\* words they take and the one that follows.
LoadedWhole ==
  memory' # memory => \E f \in {g \in DOMAIN File : File[g].type = "bin"}, adr \in Place \union {0} :
    /\ \A k \in 0 .. File[f].size - 1 : adr + 4 * (k \div 4) + 3 < MEM => memory'[adr + k] = <<f, k>>
    /\ \A a \in DOMAIN memory \ (adr .. adr + File[f].size + 3) : memory'[a] = memory[a]

WholeFile == [][LoadedWhole]_vars
=============================================================================
