------------------------------- MODULE Inspect -------------------------------
(***************************************************************************)
(* The commands of the debugger that show memory and code and write memory *)
(* word by word (debugger.c): which addresses they cover.                  *)
(***************************************************************************)
EXTENDS Integers, Sequences, SequencesExt

CONSTANTS
  SPACE,     \* the size of the address space, a multiple of 64
  Mapped,    \* the words that are memory
  Value,     \* what a user types for w
  Requests,  \* the numbers given as an address or a length
  MaxTyped,  \* how many values are typed
  none

MEMORY_DUMP_SIZE == 32
Word == {a \in 0 .. SPACE - 1 : a % 4 = 0}

\* What the properties need of the constants: the address space is a circle of
\* whole lines, which memory does not fill, and a user gives numbers.
AddressSpace ==
  /\ SPACE \in Nat \ {0} /\ SPACE % 64 = 0
  /\ Mapped \subseteq Word /\ Mapped # Word
  /\ Requests \subseteq Int

VARIABLES
  pc,
  memory,
  shown,  \* the words the last command printed, with the one it marked
  asked,  \* what it was asked for
  adr,    \* where w writes next, none outside it
  typed,  \* what was typed since w was given
  buffer, \* w's buffer
  ended   \* whether input has ended

w == <<adr, typed, buffer>>
vars == <<pc, memory, shown, asked, w, ended>>

\* n words from a, through the end of the address space.
from(a, n) == [k \in 1 .. n |-> (a + 4 * (k-1)) % SPACE]
round(a, n) == a - (a % n)
at_least(n, m) == IF n < m THEN m ELSE n

-----------------------------------------------------------------------------

\* m, M: from the line before the one of the address, in full lines, of which
\* the code takes sixteen words to make one.  The words between the start of the
\* line and the address are not added: the address was rounded down before.
doShowMemory(a, len) ==
  LET count == at_least(IF len = none THEN MEMORY_DUMP_SIZE ELSE len, 4) + 4
      words == IF count % 16 # 0 THEN round(count, 16) + 16 ELSE count
  IN /\ adr = none /\ ~ended
     /\ shown' = [words |-> from(round(a, 16) - 16, words), mark |-> round(a, 4) % SPACE]
     /\ asked' = [adr |-> round(a, 4), count |-> len]
     /\ UNCHANGED <<pc, memory, w, ended>>

\* s, and the listing other commands end with: the code around pc.
doListProgram(a, len) ==
  LET pos == IF a = none THEN pc - 8 ELSE round(a, 4)
  IN /\ adr = none /\ ~ended
     /\ shown' = [words |-> from(pos, at_least(IF len = none THEN 12 ELSE len, 4)), mark |-> pc]
     /\ asked' = [adr |-> IF a = none THEN pc ELSE pos, count |-> len]
     /\ UNCHANGED <<pc, memory, w, ended>>

doWriteMemory(a) ==
  /\ adr = none /\ ~ended
  /\ adr' = round(a, 4) % SPACE /\ typed' = <<>> /\ buffer' = none
  /\ asked' = [adr |-> round(a, 4), count |-> none]
  /\ shown' = [words |-> <<>>, mark |-> none]
  /\ UNCHANGED <<pc, memory, ended>>

\* Mutant: the address goes on by one byte.
write_byte(v) ==
  /\ IF adr \in Mapped
     THEN memory' = [memory EXCEPT ![adr] = v] /\ adr' = (adr + 1) % SPACE
     ELSE adr' = none /\ UNCHANGED memory
  /\ UNCHANGED <<pc, shown, asked>>

\* A number is written where there is memory; otherwise w returns.
write(v) ==
  /\ IF adr \in Mapped
     THEN memory' = [memory EXCEPT ![adr] = v] /\ adr' = (adr + 4) % SPACE
     ELSE adr' = none /\ UNCHANGED memory
  /\ UNCHANGED <<pc, shown, asked>>

type_number(v) ==
  /\ adr # none /\ ~ended /\ Len(typed) < MaxTyped
  /\ typed' = Append(typed, v) /\ buffer' = v
  /\ write(v)
  /\ UNCHANGED ended

\* Not a number: an error, and another try (and another after the end of input).
type_other ==
  /\ adr # none /\ ~ended /\ buffer' = none
  /\ UNCHANGED <<pc, memory, shown, asked, adr, typed, ended>>

\* An empty line ends w.
type_nothing ==
  /\ adr # none /\ ~ended /\ adr' = none
  /\ UNCHANGED <<pc, memory, shown, asked, typed, buffer, ended>>

\* Input has ended: the line before is taken again.
end_of_input ==
  /\ adr # none /\ buffer # none
  /\ ended' = TRUE
  /\ write(buffer)
  /\ UNCHANGED <<typed, buffer>>

no_input == ended /\ adr = none /\ UNCHANGED vars

Init ==
  /\ pc \in Word /\ memory = [a \in Mapped |-> none]
  /\ shown = [words |-> <<>>, mark |-> none] /\ asked = [adr |-> 0, count |-> none]
  /\ adr = none /\ typed = <<>> /\ buffer = none /\ ended = FALSE

Next ==
  \/ \E a \in Requests, len \in Requests \union {none} : doShowMemory(a, len)
  \/ \E a, len \in Requests \union {none} : doListProgram(a, len)
  \/ \E a \in Requests : doWriteMemory(a)
  \/ \E v \in Value : type_number(v)
  \/ type_other \/ type_nothing \/ end_of_input \/ no_input

Spec == Init /\ [][Next]_vars

-----------------------------------------------------------------------------
(* Properties.                                                             *)

TypeOK ==
  /\ pc \in Word /\ DOMAIN memory = Mapped
  /\ Range(shown.words) \subseteq Word
  /\ adr \in Word \union {none} /\ typed \in Seq(Value) /\ ended \in BOOLEAN

\* A dump or listing shows the address it is about, asked for or the program
\* counter's, and at least four words, at either end of the address space too.
AddressShown ==
  shown.words # <<>> => asked.adr % SPACE \in Range(shown.words) /\ Len(shown.words) >= 4

\* w fills consecutive words with what was typed, in order, whatever lines were
\* no numbers, and stops before what is not memory.  When input ends, it goes on
\* with the last number.
WrittenAsTyped ==
  adr # none =>
    LET count == ((adr - asked.adr) % SPACE) \div 4
    IN /\ count >= Len(typed) /\ (~ended => count = Len(typed))
       /\ \A k \in 1 .. count :
            LET a == (asked.adr + 4 * (k-1)) % SPACE
            IN a \in Mapped /\ memory[a] = IF k <= Len(typed) THEN typed[k] ELSE Last(typed)

ShownAndWritten == AddressShown /\ WrittenAsTyped
=============================================================================
