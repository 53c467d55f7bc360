----------------------------- MODULE CommandLine -----------------------------
(***************************************************************************)
(* How the debugger reads a command (debugger.c): the line goes into a     *)
(* buffer that is cut into words in place, and a word may be a number.     *)
(* At the end of input the buffer is used again as the last command left   *)
(* it, because the answer of fgets is not looked at.                       *)
(***************************************************************************)
EXTENDS Integers, Sequences, SequencesExt

CONSTANTS
  Char,      \* the characters of lines
  Line,      \* the lines that may be typed, shorter than the buffer
  WIDTH      \* the bits of an int

nul == "nul"
newline == "newline"
is_space(c) == c \in {" ", newline}

\* The value of a digit; what is none has no value below a base.
lower == <<"0", "1", "2", "3", "4", "5", "6", "7", "8", "9", "a", "b", "c", "d", "e", "f">>
upper == <<"A", "B", "C", "D", "E", "F">>
is_digit(c, n) == c = lower[n+1] \/ (n > 9 /\ c = upper[n-9])
digit == [c \in Char |-> IF \E n \in 0 .. 15 : is_digit(c, n)
                         THEN CHOOSE n \in 0 .. 15 : is_digit(c, n) ELSE 16]

\* What the properties need of the constants: lines have no ends in them.
LinesOfChars ==
  /\ nul \notin Char /\ newline \notin Char
  /\ Line \subseteq Seq(Char) /\ <<>> \in Line

\* Of the numbers in them, that powers are what powers are.
Powers(base, n) == base^0 = 1 /\ \A k \in 0 .. n-1 : base^(k+1) = base * base^k
NumberWidth ==
  /\ 2^WIDTH \in Nat \ {0}
  /\ \A l \in Line : Powers(10, Len(l)) /\ Powers(16, Len(l) - 2)

VARIABLES
  typed,   \* the last line
  ended,   \* whether input has ended
  buffer,
  cmd      \* the command and its arguments, as far as there are any

vars == <<typed, ended, buffer, cmd>>

-----------------------------------------------------------------------------
(* Strings in the buffer: a pointer is a position, 0 is null.              *)

\* The first position from p on whose character is not in S; there is one,
\* because the string ends.
skip(b, p, S) == CHOOSE q \in p .. Len(b) : b[q] \notin S /\ \A k \in p .. q-1 : b[k] \in S

Spaces == {" ", newline}
NoSpaces == Char \ Spaces

string(b, p) == SubSeq(b, p, skip(b, p, Char \union Spaces) - 1)

\* The line without spaces at its ends: where it starts, and the buffer after.
trimString(b, p) ==
  LET start == skip(b, p, Spaces)
      last == skip(b, start, Char \union Spaces) - 1
      \* the first of the spaces at the end, never the first character
      cut == CHOOSE q \in start + 1 .. last + 1 :
               /\ \A k \in q .. last : is_space(b[k])
               /\ q > start + 1 => ~is_space(b[q-1])
  IN IF b[start] = nul THEN [at |-> 0, buffer |-> b]
     ELSE [at |-> start, buffer |-> [k \in DOMAIN b |-> IF k \in cut .. last THEN nul ELSE b[k]]]

\* What follows the end of a word: a string behind spaces, or none.
string_behind(b, e) ==
  LET next == skip(b, e + 1, Spaces)
  IN [at |-> IF b[next] = nul THEN 0 ELSE next, buffer |-> b]

\* Mutant: the end of the word is not marked.
getNextString_unmarked(b, p) ==
  LET after == skip(b, p, NoSpaces)
  IN IF p = 0 \/ b[after] = nul THEN [at |-> 0, buffer |-> b] ELSE string_behind(b, after)

\* Ends the word at p and finds the next one.
getNextString(b, p) ==
  LET after == skip(b, p, NoSpaces)
  IN IF p = 0 \/ b[after] = nul THEN [at |-> 0, buffer |-> b]
     ELSE string_behind([b EXCEPT ![after] = nul], after)

\* A turn of the command loop up to the switch, given what readLine left: the
\* command and three arguments, of which none uses the third.
split(b) ==
  LET c  == trimString(b, 1)
      a1 == getNextString(c.buffer, c.at)
      a2 == getNextString(a1.buffer, a1.at)
      a3 == getNextString(a2.buffer, a2.at)
      a4 == getNextString(a3.buffer, a3.at)
      starts == <<c.at, a1.at, a2.at, a3.at>>
      given == {k \in 1 .. 4 : starts[k] # 0}  \* the first ones: null leads to null
  IN [buffer |-> a4.buffer, words |-> [k \in given |-> string(a4.buffer, starts[k])]]

-----------------------------------------------------------------------------
(* Numbers.                                                                *)

failed == [ok |-> FALSE, value |-> 0]

\* One turn of the loop over the characters.
read_digit(r, c, base) ==
  IF r.state # "reading" THEN r
  ELSE IF is_space(c) /\ r.digits # 0 THEN [r EXCEPT !.state = "end"]
  ELSE IF c \notin Char \ Spaces \/ digit[c] >= base THEN [r EXCEPT !.state = "bad"]
  ELSE [r EXCEPT !.ret = (@ * base + digit[c]) % 2^WIDTH, !.digits = @ + 1]

read_digits(s, base) ==
  LET turns[k \in 0 .. Len(s)] ==
        IF k = 0 THEN [state |-> "reading", ret |-> 0, digits |-> 0]
        ELSE read_digit(turns[k-1], s[k], base)
  IN turns[Len(s)]

\* A string without the spaces before it; hexadecimal numbers have a prefix.
unspaced(s) == SubSeq(s, skip(s \o <<nul>>, 1, Spaces), Len(s))
is_hex(s) == Len(s) >= 2 /\ s[1] = "0" /\ s[2] \in {"x", "X"}
after_prefix(s) == IF is_hex(s) THEN SubSeq(s, 3, Len(s)) ELSE s
base_of(s) == IF is_hex(s) THEN 16 ELSE 10

\* Mutant: a number needs no digit.
getNumberFromString_empty(s) ==
  LET t == unspaced(s)
      r == read_digits(after_prefix(t), base_of(t))
  IN IF t = <<>> \/ r.state = "bad" THEN failed ELSE [ok |-> TRUE, value |-> r.ret]

getNumberFromString(s) ==
  LET t == unspaced(s)
      r == read_digits(after_prefix(t), base_of(t))
  IN IF t = <<>> \/ r.state = "bad" \/ r.digits = 0 THEN failed ELSE [ok |-> TRUE, value |-> r.ret]

-----------------------------------------------------------------------------
(* The command loop.  What a command does is in other modules.             *)

\* What the buffer holds before the first line is not initialised.
Init == typed = <<>> /\ ended = FALSE /\ buffer = <<nul>> /\ cmd = <<>>

run_command(b) == buffer' = split(b).buffer /\ cmd' = split(b).words

\* A line arrives; of an empty one only the newline.
readLine(l) ==
  /\ ~ended /\ typed' = l
  /\ IF l = <<>> THEN buffer' = <<newline, nul>> /\ cmd' = <<>> ELSE run_command(l \o <<nul>>)
  /\ UNCHANGED ended

\* Mutant: the commands work on a copy of the line.
end_of_input_whole ==
  /\ buffer # <<nul>>
  /\ ended' = TRUE
  /\ IF buffer[1] = newline THEN cmd' = <<>> /\ UNCHANGED buffer ELSE run_command(typed \o <<nul>>)
  /\ UNCHANGED typed

\* Nothing arrives, and the buffer is as the last turn left it.
end_of_input ==
  /\ buffer # <<nul>>
  /\ ended' = TRUE
  /\ IF buffer[1] = newline THEN cmd' = <<>> /\ UNCHANGED buffer ELSE run_command(buffer)
  /\ UNCHANGED typed

Next == (\E l \in Line : readLine(l)) \/ end_of_input

Spec == Init /\ [][Next]_vars

-----------------------------------------------------------------------------
(* Reference definitions and properties.                                   *)

TypeOK ==
  /\ typed \in Line /\ ended \in BOOLEAN
  /\ buffer \in Seq(Char \union {nul, newline}) /\ Last(buffer) = nul
  /\ cmd \in Seq(Seq(NoSpaces)) /\ Len(cmd) <= 4 /\ \A k \in DOMAIN cmd : cmd[k] # <<>>

\* The words of a line, from place k on: a word begins behind a space or at the
\* first place, and goes as far as there are no spaces.
begins(l, k) == l[k] \notin Spaces /\ (k = 1 \/ l[k-1] \in Spaces)
ends(l, k) == CHOOSE q \in k .. Len(l) : /\ \A n \in k .. q : l[n] \notin Spaces
                                         /\ q = Len(l) \/ l[q+1] \in Spaces
Words(l) ==
  LET from[k \in 1 .. Len(l) + 1] ==
        IF k = Len(l) + 1 THEN <<>>
        ELSE IF begins(l, k) THEN <<SubSeq(l, k, ends(l, k))>> \o from[k+1] ELSE from[k+1]
  IN from[1]

first_four(w) == SubSeq(w, 1, IF Len(w) < 4 THEN Len(w) ELSE 4)

\* A typed line is cut into its words, wherever its spaces are.
LineCutIntoWords == ~ended => cmd = first_four(Words(typed))

\* When input has ended and the buffer is used again, no command is made up: it
\* is the last one, without its arguments.
EndRepeatsCommand == ended => cmd = SubSeq(Words(typed), 1, IF Words(typed) = <<>> THEN 0 ELSE 1)

\* A string that starts with a number has the digits of one base up to its
\* first space; their value, modulo the width of an int, is the number's.
Digits(w) == after_prefix(w)
IsNumber(w) ==
  Digits(w) # <<>> /\ \A k \in DOMAIN Digits(w) : digit[Digits(w)[k]] < base_of(w)
ValueOf(w) ==
  LET d == Digits(w)
      sum[k \in 0 .. Len(d)] ==
        IF k = 0 THEN 0 ELSE sum[k-1] + digit[d[k]] * base_of(w)^(Len(d) - k)
  IN sum[Len(d)] % 2^WIDTH

CommandsAsTyped == LineCutIntoWords /\ EndRepeatsCommand

\* Whatever is typed, as an argument or as a line of w, is read as the number it
\* starts with, and as nothing if it does not start with one.
NumbersRead ==
  LET n == getNumberFromString(typed)
      w == Words(typed)
  IN n = IF w # <<>> /\ IsNumber(w[1]) THEN [ok |-> TRUE, value |-> ValueOf(w[1])] ELSE failed
=============================================================================
