------------------------------- MODULE Output -------------------------------
(***************************************************************************)
(* What a program prints, from printf (lib_print.c) through                *)
(* stdio_write_char of the three ports (soc_uart.c) to the serial line.    *)
(***************************************************************************)
EXTENDS Integers, Sequences, SequencesExt

CONSTANTS
  Port,    \* "realview", "u8500" or "ovp_arm9"
  FIFO,    \* how many characters the device holds
  WIDTH,   \* the bits of an int, a multiple of four
  Calls    \* the calls of printf a program makes, each a sequence of items

\* An item is one conversion, or one character of text:
\*   [kind |-> "text", c], with kinds "%", "c", "s", "i", "x", "b" for the
\* conversions, "other" for a letter that is none, "end" for a % that ends the
\* format; arg is the argument.

VARIABLES
  port,
  calls,   \* the calls the program makes
  begun,   \* how many it has begun
  fmt,     \* what is left of the format,
  args,    \* of the arguments,
  rest,    \* and of the characters of the conversion
  next,    \* the character stdio_write_char writes next, none outside it
  device,  \* the characters in the device, the oldest first
  wire     \* what has been sent

none == "none"
NUL == "\\0"
vars == <<port, calls, begun, fmt, args, rest, next, device, wire>>

-----------------------------------------------------------------------------
(* Conversions.                                                            *)

\* The character '0' + k, for the remainders C computes.
Ascii == <<"'", "(", ")", "*", "+", ",", "-", ".", "/",
           "0", "1", "2", "3", "4", "5", "6", "7", "8", "9">>
zero_plus(k) == Ascii[k + 10]

INT_MIN == -(2^(WIDTH - 1))

\* / and % of C round towards zero.
quotient(i) == IF i < 0 THEN -((-i) \div 10) ELSE i \div 10
remainder(i) == i - 10 * quotient(i)

\* The digits from the last to the first, as the loop finds them.
digits(i) ==
  LET left[k \in 0 .. WIDTH] == IF k = 0 THEN i ELSE quotient(left[k-1])
      count == CHOOSE k \in 1 .. WIDTH : left[k] = 0 /\ \A j \in 1 .. k-1 : left[j] # 0
  IN [k \in 1 .. count |-> zero_plus(remainder(left[k-1]))]

\* The negation of the most negative integer is itself.
printf_int(i) ==
  Reverse(digits(IF i < 0 /\ i # INT_MIN THEN -i ELSE i) \o (IF i < 0 THEN <<"-">> ELSE <<>>))

\* From the highest bits down, n shifted left by a digit each time.
shifted(n, bits) == (n * 2^bits) % 2^WIDTH

printf_hex(n) ==
  [k \in 1 .. WIDTH \div 4 |->
     LET h == shifted(n, 4 * (k-1)) \div 2^(WIDTH - 4)
     IN IF h < 10 THEN zero_plus(h) ELSE <<"A", "B", "C", "D", "E", "F">>[h - 9]]

\* A turn of the loop for each i from WIDTH down.
printf_bin(n) ==
  FlattenSeq([k \in 1 .. WIDTH |->
    LET i == WIDTH + 1 - k
    IN (IF i # WIDTH /\ i % 4 = 0 THEN <<"_">> ELSE <<>>)
         \o <<zero_plus(shifted(n, WIDTH - i) \div 2^(WIDTH - 1))>>])

-----------------------------------------------------------------------------
(* printf.                                                                 *)

\* The format and the arguments of a call.
spelled(item) ==
  CASE item.kind = "text" -> <<item.c>>
    [] item.kind = "end" -> <<"%">>
    [] item.kind = "other" -> <<"%", item.c>>
    [] OTHER -> <<"%", item.kind>>
takes_argument(item) == item.kind \in {"c", "s", "i", "d", "x", "b"}
given(item) == IF takes_argument(item) THEN <<item.arg>> ELSE <<>>
format(call) == FlattenSeq([k \in DOMAIN call |-> spelled(call[k])])
arguments(call) == FlattenSeq([k \in DOMAIN call |-> given(call[k])])

idle == fmt = <<>> /\ rest = <<>> /\ next = none

printf ==
  /\ idle /\ begun < Len(calls)
  /\ begun' = begun + 1
  /\ fmt' = format(calls[begun']) /\ args' = arguments(calls[begun'])
  /\ UNCHANGED <<port, calls, rest, next, device, wire>>

converted(c, arg) ==
  CASE c = "c" -> <<arg>>
    [] c = "s" -> arg
    [] c \in {"i", "d"} -> printf_int(arg)
    [] c = "x" -> printf_hex(arg % 2^WIDTH)
    [] c = "b" -> printf_bin(arg % 2^WIDTH)

\* A turn of printf's loop.
printf_scan ==
  /\ fmt # <<>> /\ rest = <<>> /\ next = none
  /\ IF fmt[1] # "%" THEN rest' = <<fmt[1]>> /\ fmt' = Tail(fmt) /\ UNCHANGED args
     ELSE IF Len(fmt) = 1 THEN rest' = <<NUL>> /\ fmt' = <<>> /\ UNCHANGED args
     ELSE /\ fmt' = Tail(Tail(fmt))
          /\ IF fmt[2] \in {"c", "s", "i", "d", "x", "b"}
             THEN rest' = converted(fmt[2], args[1]) /\ args' = Tail(args)
             ELSE rest' = (IF fmt[2] = "%" THEN <<"%">> ELSE <<"%", fmt[2]>>) /\ UNCHANGED args
  /\ UNCHANGED <<port, calls, begun, next, device, wire>>

printf_putchar ==
  /\ rest # <<>> /\ next = none
  /\ next' = Head(rest) /\ rest' = Tail(rest)
  /\ UNCHANGED <<port, calls, begun, fmt, args, device, wire>>

-----------------------------------------------------------------------------
(* The device.  A character written while it is full is lost; in the OVP   *)
(* port, whose device reads a buffer in memory, it takes the old one's     *)
(* place.                                                                  *)

Full == Len(device) = IF port = "ovp_arm9" THEN 1 ELSE FIFO

\* Mutant: stdio_write_char does not wait.
stdio_write_char_at_once ==
  /\ next # none
  /\ device' = IF ~Full THEN Append(device, next) ELSE IF port = "ovp_arm9" THEN <<next>> ELSE device
  /\ next' = IF port # "ovp_arm9" /\ next = "\n" THEN "\r" ELSE none
  /\ UNCHANGED <<port, calls, begun, fmt, args, rest, wire>>

\* Waits for room; a newline is followed by a carriage return, except in the
\* OVP port.
stdio_write_char ==
  /\ next # none /\ ~Full
  /\ device' = Append(device, next)
  /\ next' = IF port # "ovp_arm9" /\ next = "\n" THEN "\r" ELSE none
  /\ UNCHANGED <<port, calls, begun, fmt, args, rest, wire>>

sends ==
  /\ device # <<>>
  /\ wire' = Append(wire, Head(device)) /\ device' = Tail(device)
  /\ UNCHANGED <<port, calls, begun, fmt, args, rest, next>>

finished == idle /\ begun = Len(calls) /\ device = <<>> /\ UNCHANGED vars

Init ==
  /\ port \in Port /\ calls \in Calls /\ begun = 0
  /\ fmt = <<>> /\ args = <<>> /\ rest = <<>> /\ next = none
  /\ device = <<>> /\ wire = <<>>

Next == printf \/ printf_scan \/ printf_putchar \/ stdio_write_char \/ sends \/ finished

Spec == Init /\ [][Next]_vars

-----------------------------------------------------------------------------
(* Reference definitions and the property.                                 *)

\* A natural number in a base, with at least so many digits.
Figures == <<"0", "1", "2", "3", "4", "5", "6", "7", "8", "9", "A", "B", "C", "D", "E", "F">>
Places(n, base, least) ==
  CHOOSE k \in least .. WIDTH : n < base^k /\ \A j \in least .. k-1 : n >= base^j
Figure(n, base, k) == (n \div base^k) % base
Natural(n, base, least) ==
  LET m == Places(n, base, least) IN [k \in 1 .. m |-> Figures[Figure(n, base, m - k) + 1]]

\* The most negative integer is known to come out wrong: each digit is as far
\* below 0 in the character set as it should be above.
Decimal(i) ==
  IF i = INT_MIN THEN LET m == Places(-i, 10, 1)
                      IN <<"-">> \o [k \in 1 .. m |-> zero_plus(-Figure(-i, 10, m - k))]
  ELSE IF i < 0 THEN <<"-">> \o Natural(-i, 10, 1) ELSE Natural(i, 10, 1)

\* The bits of n in groups of four.
Groups(n) ==
  FlattenSeq([g \in 1 .. WIDTH \div 4 |->
    (IF g = 1 THEN <<>> ELSE <<"_">>) \o Natural(Figure(n, 16, WIDTH \div 4 - g), 2, 4)])

\* What an item should print.
Printed(item) ==
  CASE item.kind = "text" -> <<item.c>>
    [] item.kind = "%" -> <<"%">>
    [] item.kind = "end" -> <<NUL>>
    [] item.kind = "other" -> <<"%", item.c>>
    [] item.kind = "c" -> <<item.arg>>
    [] item.kind = "s" -> item.arg
    [] item.kind \in {"i", "d"} -> Decimal(item.arg)
    [] item.kind = "x" -> Natural(item.arg % 2^WIDTH, 16, WIDTH \div 4)
    [] item.kind = "b" -> Groups(item.arg % 2^WIDTH)

Prints(call) == FlattenSeq([j \in DOMAIN call |-> Printed(call[j])])

\* And what the line of a port should carry for it.
OnLine(p, c) == IF c = "\n" /\ p # "ovp_arm9" THEN <<"\n", "\r">> ELSE <<c>>
Carried(p, chars) == FlattenSeq([k \in DOMAIN chars |-> OnLine(p, chars[k])])
Expected(p, cs, n) == FlattenSeq([k \in 1 .. n |-> Carried(p, Prints(cs[k]))])

\* However fast the line is, it carries what the calls of printf should print,
\* each conversion with the argument that is meant for it and nothing lost,
\* repeated or out of order.
OutputInOrder ==
  /\ IsPrefix(wire \o device, Expected(port, calls, begun))
  /\ idle => wire \o device = Expected(port, calls, begun)

\* What a program may ask for: no % in the text and no letter of a conversion
\* where none is meant, a % that ends the format at its end, and an argument of
\* its conversion's type.
IsItem(item) ==
  \/ item.kind = "text" /\ item.c # "%"
  \/ item.kind \in {"%", "end"}
  \/ item.kind = "other" /\ item.c \notin {"%", "c", "s", "i", "d", "x", "b"}
  \/ item.kind = "c"
  \/ item.kind = "s" /\ item.arg \in Seq(Range(item.arg))
  \/ item.kind \in {"i", "d"} /\ item.arg \in INT_MIN .. -INT_MIN - 1
  \/ item.kind \in {"x", "b"} /\ item.arg \in Int
Items == UNION {Range(call) : call \in UNION {Range(cs) : cs \in Calls}}
Characters ==
  {"%", NUL, "\n", "\r"} \union {item.c : item \in {i \in Items : i.kind \in {"text", "other"}}}
    \union UNION {Range(Printed(item)) : item \in {i \in Items : takes_argument(i)}}
CallsWellFormed ==
  /\ none \notin Characters
  /\ \A item \in Items : IsItem(item)
  /\ \A cs \in Calls :
       /\ cs \in Seq(Seq(Items))
       /\ \A k \in DOMAIN cs : \A j \in DOMAIN cs[k] : cs[k][j].kind = "end" => j = Len(cs[k])

\* An int has whole digits in base 16.  The powers of its bases are what powers
\* are; the provers know that of numbers only.
Powers(base, n) == base^0 = 1 /\ \A k \in 0 .. n-1 : base^(k+1) = base * base^k
IntWidth ==
  /\ WIDTH \in Nat \ {0} /\ WIDTH % 4 = 0
  /\ Powers(2, WIDTH) /\ Powers(10, WIDTH) /\ Powers(16, WIDTH \div 4)
=============================================================================
