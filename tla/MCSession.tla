----------------------------- MODULE MCSession -----------------------------
(***************************************************************************)
(* The parts of Session, each on its own: the command line, the commands   *)
(* that run the program as in MCDebugger, and the others.  The parts that  *)
(* do not run stay as they were.                                           *)
(***************************************************************************)
EXTENDS MCDebugger, Session, LoaderFiles

Asked == {-1, 3, 24}
RegisterEffects ==
  {"R0" :> 1, ("R0" :> 0) @@ ("LR" :> 1), "CPSR" :> 16, ("CPSR" :> 19) @@ ("SP_IRQ" :> 1)}

VARIABLES part

\* Lines of blanks, digits, the hexadecimal prefix, and a letter that is a digit
\* in one base or in none; and longer lines of blanks and one letter.
Characters == {" ", "0", "9", "x", "a", "n"}
LinesOf(chars, longest) == UNION {[1 .. k -> chars] : k \in 0 .. longest}
TypedLines == LinesOf(Characters, 4) \union LinesOf({" ", "n"}, 9)

ASSUME SpaceOfSession == Looks!AddressSpace
ASSUME FilesOfSession == Loads!FilesOfBytes /\ Loads!SymbolTables
ASSUME LinesOfSession == Reads!LinesOfChars /\ Reads!NumberWidth

PartInit ==
  /\ part \in {"commands", "lines", "loader", "memory", "registers"}
  /\ SessionInit
  /\ part # "commands" => pc = 0
  /\ part # "loader" => f_left = <<"core">>
  /\ m_pc \in {0, 20} /\ (part # "memory" => m_pc = 0)

\* Nothing of a line is left when the next is read: one line a session, or the
\* empty line and one more, has all cases.
another_line ==
  /\ (l_typed = <<>> /\ Reads!Next) \/ Reads!end_of_input
  /\ UNCHANGED <<vars, loading, looking, showing>>

PartNext ==
  /\ UNCHANGED part
  /\ \/ part = "commands" /\ run_command
     \/ part = "loader" /\ load_command
     \/ part = "memory" /\ look_command
     \/ part = "registers" /\ show_command
     \/ part = "lines" /\ another_line

\* The fairness is that of the command loop; the other parts stop where they like.
PartSpec ==
  /\ PartInit /\ [][PartNext]_<<part, vars, loading, looking, showing, reading>>
  /\ WF_vars(at # "prompt" /\ command_loop)
=============================================================================
