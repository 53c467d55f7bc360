------------------------------ MODULE Session ------------------------------
(***************************************************************************)
(* The debugger: its command line (CommandLine) and the commands together, *)
(* those that run the program (Debugger), load files (Loader), show and    *)
(* write memory (Inspect) and show registers (Registers).  Each part has   *)
(* its own view of the program, whatever the others do, so a step is a     *)
(* step of one of them at any time: more than the command loop, which      *)
(* reads a command when the last one has ended.                            *)
(***************************************************************************)
EXTENDS Debugger

CONSTANTS
  File, Register, Place, MEM, Binaries, MaxLoads, \* Loader's
  SPACE, Mapped, Value, Requests, MaxTyped,       \* Inspect's
  Normal, Banked, Effects,                        \* Registers'
  Char, Line, WIDTH,                              \* CommandLine's
  none

VARIABLES
  f_at, f_left, f_loads, f_memory, f_need, f_start, f_symbols, f_strings, f_read,
  m_pc, m_memory, m_shown, m_asked, m_adr, m_typed, m_buffer, m_ended,
  r_at, r_regs, r_values, r_changed, r_valid, r_work1, r_work2, r_before, r_last, r_output,
  l_typed, l_ended, l_buffer, l_cmd

Loads == INSTANCE Loader WITH
  at <- f_at, left <- f_left, loads <- f_loads, memory <- f_memory, need_start_binary <- f_need,
  start <- f_start, symbols <- f_symbols, strings <- f_strings, read <- f_read

Looks == INSTANCE Inspect WITH
  pc <- m_pc, memory <- m_memory, shown <- m_shown, asked <- m_asked, adr <- m_adr,
  typed <- m_typed, buffer <- m_buffer, ended <- m_ended

Shows == INSTANCE Registers WITH
  at <- r_at, regs <- r_regs, reg_values <- r_values, reg_changed <- r_changed, reg_valid <- r_valid,
  work1 <- r_work1, work2 <- r_work2, before <- r_before, last <- r_last, output <- r_output

Reads == INSTANCE CommandLine WITH
  typed <- l_typed, ended <- l_ended, buffer <- l_buffer, cmd <- l_cmd

loading == <<f_at, f_left, f_loads, f_memory, f_need, f_start, f_symbols, f_strings, f_read>>
looking == <<m_pc, m_memory, m_shown, m_asked, m_adr, m_typed, m_buffer, m_ended>>
showing == <<r_at, r_regs, r_values, r_changed, r_valid, r_work1, r_work2, r_before, r_last, r_output>>
reading == <<l_typed, l_ended, l_buffer, l_cmd>>

run_command == Next /\ UNCHANGED <<loading, looking, showing, reading>>
load_command == Loads!Next /\ UNCHANGED <<vars, looking, showing, reading>>
look_command == Looks!Next /\ UNCHANGED <<vars, loading, showing, reading>>
show_command == Shows!Next /\ UNCHANGED <<vars, loading, looking, reading>>
read_command == Reads!Next /\ UNCHANGED <<vars, loading, looking, showing>>

SessionInit == Init /\ Loads!Init /\ Looks!Init /\ Shows!Init /\ Reads!Init
SessionNext == run_command \/ load_command \/ look_command \/ show_command \/ read_command

SessionSpec == SessionInit /\ [][SessionNext]_<<vars, loading, looking, showing, reading>>

-----------------------------------------------------------------------------
(* Properties.                                                             *)

\* Every part keeps its types, the breakpoint list's links and the counts of the
\* running command included (debugger.c:129-328 and 589-751, symbols.c).
TypesOK == TypeOK /\ Loads!TypeOK /\ Looks!TypeOK /\ Shows!TypeOK /\ Reads!TypeOK

\* Symbols and addresses are translated by the file loaded last (symbols.c:74-207).
NewestFirst == Loads!NewestFirst

\* A load that changes memory fills it with the bytes of a file, in order
\* (doLoadBinary, debugger.c:752-819).
WholeFile == Loads!WholeFile

\* Listings cover what they are asked for, and w writes what is typed, where
\* (debugger.c:330-466).
ShownAndWritten == Looks!ShownAndWritten

\* r and N show the registers and mark those that changed (debugger.c:502-640).
RegistersShown == Shows!RegistersShown

\* A line becomes a command and its arguments by its words; when input ends, no
\* command is made up (debugger.c:129-175 and 953-975).
CommandsAsTyped == Reads!CommandsAsTyped

\* What is typed as a number is read as that number, anything else is refused
\* (getNumberFromString, debugger.c:69-104).
NumbersRead == Reads!NumbersRead
=============================================================================
