------------------------------ MODULE Library ------------------------------
(***************************************************************************)
(* The library: the heap, and printf with the serial port.  They share     *)
(* nothing, so a step is a step of one of them at any time.                *)
(***************************************************************************)
EXTENDS Heap

CONSTANTS Port, FIFO, INT_BITS, Calls    \* Output's

VARIABLES p_port, p_calls, p_begun, p_fmt, p_args, p_rest, p_next, p_device, p_wire
printing == <<p_port, p_calls, p_begun, p_fmt, p_args, p_rest, p_next, p_device, p_wire>>

Out == INSTANCE Output WITH
  WIDTH <- INT_BITS,
  port <- p_port, calls <- p_calls, begun <- p_begun, fmt <- p_fmt, args <- p_args,
  rest <- p_rest, next <- p_next, device <- p_device, wire <- p_wire

use_heap == Next /\ UNCHANGED printing
use_printf == Out!Next /\ UNCHANGED vars

LibraryInit == Init /\ Out!Init
LibraryNext == use_heap \/ use_printf

LibrarySpec == LibraryInit /\ [][LibraryNext]_<<vars, printing>>

-----------------------------------------------------------------------------

\* The serial line carries what the calls of printf should print, each
\* conversion with its own argument and nothing lost, repeated or out of order
\* (lib_print.c, soc_uart.c).
OutputInOrder == Out!OutputInOrder
=============================================================================
