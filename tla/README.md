# A TLA+ model of the SICS thin hypervisor (simplified)

This directory holds a model of the hypervisor in `core/`: TLA+ modules, the
configurations that check them with TLC, and theorems about them with proofs
checked by TLAPS. Paths below are relative to the root of the repository.

## 1. The system

A hypervisor boots on one ARM core, builds a page table, starts a periodic
timer and runs two guests in user mode, one after the other. Each guest has two
*guest modes*, TASK and INTERRUPT, each with a register context of its own. At
each tick the processor goes to the other guest. A guest can make two
hypercalls: MESSAGE puts a word in the other guest's mailbox, RELEASE changes
mode. A message is delivered at a tick: if the guest whose turn it is has one
and is in TASK mode, it goes on in INTERRUPT mode at its message handler.

| component | state | operations | talks to |
|---|---|---|---|
| bootstrap (`core/hypervisor/init.c`) | page table `flpt`, `vm_0`, `vm_1`, `curr_vm` | `memory_init`, `setup_handlers`, `guests_init`, `start_guest` | all the others, in sequence |
| handlers and hypercalls (`handlers.c`, `hypercalls.c`) | `virtual_machine` records: mode, contexts, mailbox; `curr_vm` | `irq_handler`, `swi_handler`, `change_guest_mode`, the abort handlers | called from exception entry; write the DACR and the context stack |
| exception entry and exit (`soc_exceptions.S`, `family_context_*.inc`) | `context_stack`, its index, the contexts | `store_context`, `restore_context`, `cpu_context_current_set` | called by the processor; call registered callbacks |
| memory map (`mem.c`, board tables) | a constant table | `mem_padr_lookup` | `memory_init` |
| guest configuration (`minimal_config.c`) | a constant table | - | `guests_init`, `irq_handler` |
| interrupt controller and timer (`soc_irq.c`, `soc_timer.c`) | handler table, enable bits, the timer | `cpu_irq_handler`, `tick_handler_stub`, `timer_tick_start` | the timer interrupts guests |
| guests (`guests/`) | their memory and registers | anything user mode can do | hypercalls, faults |
| heap (`library/src/lib_mem.c`) | the block list | `heap_alloc`, `heap_free` | used by tests |
| printf and serial port (`lib_print.c`, `soc_uart.c`) | the device's queue | `printf`, `stdio_write_char` | used by all |
| cache maintenance (`cpu_mem.c`, `cp15.S`) | the caches | `mem_cache_invalidate`, `CP15DCache...` | called at start-up |
| other ports (`ovp_arm9`, `u8500`) | as above | as above | - |
| simulation (`simulation/`) | breakpoints, symbols, register buffers, the command line | debugger commands, loading files | an external simulator |
| test framework, image merger, build | counters; none | - | host side |

### What is hard about it

* **Interleaving.** The hypervisor itself runs with IRQs masked, so its handlers
  do not interleave with one another. Guests interleave with everything: each
  of five exceptions can come between any two of their instructions, and the
  timer line can rise at any time, also inside the handler of its own interrupt.
* **Bookkeeping in four places.** Which context an exception saves to is decided
  by an entry of the context stack written during an *earlier* exception;
  `curr_vm`, `current_mode_state`, `current_guest_mode` and the DACR must agree
  with it, and `irq_handler` writes some of them by hand and some through
  `change_guest_mode`.
* **Order during boot.** The timer is started before the machines exist.
* **Ordering of messages.** One word per mailbox, looked at only when its owner
  comes next and is in TASK mode.
* **Hand-packed words.** Descriptors and domain access words are computed in
  different files and must agree field by field; `memory_init` carries values
  from one turn of its loop to the next.

* **State kept between commands.** The debugger's line buffer, list of
  breakpoints, symbol chain, string table and register buffers outlive the
  commands that fill them, and several commands use each.

There is nothing persistent and no retry or timeout, so crash recovery and lost
messages do not arise. `PROJECT.json` lists the hazards line by line.

### What makes each component correct

* core: each guest behaves as if it had a processor of its own and a one-word
  mailbox; guests reach only their own memory and the IO registers; every guest
  runs again and again; messages are delivered;
* exception entry and exit: a guest resumes exactly where it was; the saved
  context is that of the machine and mode that ran;
* memory map: the table in memory is a function of the board's map alone;
* interrupt controller and timer: no interrupt outside a guest; one handler call
  for each cause; nothing left active; each tick is handled once;
* heap: blocks tile the heap, no two neighbours are free, allocations
  do not overlap, freeing is the inverse of allocating;
* printf: the line carries what was printed, in order, at any speed;
* caches: maintenance loses nothing and leaves memory with what it is for;
* debugger: the breakpoint list and the simulator's breakpoints agree, no
  instruction with one is run but the first of a command, commands come back;
  what is typed, loaded and shown is what the user meant.

## 2. Modules

```
MemoryMap   GuestConfig   IdealGuests  TickLine        Heap -- IdealHeap
   |  \         |    \           |       |   \          |  \
   |   MemoryInit   Hypervisor --+-------+    Gic  Aic   |   HeapProofs
   |    |     |         |    \                  \   /    |   Output
   |    | MCMemoryInit  |  MCHypervisor        Boards    |   /
   |    |     |   HypervisorProofs              /  \    Library
   |    |  MCStart                     GicProofs  MCGic  |   \
   |    |     |                                          | LibraryProofs
   |   Start -- Caches                        MCHeap -- MCLibrary
   |     |
   |  StartProofs

Debugger -- IdealDebugger   Loader  Inspect  Registers   CommandLine
   |    \          \           |       |        |             |
   |   MCDebugger   \--------- Session ---------/             |
   |       |                   /      \                       |
   |       |         SessionProofs     \                      |
   |        \---------------------- MCSession ----------------/
DebuggerProofs                             |
                            MCLoader -- LoaderFiles
```

IdealGuests, TickLine, IdealHeap and IdealDebugger are abstract specifications;
the modules they are joined to implement them (INSTANCE ... WITH). Library,
Boards, Start and Session put components of one program side by side: a step is a step
of one of them, at any time. In the runs a variable `part` (or `board`) says
which one moves, because components that share nothing need not be interleaved
to be checked; the theorems are about any interleaving (of Boards, a machine is
one board or the other, as in the code). Start joins MemoryInit and Caches.

* **MemoryMap**: board tables, `mem_padr_lookup`, the attributes of a section
  and, external to the code, what an ARMv7-A MMU lets through under a table and
  a DACR. A descriptor is kept as a pair (section index, low 20 bits) because
  TLC's integers have 31 bits. The base of a section is its index, which no
  property needs in bits.
* **GuestConfig**: `minimal_config` and the domain access words. `client_of(d)`
  is `1 << 2d`.
* **MemoryInit**: the loop of `memory_init`, a step per section, with the
  variables that outlive a turn. It shows that the table the loop leaves is
  `first_level_table`, the closed form in MemoryMap, which Hypervisor's
  `memory_init` then writes in one step.
* **Hypervisor**: everything else on the RealView board. `at` says where the
  processor stands: at the start of a function of the bootstrap, at a handler,
  at `exception_bottom`, or in a guest. One action per function or handler:

  | code | action |
  |---|---|
  | `cpu_init`, `soc_init`, `memory_init`, `setup_handlers`, `guests_init`, `start_guest` | the same names, in the order of `init_` |
  | `impl_irq`, `impl_swi`, `impl_undef`, `impl_pabort`, `impl_dabort` | the same names; `impl_swi(n)` for SWI number n |
  | `cpu_irq_handler` | one turn of its acknowledge loop |
  | `tick_handler_stub` + `irq_handler` | `irq_deliver` (the message branch) and `irq_switch` (the other) |
  | `swi_handler`, `hypercall_message`, `hypercall_end_interrupt` | `swi_handler` |
  | abort and undefined-instruction handlers | `no_state_handler` |
  | `exception_bottom` | the same name |
  | a guest's instructions | `GuestRun`: any registers of `UserRegs` |
  | the timer | `TimerExpires` |

  A pointer to a context is a pair: `<<machine, mode>>` for the contexts in the
  machine records, `<<NoVM, k>>` for `def_context1` to `7`, `<<NoVM, 0>>` for null.
  A register file keeps r0, r1, sp, pc and psr; r2-r12 and lr are saved and
  restored by the same two instructions and are used by nothing else.
  Before a return a handler leaves unknown values in the processor's
  registers (`clobbered`); they are never read.
* **IdealGuests**: the abstract specification: machines with registers per mode,
  a mode and a mailbox, and no scheduler, trap, context or tick.
* **TickLine**: the timer's interrupt as a line: it rises when the timer expires,
  falls when the tick handler runs, and the interrupt code is not left while it
  is up. Hypervisor implements it with a single source, Gic with a controller.
* **Gic**: `soc_irq.c` and `soc_timer.c` with the controller between them. The
  controller's state is its enable, priority, mask and active registers; which
  source it signals is external. `cpu_irq_handler` is cut where the order of its
  accesses matters: the read of the acknowledge register, the end-of-interrupt
  write, the call of the handler. Lines rise at any time, between these too.
  Drivers other than the timer's call the functions of `hw.h` during set-up, in
  any order with any of the priorities and masks given.
* **Heap**: `lib_mem.c` as operators on a memory of eight-byte cells, in which a
  marker and data are told apart by nothing, and a program that allocates,
  frees, frees again, frees what is not the heap's, and writes in its blocks.
  Pointers wrap. The walk along the list in `heap_alloc` is the set of
  the cells it visits.
* **IdealHeap**: blocks that do not overlap, come back when freed and are granted
  or refused; no list, markers or placement.
* **Aic**: the same for the OVP board: `soc_interrupt.c`, `soc_timer.c` and the
  vector code. The controller holds the handlers' addresses itself; the vector
  reads one, calls it and ends the interrupt.
* **Output**: `printf` from the format and its arguments to the line. A call is a
  sequence of items (a character of text, a conversion with its argument); a
  turn of the loop is a step, and so is each character `stdio_write_char`
  writes, which waits while the device is full. The conversions are operators
  that follow the code's loops, `/` and `%` of C included, and are compared with
  definitions of what a number looks like.
* **Caches**: the functions on whole data caches (`setway` and the functions of
  `cp15.S` that name lines by level, set and way) and on buffers, over a hardware
  model: levels of write-back caches in front of each other and of memory. The
  word that names a line is packed and unpacked. A loop, over levels, over the
  words of a level or over the lines of a buffer, applies its step to a sequence
  in turn (`in_turn`); `cpu_mem.c` counts sets within ways, `cp15.S` ways within sets.
  `mem_cache_invalidate` without write-back cleans: `COP_DCACHE_INVALIDATE_LINE` has
  the encoding of a clean (`c7, c10, 2`, as in `CP15DCacheClean`; `line_op`).
  So the call leaves every line cached, to hide what a device stores in memory
  later, where the ARM926 version of the branch invalidates. `CachesMaintained`
  asks of it what a clean is for. No caller in the repository leaves the
  write-back out.
* **Debugger**: breakpoints and the commands that run the program. The list is
  its links, in memory that runs out; the simulator has a set of its own.
  A command's loop is cut at each call of the simulator, because the signal
  handler may end the debugger between any two. The program is a graph of
  instructions.
* **IdealDebugger**: a set of breakpoints that only the user changes, commands
  that stop at them; no list, simulator, loops or counts.
* **CommandLine**: `readLine`, `trimString`, `getNextString` and
  `getNumberFromString` on the one buffer they share. A pointer is a position in
  the buffer and 0 is null; a loop that skips characters is the position it stops
  at, and the loop over the digits is a function of the turn.
* **Loader**: `doLoadBinary` and `symbols.c`: what files do to memory, to the
  chain of symbols and to the string table, and how names and addresses are
  looked up. What an ELF file puts in memory is the simulator's, and left out.
* **Inspect**: which addresses `m`, `M`, `s` and `w` cover, modulo the address space.
* **Registers**: `r` and `N`, with the values each keeps to compare with.
* **Library**, **Boards**, **Start**, **Session**: the compositions.
* **HypervisorProofs**, **GicProofs**, **StartProofs**, **DebuggerProofs**,
  **SessionProofs**, **HeapProofs**, **LibraryProofs**: the theorems.
  **NumberFacts**: what their proofs share about numbers.
* **MCStart**, **MCMemoryInit**, **MCHypervisor**, **MCLibrary**, **MCHeap**, **MCGic**,
  **MCSession**, **MCDebugger**, **MCLoader**, **LoaderFiles**: values for the
  constants, and ASSUMEs by which TLC evaluates the premises of the theorems.

## 3. Runs

| run | what it asks | result |
|---|---|---|
| `memory_init` | Does the loop write each section its own descriptor, and does the table separate the guests under the configuration's access words? Does cache maintenance lose nothing, and cover what it is asked for? | holds |
| `hypervisor` | Type invariant; the bookkeeping; saved registers; the active context; isolation; no interrupt outside guests; each tick handled once; the ideal machines are implemented; interrupts and aborts are invisible | holds |
| `progress` | Does every machine run again and again, once ticks stop coming inside the interrupt handler? Is every message delivered, unless its machine leaves TASK mode first? | holds |
| `heap` | Is the block list whole after every sequence of calls, are no two neighbours free, is each taken block held by the program, and is the heap an allocator? Does the serial line carry what printf should print? | holds |
| `gic` | Does each handler call have a cause, is nothing left active, does the machine stop only for an enabled number beyond the table, is each tick handled, once? The same for the OVP board | holds |
| `debugger` | Do list and simulator agree, is a session one of the ideal debugger, are counts kept, do commands come back? Are lines, numbers, files, symbols, memory and registers what they should be? | holds |
| `starts_at_entry` | `init.c:153` "entry registers" | violated: `printf` comes between loading LR and returning through it |
| `handler_stack` | `presentation.org:51`, sp is reset on delivery | violated: the line is commented out, so the handler has the sp that INTERRUPT mode was last left with (in the trace, by a guest that entered it with RELEASE) |
| `memory_init_ovp` | `presentation.org:2`, the map is for two guests | violated: the OVP map's second guest range is empty |
| `heap_foreign` | `lib_mem.c:128` "is marker in this heap ?" | violated: the bound is in units of eight bytes, so the next heap's blocks pass |
| `debugger_mode` | `debugger.c:826`, c runs until a mode change | violated: a breakpoint after the first instruction holds its loop for ever |
| `symbols_names` | `symbols.c:3`, names of loaded files can be entered | violated: the names of a file are lost when the next is loaded |

Bounds, and why they are enough:

* `Sections = 520`: the RealView map changes type at sections 0, 1, 3, 4, 7, 256
  and 512; all the sections after that are holes like 512-519. The OVP map runs
  over 8: nothing below section 4095 differs beyond that.
* `Pages`: the sections at and beside each border of the map (0-7, 255, 256,
  511, 512). Access checks depend on a section's type only.
* Two machines: the configuration has two, and the code two records.
* `Programs`: the register sets a guest can be in: one program point besides the
  entry contexts, with a word to send that differs between guests, so that
  mixing them shows. `SamePrograms` has one word for both where a property does
  not look at words. The proofs have no such bound.
* `TickInHandler`: whether the timer may rise again while its own interrupt is
  handled. TRUE is more behaviour, and all runs but those that look for a
  violation use it.
* Heap: eight cells hold four blocks of one cell and their markers, enough for a
  block with a free or taken neighbour on both sides, for a split that leaves
  room and one that would leave a marker alone. Requests of 0, 1, 9 and 17
  bytes round to no cell, one, two and three. Words have ten bits; only
  the marker that says "invalid" uses the top of their range. Programs write
  words that look like a free marker and like a taken last one, where a stale
  pointer would be read.
* Gic: the timer, source 33 with an entry in the table and source 120 without;
  priorities on either side of the timer's 6. The masks leave the timer through,
  which `TickSpec` and `TickServed` need.
* Aic: the timer and two devices, one with a lower and one with a higher number
  than the timer's, and a number beyond the table.
* Hypercall numbers: the two handled and one that is not.
* Output: eight-bit integers, all of them in each conversion of a number, so all
  digits, signs and groups occur; two mixed programs have every conversion, a
  letter that is none, a `%` at the end, an empty format and newlines. The
  device holds two characters, fewer than any program prints.
* Caches: a level with two sets in front of one with three ways (three is not
  a power of two, which the packing of the way rounds up), four lines of four
  bytes, stores to three of them, two stores between any calls; buffers within a
  line, over several, over the end of the address space, and empty.
* Debugger: five instructions with loops, branches, two modes and an end; memory
  for three breakpoints, so that one can be removed at either end of the list,
  in the middle and alone, and a fourth refused. A limit of three cycles is
  below the length of the loops, so that searches give up.
* Command line: every line of up to four characters from blanks, digits, the
  hexadecimal prefix and letters, for numbers of eight bits, which overflow
  there; every line of up to nine blanks and letters, which has four words and
  more. One line is typed in a session, or the empty line and one more: what
  `readLine` leaves of a line is used again at the end of input only.
* Loader: two ELF files that share a name and an address and use string offsets
  the other lacks, one without symbols, raw files of whole and of broken words,
  files that cannot be loaded; four loads in any order.
* Inspect: sixteen words, three of them memory, at both ends of the space.
* Registers: two that N looks at, one banked, three modes.

### Fairness

`FairSpec` has three conjuncts. Weak fairness of the hypervisor's own code: it
runs with IRQs masked and its handlers have no loop but the acknowledge loop.
Weak fairness of the timer: it is periodic (`soc_timer.c`, control 0xE0). Strong
fairness of `impl_irq`: the processor samples the interrupt line at every
instruction boundary in user mode, so a guest that traps all the time, and so is
in and out of user mode, cannot outrun a line that stays raised. Nothing is
assumed of guests.

`EveryVmRuns` has a premise, `HandlerKeepsPace`: from some time on, no tick comes
inside the handler of another. Without it the acknowledge loop may see a second
tick each time, switch twice and return to the guest interrupted, for ever: two
machines and an even number of switches. 2000 timer counts are meant to be
longer than the handler, and nothing in the code enforces it. `MessageDelivered`
has no such premise.

Gic's Fairness is weaker than it may look: the boot sequence and the loop go on,
the timer is periodic, and `impl_irq` is only weakly fair, as guest and loop are
not modelled apart from it. `TickServed` has a premise, `Orderly`: each source
a driver enables has a handler that makes the device drop its line, and is less
urgent than the timer. Without it `default_handler` (which only prints) keeps the
loop busy for ever, or an unknown number stops the machine: both are what the
code does. Aic's is the same, with the same premise.

The debugger is fair in its command loop while a command runs: it is a program
that nothing else holds up. Nothing is assumed of the user, who may never type
another command, nor of the program under it: c comes back without breakpoints
because every loop of the program in the model changes mode, and g is not
claimed to come back once the program has ended, for its loop does not.

## 4. Proofs

The proofs hold for every set of machines, every ring `next`, every
configuration, memory map and set of guest programs that satisfy
`LayoutAssumption`, `HypervisorAssumption` and `DomainAccessAssumption`. The
last says what the configuration must get right for isolation: each mode is a
client of the hypervisor's domain and of its own RAM's domain, and of no other.
TLC checks the three for the values of the repository.

None of ActiveContext, Isolation or InterruptsOnlyGuests is inductive: each
speaks of the moments a guest runs, and is prepared while a handler does.
The inductive invariant is `IInv == TypeOK /\ Bookkeeping`. Bookkeeping says,
for each point of the hypervisor, where the stack index stands, that entry 1 of
the context stack points to the context of the current machine and mode, that
*every* machine's record is consistent (a switch may go to any), that the DACR
is the current mode's, and that the table is in place. With it:

* `TypeCorrect`, `BookkeepingCorrect`: the invariant, one step per action;
* `ActiveContextCorrect`, `InterruptsOnlyGuestsCorrect`: consequences;
* `IsolationCorrect`: from the invariant and what the MMU makes of
  `first_level_table` under a domain word of the configuration, a lemma on the
  arithmetic of the packed fields;
* `SavedRegistersCorrect`: an invariant of its own, inductive relative to IInv;
* `Refinement`: the initial state maps to IdealGuests' initial state and each
  step to a step or a stutter. `view` is the mapping: a machine's registers are
  in the processor while it runs and in its context otherwise. GuestRun, traps
  and the start map to Run (a trap moves the pc; entering the first guest may
  move it), swi_handler to Send, Release or a stutter, irq_deliver to Deliver,
  everything else to a stutter;
* `Transparency`: a step at a handler, or into an interrupt or abort, is a
  stutter of the ideal machines unless it sends, delivers or changes mode;
* `TickImplemented`: Hypervisor implements TickLine, from the
  part of the invariant that says the timer is off until setup_handlers.

GicProofs does the same for the controller, for every set of devices, table
size, priorities and masks that satisfy `GicAssumption`. `IInv` adds to the type
invariant what the loop knows of the interrupt it holds at each of its points:
between the read and the end-of-interrupt write it alone is active, after it
nothing is, and its source is up and enabled throughout, because only its
handler drops it and only set-up disables. `TypeCorrect`, `HandlerHasCauseCorrect`,
`NothingLeftActiveCorrect` and `StopsOnlyForUnknownCorrect` follow. Its
`TickImplemented` has a premise, that no driver's mask shuts out the timer: then
a spurious answer means that the timer's line is down. `OvpHandlersCorrect` is
about the OVP board, whose controller holds the handlers' addresses: what is in
service is the source whose handler the vector calls, and what was enabled is
enabled.

StartProofs is, first, about the loop of `memory_init`, for every map, number of
sections up to 4096 and processor. Its invariant adds to the type invariant that
the sections passed have their descriptors and that the MMU is enabled behind
the last. `TableIsClosedFormCorrect` follows, and is what lets Hypervisor write
the whole table in one step; with the arithmetic of the packed fields, so does
`GuestsSeparatedCorrect`.

Then it is about the caches. `CachesMaintainedCorrect` holds for any number of
levels, sets and ways, lengths of lines and of addresses that satisfy
`CachesAssumption`, any stores between the calls, and the buffers in `Buffer`:
a level, a set and a way must fit side by side in a word and a set in the mask
`cp15.S` has for it, and there are no more levels than `CLIDR` is read for. The
inductive invariant, `CachesInv`, adds to the property what the hardware keeps
true: a line is in each level at most once, and in its set; and a clean line has
what the levels behind it have (`CleanAgrees`). The last part is why a clean line
may be dropped without loss, and why the property is not inductive alone. The proof
goes from one slot outwards. Cleaning a slot changes nothing that can be read,
though it may fill a slot further out. Hence the order of the levels: while one is
worked on, nothing comes into those in front of it, which are bare already, nor
into its own slots that are done. The words of a level
name all of its slots and no others, because the packing and the processor's
unpacking are inverse to each other, for any number of ways, and because both orders
of the two loops reach each pair of a set and a way. An operation on an address
goes down to memory, and lines do not disturb each other. With the addresses taken as signed
numbers, the loops over a buffer visit just the lines from its first to its last,
also over the end of the address space, and `CP15DCacheFlushBuff` throws away only
lines that are wholly in the buffer, so that a neighbour's stores survive. Of
`mem_cache_invalidate` without write-back the theorem says that memory has all that
was stored, and nothing of the caches, which stay full. The premise `PowersOfTwo`
is what the provers do not know of powers.

HeapProofs is about any heap size, word size and requests. The invariant says
that there is a set of heads (cells that hold a block's marker) which tile the
heap: from each head the size leads to the next or, with the last flag, to the
end, and the size of the block before leads back; no two neighbours are free;
the taken blocks are those the program holds, with the room it asked for; and
what it has freed has a marker that is free or invalid, outside the room of any
block. The last part is why a second free is refused: the program's own writes
cannot forge a marker where a stale pointer looks. The set of heads is under an
existential quantifier and each operation names the new one: a split adds a
head, a merge removes one. That the walk in `heap_alloc` finds what it should is
an induction along the blocks. From it follow `TypeCorrect`, `ListWellFormed`,
`FreeSpaceCoalesced`, `TakenBlocksHeld` and, step by step, `HeapRefines`. All have
the premise `ForeignApart`: what the program frees that is not this heap's fails
`in_this_heap`. Without it the theorems are false, which the run `heap_foreign`
shows; MCLibrary evaluates it for the addresses of the run `heap`.

DebuggerProofs has `CountKeptCorrect`, for every program, breakpoints and count. A
turn of n need not run anything, so n's part of the invariant relates what has
run to its turns; g leaves counting to the simulator, so its part says that what
has run and what is left make the argument, and that the simulator's count is
on until the program ends. For the list, the invariant is that some sequence
names the nodes in use, each once and linked to its neighbours both ways, that
free nodes have no predecessor (which `setBreakpoint` relies on), and that the
simulator has the same addresses. Adding is a longer sequence, removing one
without the node. `ListWholeCorrect` follows: walking the links, which the
property does by a recursive function, follows the sequence. `DebuggerRefines`
needs, besides, what a command may have run while it is still at its first
instruction (`Entered`), since only that one may have a breakpoint.

SessionProofs, which extends DebuggerProofs, is about the commands that do not run
the program, in a session that interleaves them in any way. `ShownAndWrittenCorrect` and `InspectTypeCorrect`:
the invariant of the listing is that the words shown so far are the consecutive
ones from the first, which needs arithmetic in a circle (no two of fewer places
than the circle has are the same), and of w that the next address is the first
plus four for each value. The premise `AddressSpace`: the space is a circle of
whole lines, and not all of it is memory. `RegistersShownCorrect`: what r has
stored is what it last read, the saved status apart, and between two
instructions of N the first buffer is the processor's state.
`WholeFileCorrect`: a load writes the words that fit; each byte of the file lies
in the word that its place divided by four names, and no word reaches beyond the
one that ends the file. The premise `FilesOfBytes` says that files have sizes and
that what main is given are files.
`NewestFirstCorrect`: in the chain, which only grows at its head, the first so
many symbols are just those of the file read last that are wanted, and the string
table is the one they name; so a search that starts at the head meets a symbol of
that file before any other's, whatever was loaded before. The premise
`SymbolTables` is what the code relies on when it keeps the string table it met
last: the symbol tables of an ELF file name the string table that comes last.
`LoaderTypeCorrect` and `RegistersTypeCorrect` are the type invariants of the
other two parts.
`CommandsAsTypedCorrect`: the buffer holds the line, but for spaces that have
become ends of strings; in front of the pointer everything is cut, behind it only
the spaces at the end of the line are, so each call of `getNextString` cuts the
word it stands at and goes to the next, and four calls give the first four of the
words, which the property defines without pointers, from each place of the line
on. When the buffer is used again, the same calls find the end behind the first
word, change nothing and give the command alone. `CommandLineTypeCorrect` says
that what they leave always has an end. `NumbersReadCorrect`: the loop over the
characters has, after so many digits, the remainder of their value, which counts
for the places that are still to come (`Reading`); a space behind a digit ends
it, anything else refuses it. The premise `LinesOfChars` says that neither the
end of a string nor of a line is in a line, as `fgets` and `readLine` see to;
`NumberWidth` that powers are what powers are.
`SessionOfDebugger`: the commands that run the program are not disturbed by the
others, so a session is one of Debugger and DebuggerProofs is about it;
`TypesCorrect` puts the type invariants of all parts together.

LibraryProofs has `OutputInOrderCorrect`. The invariant is one equation: what is
on the wire, in the device, in `stdio_write_char`, left of the conversion and
what the items left of the format will print make, in this order, what was to be
printed; and the arguments left are those of the items left. The properties and
the model flatten sequences of sequences; that this goes element by element is
proved from the definition of FlattenSeq in the community modules.
`ConvertedRight` says the same of one conversion, for any number an int holds: the
quotients `printf_int` finds are the size over powers of ten, with the number's
sign, so its digits are the size's from the last on, and reversing puts them in
order behind the sign; a shift by whole digits brings the next one to the top of
the word, which is what `printf_hex` and `printf_bin` print. The premises are
`CallsWellFormed` (no stray % in the text, arguments of their conversions' types)
and `IntWidth`: an int has whole digits in base 16, and powers are what powers are,
which the prover knows of numbers only.

Two ways around what the prover lacks are used throughout. Its induction
theorems take an operator and cannot be instantiated; a set of natural numbers
has a least element (`Least` in NumberFacts, from the library's theorem on
well-founded relations), and the least counterexample serves instead. A
function defined by recursion is shown to exist before it is used; for a loop
whose next result depends on the last one, this is `IteratesExist`.

Only model-checked:

* liveness (fairness and ENABLED are out of this prover's reach): EveryVmRuns,
  MessageDelivered, TickServed, OvpTickServed, CommandsReturn.

## 5. Not modelled

* FIQ: its vector is an endless loop, and nothing raises it.
* The instruction cache, the TLB and the enable bits but the MMU's: single
  coprocessor writes. Of the cache functions, the shift of the way by 32 that
  `setway` makes for a cache with one way, undefined in C, is taken as a shift of
  nothing: the way is 0. Calls of the `cp15.S` functions with the zero flag set,
  and buffers that reach the last line below the middle of the address space, do
  not do what they are for; no caller in the repository makes either, and
  CachesMaintained leaves them out by name (`sound`, `Buffer`).
* The privileged stacks; `reset_guest`, `hypercall_num_error`, `hyper_panic` and
  `cpu_irq_dump`, which nothing calls; `memcpy`, `memset` and `strcmp`.
* The u8500 port except its serial port: its board table does not compile with
  the core's `types.h`. Its `stdio_write_char` drops characters until
  `soc_uart_init` has set the device's address; Output is about the time after.
* The sample guests: Hypervisor's guests are arbitrary programs.
* The debugger's help, its spelling-out of a status register, and the debug
  output of `symbols.c`; `g 0`, for which the simulator's answer to a count of
  zero is not known from this code; what an ELF file puts in memory; the
  platform files, which only instantiate peripherals of the simulator.
* The test framework and its parser, and the image merger: host programs that
  read and print in sequence.

The comments at `init.c:156`, `160` and `183` say that guests start with
interrupts off. The status they set, 0x10, has them on, which the scheduler
needs and SavedRegisters states.

## 6. Plan

Done: all modules of section 2, and theorems for each of them that has state. Every
safety invariant and every action property a passing run checks is a theorem; what
is left to TLC is liveness, and the configurations of the repository that the
assumptions of the theorems speak of.
