----------------------------- MODULE Hypervisor -----------------------------
(***************************************************************************)
(* The hypervisor on one ARMv7-A core with the RealView timer and          *)
(* interrupt controller: its bootstrap (init.c), the exception entry and   *)
(* exit code (soc_exceptions.S, family_context_*.inc), the exception       *)
(* handlers (handlers.c), the hypercalls (hypercalls.c), the timer tick    *)
(* (soc_timer.c, soc_irq.c), and the guests, which may do anything user    *)
(* mode allows.                                                            *)
(*                                                                         *)
(* There is one processor.  `at` is where it stands: at the start of a     *)
(* function of the hypervisor, or in a guest.  The hypervisor runs with    *)
(* IRQs masked, so a step covers a whole handler; what interleaves with it *)
(* is the timer, and what interleaves with a guest is every exception.     *)
(***************************************************************************)
EXTENDS MemoryMap, GuestConfig

CONSTANTS
  VMS,            \* the virtual machines
  vm_0,           \* the one that starts
  NoVM,           \* stands for a null virtual_machine pointer
  next,           \* the ring of machines (virtual_machine.next)
  config,         \* the configuration of each (virtual_machine.config)
  own_ram,        \* the memory type of each machine's RAM
  UserRegs,       \* the registers each guest's program can have
  HyperText,      \* an address of the hypervisor's own code
  TickInHandler   \* whether the timer may expire again before an IRQ is over

Ptr  == (VMS \X GuestMode) \cup ({NoVM} \X (0..7))
Null == <<NoVM, 0>>
def_context(k) == <<NoVM, k>>

\* A register file; r2-r12 and lr are saved and restored along with r0 and r1
\* and are left out.
context == [r0 : Nat, r1 : Nat, sp : Nat, pc : Nat, psr : Nat]

USER_PSR == 16                               \* 0x10
IrqMasked(psr) == (psr \div 128) % 2 = 1     \* bit I, 0x80

ASSUME HypervisorAssumption ==
  /\ vm_0 \in VMS
  /\ NoVM \notin VMS
  /\ next \in [VMS -> VMS]
  /\ config \in [VMS -> hc_config]
  /\ own_ram \in [VMS -> {MLT_USER1_RAM, MLT_USER2_RAM}]
  /\ UserRegs \in [VMS -> SUBSET context]
  /\ \A v \in VMS : \A r \in UserRegs[v] : r.psr = USER_PSR
  /\ HyperText \in Nat
  /\ TickInHandler \in BOOLEAN

\* The modes of a machine are clients of the hypervisor's domain and of that of
\* the machine's RAM, and of no other.
ASSUME DomainAccessAssumption ==
  \A v \in VMS, m \in GuestMode :
    config[v].guest_modes[m] =
      DomainWeight[section_domain(MLT_HYPER_RAM) + 1]
        + DomainWeight[section_domain(own_ram[v]) + 1]

HYPERCALL_RELEASE       == 0
HYPERCALL_MESSAGE       == 1
HYPERCALL_END_INTERRUPT == 30     \* declared, but no case of swi_handler
HypercallNumber == {HYPERCALL_RELEASE, HYPERCALL_MESSAGE, HYPERCALL_END_INTERRUPT}

BootFunction == {"cpu_init", "soc_init", "memory_init", "setup_handlers",
                 "guests_init", "start_guest"}
NoStateHandler == {"prog_abort_handler", "data_abort_handler", "undef_handler"}
HandlerPoint == {"cpu_irq_handler", "tick_handler", "swi_handler", "exception_bottom"}
                  \cup NoStateHandler

VARIABLES
  \* the processor
  at,                  \* where it stands
  regs,                \* the user registers
  irq_masked,          \* bit I of the CPSR
  dacr, flpt, mmu_on,  \* the MMU: domain access, page table, enable bit
  hypercall_number,    \* the number in the SWI instruction being handled
  \* family_context_bottom.inc
  context_stack, context_stack_curr,
  ctx,                 \* the register files in memory, by pointer
  \* the virtual machines
  curr_vm,
  current_guest_mode, interrupted_mode, current_mode_state, mode_config,
  message, b_new_message,
  \* devices and the handlers registered for them
  gic_on, handlers_set, timer_on,
  tick                 \* the interrupt line of the timer

processor == <<at, regs, irq_masked>>
mmu       == <<flpt, mmu_on>>
stack     == <<context_stack, context_stack_curr>>
modes     == <<current_guest_mode, current_mode_state>>
mailbox   == <<message, b_new_message>>
devices   == <<gic_on, handlers_set, timer_on>>

vars == <<processor, dacr, mmu, hypercall_number, stack, ctx, curr_vm, modes,
          interrupted_mode, mode_config, mailbox, devices, tick>>

clobbered == [r0 |-> 0, r1 |-> 0, sp |-> 0, pc |-> 0, psr |-> 0]
zero_word == [base |-> 0, bits |-> 0]

TypeOK ==
  /\ at \in BootFunction \cup HandlerPoint \cup {"guest"}
  /\ regs \in context
  /\ irq_masked \in BOOLEAN
  /\ dacr \in Nat
  /\ flpt \in [Page -> descriptor]
  /\ mmu_on \in BOOLEAN
  /\ hypercall_number \in HypercallNumber
  /\ context_stack \in [0..8 -> Ptr]
  /\ context_stack_curr \in 0..8
  /\ ctx \in [Ptr -> context]
  /\ curr_vm \in VMS \cup {NoVM}
  /\ current_guest_mode \in [VMS -> GuestMode]
  /\ interrupted_mode \in [VMS -> GuestMode]
  /\ current_mode_state \in [VMS -> Ptr]
  /\ mode_config \in [Ptr -> Nat]
  /\ message \in [VMS -> Nat]
  /\ b_new_message \in [VMS -> BOOLEAN]
  /\ gic_on \in BOOLEAN
  /\ handlers_set \in BOOLEAN
  /\ timer_on \in BOOLEAN
  /\ tick \in BOOLEAN

\* boot.S masks interrupts and clears .bss; .data holds the context stack.
Init ==
  /\ at = "cpu_init"
  /\ regs = clobbered
  /\ irq_masked = TRUE
  /\ dacr = 0
  /\ flpt = [page \in Page |-> zero_word]
  /\ mmu_on = FALSE
  /\ hypercall_number = 0
  /\ context_stack = [k \in 0..8 |-> IF k \in 1..7 THEN def_context(k) ELSE Null]
  /\ context_stack_curr = 0
  /\ ctx = [p \in Ptr |-> clobbered]
  /\ curr_vm = NoVM
  /\ current_guest_mode = [v \in VMS |-> 0]
  /\ interrupted_mode = [v \in VMS |-> 0]
  /\ current_mode_state = [v \in VMS |-> Null]
  /\ mode_config = [p \in Ptr |-> 0]
  /\ message = [v \in VMS |-> 0]
  /\ b_new_message = [v \in VMS |-> FALSE]
  /\ gic_on = FALSE
  /\ handlers_set = FALSE
  /\ timer_on = FALSE
  /\ tick = FALSE

-----------------------------------------------------------------------------
(* Contexts (family_context_top.inc, family_context_bottom.inc).           *)

\* Exception entry: r is stored in the context the next stack entry points to.
store_context(r) ==
  /\ context_stack_curr' = context_stack_curr + 1
  /\ ctx' = [ctx EXCEPT ![context_stack[context_stack_curr + 1]] = r]
  /\ irq_masked' = TRUE
  /\ UNCHANGED context_stack

\* Mutant: the entry is popped before it is used, not after.
restore_context_popped ==
  /\ regs' = ctx[context_stack[context_stack_curr - 1]]
  /\ irq_masked' = IrqMasked(regs'.psr)
  /\ context_stack_curr' = context_stack_curr - 1
  /\ UNCHANGED <<context_stack, ctx>>

\* Exception exit: the user registers and the status come from the context the
\* current entry points to.
restore_context ==
  /\ regs' = ctx[context_stack[context_stack_curr]]
  /\ irq_masked' = IrqMasked(regs'.psr)
  /\ context_stack_curr' = context_stack_curr - 1
  /\ UNCHANGED <<context_stack, ctx>>

cpu_context_current_set(p) ==
  context_stack' = [context_stack EXCEPT ![context_stack_curr] = p]

\* Mutant: the machine record keeps pointing at the mode it leaves.
change_guest_mode_stale(v, mode) ==
  /\ current_guest_mode' = [current_guest_mode EXCEPT ![v] = mode]
  /\ cpu_context_current_set(<<v, mode>>)
  /\ dacr' = mode_config[<<v, mode>>]
  /\ UNCHANGED current_mode_state

\* Mutant: the domain access is left as it is, as between modes of one machine.
change_guest_mode_same_domain(v, mode) ==
  /\ current_mode_state' = [current_mode_state EXCEPT ![v] = <<v, mode>>]
  /\ current_guest_mode' = [current_guest_mode EXCEPT ![v] = mode]
  /\ cpu_context_current_set(<<v, mode>>)
  /\ dacr' = IF at = "start_guest" THEN mode_config[<<v, mode>>] ELSE dacr

\* change_guest_mode, for the machine curr_vm points to by then.
change_guest_mode(v, mode) ==
  /\ current_mode_state' = [current_mode_state EXCEPT ![v] = <<v, mode>>]
  /\ current_guest_mode' = [current_guest_mode EXCEPT ![v] = mode]
  /\ cpu_context_current_set(<<v, mode>>)
  /\ dacr' = mode_config[<<v, mode>>]

-----------------------------------------------------------------------------
(* Bootstrap: the functions init_ calls, in its order.                     *)

call_next(f, g) == at = f /\ at' = g

cpu_init ==
  /\ call_next("cpu_init", "soc_init")
  /\ mmu_on' = FALSE
  /\ UNCHANGED <<regs, irq_masked, dacr, flpt, hypercall_number, stack, ctx, curr_vm,
                 modes, interrupted_mode, mode_config, mailbox, devices, tick>>

\* The interrupt controller is enabled with the timer stub as the handler of
\* its one source; the timer is stopped.
soc_init ==
  /\ call_next("soc_init", "memory_init")
  /\ gic_on' = TRUE
  /\ timer_on' = FALSE
  /\ UNCHANGED <<regs, irq_masked, dacr, mmu, hypercall_number, stack, ctx, curr_vm,
                 modes, interrupted_mode, mode_config, mailbox, handlers_set, tick>>

memory_init ==
  /\ call_next("memory_init", "setup_handlers")
  /\ flpt' = first_level_table
  /\ dacr' = 1431655765            \* 0x55555555: client of every domain
  /\ mmu_on' = TRUE
  /\ UNCHANGED <<regs, irq_masked, hypercall_number, stack, ctx, curr_vm, modes,
                 interrupted_mode, mode_config, mailbox, devices, tick>>

\* Mutant: interrupts are enabled along with the timer.
setup_handlers_unmasked ==
  /\ call_next("setup_handlers", "guests_init")
  /\ handlers_set' = TRUE
  /\ timer_on' = TRUE
  /\ irq_masked' = FALSE
  /\ UNCHANGED <<regs, dacr, mmu, hypercall_number, stack, ctx, curr_vm, modes,
                 interrupted_mode, mode_config, mailbox, gic_on, tick>>

\* From here on the timer ticks, before there is a machine to interrupt.
setup_handlers ==
  /\ call_next("setup_handlers", "guests_init")
  /\ handlers_set' = TRUE
  /\ timer_on' = TRUE
  /\ UNCHANGED <<regs, irq_masked, dacr, mmu, hypercall_number, stack, ctx, curr_vm,
                 modes, interrupted_mode, mode_config, mailbox, gic_on, tick>>

\* Mutant: guests start with the status reset_guest gives them, 0xD0.
entry_context_masked(v, mode) ==
  [r0 |-> 0, r1 |-> 0,
   sp |-> IF mode = HC_GM_TASK THEN config[v].guest_entry_sp ELSE config[v].interrupt_sp,
   pc |-> IF mode = HC_GM_TASK THEN config[v].guest_entry_point ELSE config[v].message_handler,
   psr |-> 208]

entry_context(v, mode) ==
  IF mode = HC_GM_TASK
  THEN [r0 |-> 0, r1 |-> 0, sp |-> config[v].guest_entry_sp,
        pc |-> config[v].guest_entry_point, psr |-> USER_PSR]
  ELSE [r0 |-> 0, r1 |-> 0, sp |-> config[v].interrupt_sp,
        pc |-> config[v].message_handler, psr |-> USER_PSR]

\* Mutant: cpu_context_initial_set is forgotten.
guests_init_no_context ==
  /\ call_next("guests_init", "start_guest")
  /\ mode_config' = [p \in Ptr |-> IF p[1] \in VMS THEN config[p[1]].guest_modes[p[2]]
                                   ELSE mode_config[p]]
  /\ ctx' = [p \in Ptr |-> IF p[1] \in VMS THEN entry_context(p[1], p[2]) ELSE ctx[p]]
  /\ current_guest_mode' = [v \in VMS |-> HC_GM_TASK]
  /\ interrupted_mode' = [v \in VMS |-> HC_GM_INTERRUPT]
  /\ current_mode_state' = [v \in VMS |-> <<v, HC_GM_TASK>>]
  /\ b_new_message' = [v \in VMS |-> FALSE]
  /\ message' = [v \in VMS |-> 0]
  /\ curr_vm' = vm_0
  /\ UNCHANGED <<regs, irq_masked, dacr, mmu, hypercall_number, stack, devices, tick>>

guests_init ==
  /\ call_next("guests_init", "start_guest")
  /\ mode_config' = [p \in Ptr |-> IF p[1] \in VMS THEN config[p[1]].guest_modes[p[2]]
                                   ELSE mode_config[p]]
  /\ ctx' = [p \in Ptr |-> IF p[1] \in VMS THEN entry_context(p[1], p[2]) ELSE ctx[p]]
  /\ current_guest_mode' = [v \in VMS |-> HC_GM_TASK]
  /\ interrupted_mode' = [v \in VMS |-> HC_GM_INTERRUPT]
  /\ current_mode_state' = [v \in VMS |-> <<v, HC_GM_TASK>>]
  /\ b_new_message' = [v \in VMS |-> FALSE]
  /\ message' = [v \in VMS |-> 0]
  /\ curr_vm' = vm_0
  /\ context_stack' = [context_stack EXCEPT ![1] = <<vm_0, HC_GM_TASK>>]
  /\ UNCHANGED <<regs, irq_masked, dacr, mmu, hypercall_number, context_stack_curr,
                 devices, tick>>

\* The guest is entered by MOVS PC, LR.  The entry point was moved to LR before
\* a call of printf, which leaves its return address there, an address of the
\* hypervisor.  The entry point, which is what the code means, is kept as the
\* other outcome: whatever holds of both holds of a build that preserves LR.
start_guest ==
  /\ call_next("start_guest", "guest")
  /\ change_guest_mode(curr_vm, HC_GM_TASK)
  /\ \E lr \in {config[curr_vm].guest_entry_point, HyperText} :
       regs' = [r0 |-> 0, r1 |-> 0, sp |-> config[curr_vm].guest_entry_sp,
                pc |-> lr, psr |-> USER_PSR]
  /\ irq_masked' = IrqMasked(USER_PSR)
  /\ UNCHANGED <<mmu, hypercall_number, context_stack_curr, ctx, curr_vm,
                 interrupted_mode, mode_config, mailbox, devices, tick>>

-----------------------------------------------------------------------------
(* A guest, and the exceptions it raises.                                  *)

CanExecute == mmu_on => UserMayExecute(flpt, dacr, ADR_TO_PAGE(regs.pc))

GuestRun ==
  /\ at = "guest"
  /\ CanExecute
  /\ regs' \in UserRegs[curr_vm]
  /\ UNCHANGED <<at, irq_masked, dacr, mmu, hypercall_number, stack, ctx, curr_vm,
                 modes, interrupted_mode, mode_config, mailbox, devices, tick>>

\* The registers with the program counter past the instruction that trapped:
\* the address of the next one in the guest's program.
Returning ==
  {[regs EXCEPT !.pc = s.pc] : s \in UserRegs[curr_vm]}

Trap(handler) ==
  /\ at = "guest"
  /\ at' = handler
  /\ UNCHANGED <<dacr, mmu, curr_vm, modes, interrupted_mode, mode_config, mailbox,
                 devices, tick>>

\* Mutant: the opcode is left in the top bits of the hypercall number.
impl_swi_opcode(n) ==
  /\ CanExecute
  /\ Trap("swi_handler")
  /\ \E r \in Returning : store_context(r)
  /\ hypercall_number' = n + 251658240
  /\ UNCHANGED regs

\* impl_swi: r0 and r1 are still the guest's when the handler gets them.
impl_swi(n) ==
  /\ CanExecute
  /\ Trap("swi_handler")
  /\ \E r \in Returning : store_context(r)
  /\ hypercall_number' = n
  /\ UNCHANGED regs

impl_undef ==
  /\ CanExecute
  /\ Trap("undef_handler")
  /\ \E r \in Returning : store_context(r)
  /\ regs' = clobbered
  /\ UNCHANGED hypercall_number

\* Aborts return to the instruction that caused them.
impl_pabort ==
  /\ ~CanExecute
  /\ Trap("prog_abort_handler")
  /\ store_context(regs)
  /\ regs' = clobbered
  /\ UNCHANGED hypercall_number

impl_dabort ==
  /\ CanExecute
  /\ \E page \in Page : mmu_on /\ ~UserMay(flpt, dacr, page)
  /\ Trap("data_abort_handler")
  /\ store_context(regs)
  /\ regs' = clobbered
  /\ UNCHANGED hypercall_number

impl_irq ==
  /\ tick
  /\ gic_on
  /\ ~irq_masked
  /\ Trap("cpu_irq_handler")
  /\ store_context(regs)
  /\ regs' = clobbered
  /\ UNCHANGED hypercall_number

exception_bottom ==
  /\ call_next("exception_bottom", "guest")
  /\ restore_context
  /\ UNCHANGED <<dacr, mmu, hypercall_number, curr_vm, modes, interrupted_mode,
                 mode_config, mailbox, devices, tick>>

-----------------------------------------------------------------------------
(* The timer and its interrupt.                                            *)

TimerExpires ==
  /\ timer_on
  /\ ~tick
  /\ at \in {"cpu_irq_handler", "tick_handler"} => TickInHandler
  /\ tick' = TRUE
  /\ UNCHANGED <<processor, dacr, mmu, hypercall_number, stack, ctx, curr_vm, modes,
                 interrupted_mode, mode_config, mailbox, devices>>

\* One turn of the loop of cpu_irq_handler: as long as the controller has an
\* interrupt to acknowledge, its handler is called; a spurious one ends it.
\* (The timer's is the only source enabled.)
cpu_irq_handler ==
  /\ at = "cpu_irq_handler"
  /\ at' = IF tick THEN "tick_handler" ELSE "exception_bottom"
  /\ UNCHANGED <<regs, irq_masked, dacr, mmu, hypercall_number, stack, ctx, curr_vm,
                 modes, interrupted_mode, mode_config, mailbox, devices, tick>>

\* Mutant: the loop is left after one interrupt.
tick_handler_stub_returns ==
  /\ call_next("tick_handler", "exception_bottom")
  /\ tick' = FALSE
  /\ UNCHANGED <<regs, irq_masked, mmu, hypercall_number, context_stack_curr,
                 mode_config, message, devices>>

\* tick_handler_stub clears the timer's interrupt and calls irq_handler.
tick_handler_stub ==
  /\ call_next("tick_handler", "cpu_irq_handler")
  /\ tick' = FALSE
  /\ UNCHANGED <<regs, irq_masked, mmu, hypercall_number, context_stack_curr,
                 mode_config, message, devices>>

other == next[curr_vm]

Deliverable(v) == b_new_message[v] /\ current_guest_mode[v] = HC_GM_TASK

\* Mutant: the mode of the wrong machine is looked at.
take_message_wrong_mode ==
  b_new_message[other] /\ current_guest_mode[curr_vm] = HC_GM_TASK

\* What irq_handler decides on.
take_message == Deliverable(other)

\* The next machine has a message and is in TASK mode: it is interrupted.
irq_deliver ==
  /\ tick_handler_stub
  /\ take_message
  /\ LET mode  == config[other].interrupt_mode
         state == <<other, mode>>
     IN  /\ b_new_message' = [b_new_message EXCEPT ![other] = FALSE]
         /\ interrupted_mode' =
              [interrupted_mode EXCEPT ![curr_vm] = current_guest_mode[curr_vm]]
         /\ curr_vm' = other
         /\ change_guest_mode(other, mode)
         /\ ctx' = [ctx EXCEPT ![state].pc = config[other].message_handler,
                               ![state].r0 = message[other]]

\* Mutant: the domain access of the machine switched from is kept.
irq_switch_same_domain ==
  /\ tick_handler_stub
  /\ ~take_message
  /\ curr_vm' = other
  /\ cpu_context_current_set(current_mode_state[other])
  /\ UNCHANGED <<dacr, ctx, modes, interrupted_mode, b_new_message>>

\* Otherwise the next machine goes on where it was.
irq_switch ==
  /\ tick_handler_stub
  /\ ~take_message
  /\ curr_vm' = other
  /\ cpu_context_current_set(current_mode_state[other])
  /\ dacr' = mode_config[current_mode_state[other]]
  /\ UNCHANGED <<ctx, modes, interrupted_mode, b_new_message>>

-----------------------------------------------------------------------------
(* Hypercalls and the handlers of the other exceptions.                    *)

hypercall_message(param) ==
  /\ b_new_message' = [b_new_message EXCEPT ![other] = TRUE]
  /\ message' = [message EXCEPT ![other] = param]
  /\ UNCHANGED <<dacr, modes, context_stack>>

hypercall_end_interrupt ==
  /\ change_guest_mode(curr_vm, IF current_guest_mode[curr_vm] = HC_GM_TASK
                                THEN HC_GM_INTERRUPT ELSE HC_GM_TASK)
  /\ UNCHANGED mailbox

swi_handler ==
  /\ call_next("swi_handler", "exception_bottom")
  /\ \/ /\ hypercall_number = HYPERCALL_MESSAGE
        /\ hypercall_message(regs.r1)
     \/ /\ hypercall_number = HYPERCALL_RELEASE
        /\ hypercall_end_interrupt
     \/ /\ hypercall_number \notin {HYPERCALL_MESSAGE, HYPERCALL_RELEASE}
        /\ UNCHANGED <<dacr, modes, context_stack, mailbox>>
  /\ regs' = clobbered
  /\ hypercall_number' = 0
  /\ UNCHANGED <<irq_masked, mmu, context_stack_curr, ctx, curr_vm, interrupted_mode,
                 mode_config, devices, tick>>

\* The abort and the undefined-instruction handlers answer RV_OK and do nothing.
no_state_handler ==
  /\ at \in NoStateHandler
  /\ at' = "exception_bottom"
  /\ UNCHANGED <<regs, irq_masked, dacr, mmu, hypercall_number, stack, ctx, curr_vm,
                 modes, interrupted_mode, mode_config, mailbox, devices, tick>>

-----------------------------------------------------------------------------
Boot ==
  \/ cpu_init \/ soc_init \/ memory_init
  \/ setup_handlers \/ guests_init \/ start_guest

Handler ==
  \/ cpu_irq_handler \/ irq_deliver \/ irq_switch
  \/ swi_handler \/ no_state_handler \/ exception_bottom

Guest ==
  \/ GuestRun
  \/ \E n \in HypercallNumber : impl_swi(n)
  \/ impl_undef \/ impl_pabort \/ impl_dabort

Next == Boot \/ Handler \/ Guest \/ impl_irq \/ TimerExpires

Spec == Init /\ [][Next]_vars

\* The hypervisor runs to the end of each handler; the timer, once started,
\* expires; and a pending unmasked interrupt is taken: the processor looks for
\* one at each instruction boundary, so a guest cannot trap past it for ever.
FairSpec ==
  Spec /\ WF_vars(Boot \/ Handler) /\ WF_vars(TimerExpires) /\ SF_vars(impl_irq)

-----------------------------------------------------------------------------
(* Safety.                                                                 *)

(* While a guest runs, the context the next exception will be saved to is  *)
(* that of the machine and mode that runs, and the machine records say the *)
(* same; so does the domain access word.  (The stack entry, curr_vm,       *)
(* current_mode_state, current_guest_mode and the DACR are written by      *)
(* start_guest, change_guest_mode and irq_handler, not always together.)   *)
ActiveContext ==
  at = "guest" =>
    /\ curr_vm \in VMS
    /\ context_stack_curr = 0
    /\ context_stack[1] = <<curr_vm, current_guest_mode[curr_vm]>>
    /\ \A v \in VMS : current_mode_state[v] = <<v, current_guest_mode[v]>>
    /\ dacr = config[curr_vm].guest_modes[current_guest_mode[curr_vm]]

(* While a guest runs, user mode reaches exactly that machine's RAM and    *)
(* the IO registers, whichever way the processor came to it; and the       *)
(* hypervisor can reach its own RAM to take the next exception             *)
(* (memory_init's table under the DACR irq_handler and change_guest_mode   *)
(* load).                                                                  *)
Isolation ==
  at = "guest" =>
    /\ mmu_on
    /\ \A page \in Page :
         LET mlt == mem_padr_lookup(page)
         IN  /\ UserMay(flpt, dacr, page) <=> mlt \in {own_ram[curr_vm], MLT_IO_REG}
             /\ mlt = MLT_HYPER_RAM => PrivilegedMay(flpt, dacr, page)

(* An interrupt finds the processor in a guest, with a machine for         *)
(* irq_handler to switch from: never in the bootstrap, where the timer     *)
(* already ticks and curr_vm is null, nor in a handler, which would be     *)
(* saved over (setup_handlers starts the timer before guests_init).        *)
InterruptsOnlyGuests ==
  ~irq_masked => at = "guest" /\ curr_vm \in VMS /\ handlers_set

BeforeGuests == BootFunction \ {"start_guest"}

(* What makes the three hold, and is kept by every step: where each part   *)
(* of the bookkeeping stands at each point of the hypervisor.  In a        *)
(* handler the context to return to is always the active one, so           *)
(* exception_bottom can be reached from anywhere; the machine records of   *)
(* all the machines, not of the current one alone, are consistent at any   *)
(* time, for irq_handler may switch to them.                               *)
Bookkeeping ==
  /\ context_stack_curr = IF at \in HandlerPoint THEN 1 ELSE 0
  /\ at # "guest" => irq_masked
  /\ at \notin BootFunction => handlers_set
  /\ at \in {"guests_init", "start_guest"} => handlers_set
  /\ at \notin {"cpu_init", "soc_init", "memory_init"} => mmu_on /\ flpt = first_level_table
  /\ at \notin BeforeGuests =>
       /\ curr_vm \in VMS
       /\ context_stack[1] = <<curr_vm, current_guest_mode[curr_vm]>>
       /\ \A v \in VMS : current_mode_state[v] = <<v, current_guest_mode[v]>>
       /\ \A v \in VMS, m \in GuestMode : mode_config[<<v, m>>] = config[v].guest_modes[m]
  /\ at = "start_guest" => current_guest_mode[curr_vm] = HC_GM_TASK
  /\ at \notin BootFunction =>
       dacr = config[curr_vm].guest_modes[current_guest_mode[curr_vm]]

(* No context can resume a guest with interrupts masked or in another      *)
(* processor mode, so the tick always gets the processor back; the word a  *)
(* hypercall sends is the one saved with the guest that sends it; and no   *)
(* message is waiting before there are guests (entry_context,              *)
(* store_context, impl_swi).                                               *)
SavedRegisters ==
  /\ at \notin BeforeGuests =>
       \A v \in VMS, m \in GuestMode : ctx[<<v, m>>].psr = USER_PSR
  /\ at = "guest" => regs.psr = USER_PSR /\ ~irq_masked
  /\ at = "swi_handler" =>
       regs.r1 = ctx[<<curr_vm, current_guest_mode[curr_vm]>>].r1
  /\ at \in BeforeGuests =>
       b_new_message = [v \in VMS |-> FALSE] /\ message = [v \in VMS |-> 0]

-----------------------------------------------------------------------------
(* What the guests see: the abstract specification.                        *)

\* The registers of machine v in mode m: in the processor while it runs,
\* otherwise in its context.
view ==
  [v \in VMS |-> [m \in GuestMode |->
     CASE at \in BeforeGuests -> entry_context(v, m)
       [] at = "guest" /\ v = curr_vm /\ m = current_guest_mode[v] -> regs
       [] OTHER -> ctx[<<v, m>>]]]

Ideal == INSTANCE IdealGuests WITH
  reg   <- view,
  mode  <- IF at \in BeforeGuests THEN [v \in VMS |-> HC_GM_TASK]
           ELSE current_guest_mode,
  full  <- b_new_message,
  inbox <- message

(* The hypervisor gives each guest a machine of its own (IdealGuests): no  *)
(* trap, tick or switch moves a register from one machine or mode to       *)
(* another, and messages are the only channel.                             *)
IdealSpec == Ideal!Spec

AsyncPoint   == {"cpu_irq_handler", "prog_abort_handler", "data_abort_handler"}
SeenByGuests == \E v \in VMS : Ideal!Send(v) \/ Ideal!Deliver(v) \/ Ideal!Release(v)

(* A guest that is interrupted, preempted or aborted goes on exactly where *)
(* it was: taking such an exception, handling it and returning compute     *)
(* nothing.  A step of the hypervisor changes what guests see only by      *)
(* sending, delivering or changing mode (store_context, restore_context,   *)
(* irq_handler, swi_handler).                                              *)
HypervisorTransparent ==
  [][(at \in HandlerPoint \/ at' \in AsyncPoint) => (SeenByGuests \/ UNCHANGED Ideal!vars)]_vars

(* The interrupt controller and its driver are here one line and a loop    *)
(* that looks at it (TickLine), which the module Gic implements with the   *)
(* registers of the controller: the line rises only once a handler is set, *)
(* it is not dropped unserved, and the loop is not left while it is high   *)
(* (setup_handlers, cpu_irq_handler, tick_handler_stub).                   *)
Line == INSTANCE TickLine WITH
  where   <- IF at = "cpu_irq_handler" THEN "loop"
             ELSE IF at = "tick_handler" THEN "handler"
             ELSE "outside",
  running <- timer_on /\ handlers_set
TickSpec == Line!Spec

-----------------------------------------------------------------------------
(* Liveness.                                                               *)

Runs(v) == at = "guest" /\ curr_vm = v

\* From some time on, the timer does not expire again inside its interrupt.
HandlerKeepsPace ==
  <>[][(at \in {"cpu_irq_handler", "tick_handler"}) /\ tick' => tick]_vars

(* Every machine gets the processor again and again, whatever the others   *)
(* do with it: trapping, faulting for ever, sending (the round robin of    *)
(* irq_handler, driven by the timer).  The loop of cpu_irq_handler looks   *)
(* for another tick after each, so a tick inside the interrupt switches    *)
(* twice: only if that stops happening is every machine sure to run.       *)
EveryVmRuns == HandlerKeepsPace => \A v \in VMS : []<>Runs(v)

(* A message waiting for a machine in TASK mode is delivered, unless the   *)
(* machine itself leaves TASK mode first (irq_handler looks only at the    *)
(* machine after the current one).                                         *)
MessageDelivered ==
  \A v \in VMS : Deliverable(v) ~> ~Deliverable(v)

-----------------------------------------------------------------------------
(* What documents and comments of the repository say, and the code does    *)
(* not do.                                                                 *)

(* "Setup VM task mode context (entry registers)" (init.c:153): the first  *)
(* guest is entered with the registers its TASK context holds.             *)
StartsAtEntryPoint ==
  [][at = "start_guest" => regs' = ctx[<<curr_vm, HC_GM_TASK>>]]_vars

(* "The stack pointer if owerritten with the default interrupt stack       *)
(* pointer" (presentation.org:51) when a message is delivered: then        *)
(* irq_handler clears its flag.                                            *)
HandlerStackReset ==
  [][\A v \in VMS : b_new_message[v] /\ ~b_new_message'[v] =>
       ctx'[<<v, config[v].interrupt_mode>>].sp = config[v].interrupt_sp]_vars
=============================================================================
