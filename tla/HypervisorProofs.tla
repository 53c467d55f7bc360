-------------------------- MODULE HypervisorProofs --------------------------
(***************************************************************************)
(* Proofs about the hypervisor, for any ring of machines, configuration,   *)
(* guest programs and board layout.                                        *)
(***************************************************************************)
EXTENDS Hypervisor, TLAPS

(* The inductive invariant: the types and the bookkeeping.                 *)
IInv == TypeOK /\ Bookkeeping

-----------------------------------------------------------------------------
(* Lemmas on the operators.                                                *)

(* Every first-level table memory_init builds is made of descriptors,      *)
(* whatever the board's layout says.                                       *)
LEMMA TableType == first_level_table \in [Page -> descriptor]
<1> SUFFICES ASSUME NEW page \in Page
             PROVE  section(page) \in descriptor
  BY DEF first_level_table
<1> DEFINE mlt == mem_padr_lookup(page)
<1>1. page \in Nat
  BY LayoutAssumption
<1>2. section_domain(mlt) \in Nat
  BY DEF section_domain
<1>3. section_ap(mlt) \in Nat
  BY DEF section_ap
<1>4. section_kind(mlt) \in Nat
  BY DEF section_kind
<1>5. section_bits(mlt) \in Nat
  <2> HIDE DEF mlt
  <2> QED BY <1>2, <1>3, <1>4 DEF section_bits
<1> QED BY <1>1, <1>5 DEF section, descriptor

(* The pointers the hypervisor uses are pointers.                          *)
LEMMA PtrType ==
  /\ \A v \in VMS, m \in GuestMode : <<v, m>> \in Ptr
  /\ Null \in Ptr
  /\ \A k \in 0..7 : def_context(k) \in Ptr
BY DEF Ptr, Null, def_context

LEMMA ConfigType ==
  ASSUME NEW v \in VMS
  PROVE  /\ next[v] \in VMS
         /\ config[v].guest_entry_point \in Nat
         /\ config[v].guest_entry_sp \in Nat
         /\ config[v].message_handler \in Nat
         /\ config[v].interrupt_sp \in Nat
         /\ config[v].interrupt_mode \in GuestMode
         /\ \A m \in GuestMode : config[v].guest_modes[m] \in Nat
BY HypervisorAssumption DEF hc_config

LEMMA ModeType == HC_GM_TASK \in GuestMode /\ HC_GM_INTERRUPT \in GuestMode
BY DEF HC_GM_TASK, HC_GM_INTERRUPT, GuestMode, HC_NGUESTMODES

LEMMA EntryType ==
  ASSUME NEW v \in VMS, NEW m \in GuestMode
  PROVE  entry_context(v, m) \in context
BY ConfigType DEF entry_context, context, USER_PSR

-----------------------------------------------------------------------------
(* The bootstrap establishes the invariant.                                *)

LEMMA InitIInv == Init => IInv
<1> SUFFICES ASSUME Init PROVE IInv
  OBVIOUS
<1> USE DEF Init
<1>1. TypeOK
  <2>1. regs \in context
    BY DEF clobbered, context
  <2>2. context_stack \in [0..8 -> Ptr]
    BY PtrType
  <2>3. ctx \in [Ptr -> context]
    BY DEF clobbered, context
  <2>4. flpt \in [Page -> descriptor]
    BY DEF zero_word, descriptor
  <2>5. current_mode_state \in [VMS -> Ptr]
    BY PtrType
  <2>6. /\ current_guest_mode \in [VMS -> GuestMode]
        /\ interrupted_mode \in [VMS -> GuestMode]
    BY DEF GuestMode, HC_NGUESTMODES
  <2>7. at \in BootFunction /\ hypercall_number \in HypercallNumber
    BY DEF BootFunction, HypercallNumber, HYPERCALL_RELEASE
  <2>8. mode_config \in [Ptr -> Nat] /\ message \in [VMS -> Nat]
    OBVIOUS
  <2>9. /\ curr_vm \in VMS \cup {NoVM}
        /\ context_stack_curr \in 0..8
        /\ b_new_message \in [VMS -> BOOLEAN]
    OBVIOUS
  <2>10. dacr \in Nat
    OBVIOUS
  <2> HIDE DEF Init
  <2>11. /\ irq_masked \in BOOLEAN /\ mmu_on \in BOOLEAN /\ gic_on \in BOOLEAN
         /\ handlers_set \in BOOLEAN /\ timer_on \in BOOLEAN /\ tick \in BOOLEAN
    BY DEF Init
  <2> QED
    BY <2>1, <2>2, <2>3, <2>4, <2>5, <2>6, <2>7, <2>8, <2>9, <2>10, <2>11 DEF TypeOK
<1>2. Bookkeeping
  BY DEF Bookkeeping, BootFunction, HandlerPoint, NoStateHandler, BeforeGuests
<1> QED BY <1>1, <1>2 DEF IInv

-----------------------------------------------------------------------------
(* Each function of the bootstrap keeps it.                                *)

LEMMA cpu_initIInv ==
  ASSUME IInv, cpu_init
  PROVE  IInv'
<1> USE DEF IInv, cpu_init, call_next, stack, modes, mailbox, devices
<1>1. TypeOK'
  BY DEF TypeOK, BootFunction
<1>2. Bookkeeping'
  BY DEF Bookkeeping, BootFunction, HandlerPoint, NoStateHandler, BeforeGuests
<1> QED BY <1>1, <1>2

LEMMA soc_initIInv ==
  ASSUME IInv, soc_init
  PROVE  IInv'
<1> USE DEF IInv, soc_init, call_next, mmu, stack, modes, mailbox
<1>1. TypeOK'
  BY DEF TypeOK, BootFunction
<1>2. Bookkeeping'
  BY DEF Bookkeeping, BootFunction, HandlerPoint, NoStateHandler, BeforeGuests
<1> QED BY <1>1, <1>2

LEMMA memory_initIInv ==
  ASSUME IInv, memory_init
  PROVE  IInv'
<1> USE DEF IInv, memory_init, call_next, stack, modes, mailbox, devices
<1>1. TypeOK'
  BY TableType DEF TypeOK, BootFunction
<1>2. Bookkeeping'
  BY DEF Bookkeeping, BootFunction, HandlerPoint, NoStateHandler, BeforeGuests
<1> QED BY <1>1, <1>2

LEMMA setup_handlersIInv ==
  ASSUME IInv, setup_handlers
  PROVE  IInv'
<1> USE DEF IInv, setup_handlers, call_next, mmu, stack, modes, mailbox
<1>1. TypeOK'
  BY DEF TypeOK, BootFunction
<1>2. Bookkeeping'
  BY DEF Bookkeeping, BootFunction, HandlerPoint, NoStateHandler, BeforeGuests
<1> QED BY <1>1, <1>2

(* guests_init gives every machine its record and its two contexts.        *)
LEMMA guests_initIInv ==
  ASSUME IInv, guests_init
  PROVE  IInv'
<1> USE DEF IInv, guests_init, call_next, mmu, devices
<1>1. TypeOK'
  <2>1. ctx' \in [Ptr -> context]
    <3> SUFFICES ASSUME NEW p \in Ptr
                 PROVE  (IF p[1] \in VMS THEN entry_context(p[1], p[2]) ELSE ctx[p]) \in context
      BY DEF TypeOK
    <3>1. CASE p[1] \in VMS
      <4>1. p[2] \in GuestMode
        BY <3>1, HypervisorAssumption DEF Ptr
      <4> QED BY <3>1, <4>1, EntryType
    <3>2. CASE p[1] \notin VMS
      BY <3>2 DEF TypeOK
    <3> QED BY <3>1, <3>2
  <2>2. mode_config' \in [Ptr -> Nat]
    <3> SUFFICES ASSUME NEW p \in Ptr
                 PROVE  (IF p[1] \in VMS THEN config[p[1]].guest_modes[p[2]]
                         ELSE mode_config[p]) \in Nat
      BY DEF TypeOK
    <3>1. CASE p[1] \in VMS
      <4>1. p[2] \in GuestMode
        BY <3>1, HypervisorAssumption DEF Ptr
      <4> QED BY <3>1, <4>1, ConfigType
    <3>2. CASE p[1] \notin VMS
      BY <3>2 DEF TypeOK
    <3> QED BY <3>1, <3>2
  <2>3. /\ current_guest_mode' \in [VMS -> GuestMode]
        /\ interrupted_mode' \in [VMS -> GuestMode]
        /\ current_mode_state' \in [VMS -> Ptr]
    BY ModeType, PtrType
  <2>4. /\ curr_vm' \in VMS \cup {NoVM}
        /\ context_stack' \in [0..8 -> Ptr]
    BY ModeType, PtrType, HypervisorAssumption DEF TypeOK
  <2>5. message' \in [VMS -> Nat] /\ b_new_message' \in [VMS -> BOOLEAN]
    OBVIOUS
  <2> QED
    BY <2>1, <2>2, <2>3, <2>4, <2>5 DEF TypeOK, BootFunction
<1>2. Bookkeeping'
  <2>1. curr_vm' = vm_0 /\ vm_0 \in VMS
    BY HypervisorAssumption
  <2>2. context_stack'[1] = <<vm_0, HC_GM_TASK>>
    BY DEF TypeOK
  <2>3. \A v \in VMS : current_guest_mode'[v] = HC_GM_TASK
                      /\ current_mode_state'[v] = <<v, HC_GM_TASK>>
    OBVIOUS
  <2>4. \A v \in VMS, m \in GuestMode : mode_config'[<<v, m>>] = config[v].guest_modes[m]
    BY PtrType
  <2> QED
    BY <2>1, <2>2, <2>3, <2>4
    DEF Bookkeeping, BootFunction, HandlerPoint, NoStateHandler, BeforeGuests
<1> QED BY <1>1, <1>2

LEMMA start_guestIInv ==
  ASSUME IInv, start_guest
  PROVE  IInv'
<1> USE DEF IInv, start_guest, call_next, mmu, mailbox, devices
<1>1. curr_vm \in VMS /\ context_stack_curr = 0
  BY DEF Bookkeeping, BootFunction, HandlerPoint, NoStateHandler, BeforeGuests
<1>2. PICK lr \in {config[curr_vm].guest_entry_point, HyperText} :
        regs' = [r0 |-> 0, r1 |-> 0, sp |-> config[curr_vm].guest_entry_sp,
                 pc |-> lr, psr |-> USER_PSR]
  OBVIOUS
<1>3. regs' \in context
  BY <1>1, <1>2, ConfigType, HypervisorAssumption DEF context, USER_PSR
<1>4. mode_config[<<curr_vm, HC_GM_TASK>>] = config[curr_vm].guest_modes[HC_GM_TASK]
  BY <1>1, ModeType DEF Bookkeeping, BootFunction, BeforeGuests
<1>5. /\ context_stack'[1] = <<curr_vm, HC_GM_TASK>>
      /\ current_guest_mode'[curr_vm] = HC_GM_TASK
      /\ current_mode_state'[curr_vm] = <<curr_vm, HC_GM_TASK>>
      /\ \A v \in VMS \ {curr_vm} : /\ current_guest_mode'[v] = current_guest_mode[v]
                                   /\ current_mode_state'[v] = current_mode_state[v]
  BY <1>1 DEF TypeOK, Bookkeeping, BootFunction, BeforeGuests, change_guest_mode,
              cpu_context_current_set
<1>6. TypeOK'
  <2>1. /\ context_stack' \in [0..8 -> Ptr]
        /\ current_guest_mode' \in [VMS -> GuestMode]
        /\ current_mode_state' \in [VMS -> Ptr]
    BY <1>1, ModeType, PtrType DEF TypeOK, change_guest_mode, cpu_context_current_set
  <2>2. dacr' \in Nat
    BY <1>1, <1>4, ModeType, ConfigType DEF change_guest_mode
  <2>3. irq_masked' \in BOOLEAN
    BY DEF IrqMasked
  <2> QED BY <1>3, <2>1, <2>2, <2>3 DEF TypeOK
<1>7. Bookkeeping'
  <2>1. dacr' = config[curr_vm].guest_modes[HC_GM_TASK]
    BY <1>4 DEF change_guest_mode
  <2> QED
    BY <1>1, <1>5, <2>1
    DEF Bookkeeping, BootFunction, HandlerPoint, NoStateHandler, BeforeGuests
<1> QED BY <1>6, <1>7

LEMMA BootIInv ==
  ASSUME IInv, Boot
  PROVE  IInv'
BY cpu_initIInv, soc_initIInv, memory_initIInv, setup_handlersIInv, guests_initIInv,
   start_guestIInv
DEF Boot

-----------------------------------------------------------------------------
(* Guests and the exceptions that interrupt them.                          *)

(* Entering a handler saves the registers and keeps the invariant, when    *)
(* what is saved is a register file.                                       *)
LEMMA TrapIInv ==
  ASSUME IInv, NEW h \in HandlerPoint, Trap(h), NEW r \in context, store_context(r),
         regs' \in context, hypercall_number' \in HypercallNumber
  PROVE  IInv'
<1> USE DEF IInv, Trap, store_context, mmu, modes, mailbox, devices
<1>1. curr_vm \in VMS /\ context_stack_curr = 0
  BY DEF Bookkeeping, BootFunction, HandlerPoint, NoStateHandler, BeforeGuests
<1>2. TypeOK'
  <2>1. ctx' \in [Ptr -> context]
    BY <1>1 DEF TypeOK
  <2>2. context_stack_curr' \in 0..8
    BY <1>1
  <2> QED BY <2>1, <2>2 DEF TypeOK
<1>3. Bookkeeping'
  BY <1>1 DEF Bookkeeping, BootFunction, HandlerPoint, NoStateHandler, BeforeGuests
<1> QED BY <1>2, <1>3

LEMMA ReturningType ==
  ASSUME IInv, at = "guest", NEW r \in Returning
  PROVE  r \in context
<1>1. curr_vm \in VMS /\ regs \in context
  BY DEF IInv, TypeOK, Bookkeeping, BootFunction, BeforeGuests
<1> QED BY <1>1, HypervisorAssumption DEF Returning, context

LEMMA ClobberedType == clobbered \in context
BY DEF clobbered, context

LEMMA GuestIInv ==
  ASSUME IInv, Guest
  PROVE  IInv'
<1>1. at = "guest" /\ curr_vm \in VMS /\ regs \in context /\ hypercall_number \in HypercallNumber
  BY DEF Guest, GuestRun, impl_swi, impl_undef, impl_pabort, impl_dabort, Trap, IInv, TypeOK,
         Bookkeeping, BootFunction, BeforeGuests
<1>2. CASE GuestRun
  <2> USE <1>2 DEF GuestRun, IInv, mmu, stack, modes, mailbox, devices
  <2>1. TypeOK'
    BY <1>1, HypervisorAssumption DEF TypeOK
  <2>2. Bookkeeping'
    BY DEF Bookkeeping
  <2> QED BY <2>1, <2>2
<1>3. ASSUME NEW n \in HypercallNumber, impl_swi(n)
      PROVE  IInv'
  BY <1>1, <1>3, TrapIInv, ReturningType DEF impl_swi, HandlerPoint
<1>4. CASE impl_undef
  BY <1>1, <1>4, TrapIInv, ReturningType, ClobberedType
  DEF impl_undef, HandlerPoint, NoStateHandler
<1>5. CASE impl_pabort
  BY <1>1, <1>5, TrapIInv, ClobberedType DEF impl_pabort, HandlerPoint, NoStateHandler
<1>6. CASE impl_dabort
  BY <1>1, <1>6, TrapIInv, ClobberedType DEF impl_dabort, HandlerPoint, NoStateHandler
<1> QED BY <1>2, <1>3, <1>4, <1>5, <1>6 DEF Guest

LEMMA impl_irqIInv ==
  ASSUME IInv, impl_irq
  PROVE  IInv'
<1>1. regs \in context /\ hypercall_number \in HypercallNumber
  BY DEF IInv, TypeOK
<1> QED BY <1>1, TrapIInv, ClobberedType DEF impl_irq, HandlerPoint

LEMMA TimerExpiresIInv ==
  ASSUME IInv, TimerExpires
  PROVE  IInv'
<1> USE DEF IInv, TimerExpires, processor, mmu, stack, modes, mailbox, devices
<1>1. TypeOK'
  BY DEF TypeOK
<1>2. Bookkeeping'
  BY DEF Bookkeeping
<1> QED BY <1>1, <1>2

-----------------------------------------------------------------------------
(* Handlers.                                                               *)

(* In a handler there is a machine, its context is the one to return to,   *)
(* and the records of every machine are consistent.                        *)
LEMMA InHandler ==
  ASSUME IInv, at \in HandlerPoint
  PROVE  /\ curr_vm \in VMS
         /\ other \in VMS
         /\ context_stack_curr = 1
         /\ irq_masked
         /\ \A v \in VMS : /\ current_guest_mode[v] \in GuestMode
                          /\ current_mode_state[v] = <<v, current_guest_mode[v]>>
         /\ \A v \in VMS, m \in GuestMode : mode_config[<<v, m>>] = config[v].guest_modes[m]
<1>1. curr_vm \in VMS
  BY DEF IInv, Bookkeeping, BeforeGuests, BootFunction, HandlerPoint, NoStateHandler
<1>2. other \in VMS
  BY <1>1, ConfigType DEF other
<1> QED
  BY <1>1, <1>2 DEF IInv, TypeOK, Bookkeeping, BeforeGuests, BootFunction, HandlerPoint, NoStateHandler

(* change_guest_mode, in a handler, for the machine that will be current.  *)
LEMMA ChangeGuestMode ==
  ASSUME IInv, at \in HandlerPoint, NEW v \in VMS, NEW mode \in GuestMode,
         change_guest_mode(v, mode)
  PROVE  /\ context_stack' \in [0..8 -> Ptr]
         /\ context_stack'[1] = <<v, mode>>
         /\ current_guest_mode' \in [VMS -> GuestMode]
         /\ current_guest_mode'[v] = mode
         /\ current_mode_state' \in [VMS -> Ptr]
         /\ \A w \in VMS : current_mode_state'[w] = <<w, current_guest_mode'[w]>>
         /\ dacr' = config[v].guest_modes[mode]
         /\ dacr' \in Nat
<1> USE DEF change_guest_mode, cpu_context_current_set
<1>1. <<v, mode>> \in Ptr
  BY PtrType
<1>2. context_stack' \in [0..8 -> Ptr] /\ context_stack'[1] = <<v, mode>>
  BY <1>1, InHandler DEF IInv, TypeOK
<1>3. current_guest_mode' \in [VMS -> GuestMode] /\ current_guest_mode'[v] = mode
  BY DEF IInv, TypeOK
<1>4. current_mode_state' \in [VMS -> Ptr]
  BY <1>1 DEF IInv, TypeOK
<1>5. ASSUME NEW w \in VMS
      PROVE  current_mode_state'[w] = <<w, current_guest_mode'[w]>>
  <2>1. CASE w = v
    BY <2>1 DEF IInv, TypeOK
  <2>2. CASE w # v
    BY <2>2, InHandler DEF IInv, TypeOK
  <2> QED BY <2>1, <2>2
<1>6. dacr' = config[v].guest_modes[mode] /\ dacr' \in Nat
  BY InHandler, ConfigType
<1> QED BY <1>2, <1>3, <1>4, <1>5, <1>6

LEMMA cpu_irq_handlerIInv ==
  ASSUME IInv, cpu_irq_handler
  PROVE  IInv'
<1> USE DEF IInv, cpu_irq_handler, mmu, stack, modes, mailbox, devices
<1>1. TypeOK'
  BY DEF TypeOK, HandlerPoint
<1>2. Bookkeeping'
  BY DEF Bookkeeping, BootFunction, HandlerPoint, NoStateHandler, BeforeGuests
<1> QED BY <1>1, <1>2

LEMMA no_state_handlerIInv ==
  ASSUME IInv, no_state_handler
  PROVE  IInv'
<1> USE DEF IInv, no_state_handler, mmu, stack, modes, mailbox, devices
<1>1. TypeOK'
  BY DEF TypeOK, HandlerPoint
<1>2. Bookkeeping'
  BY DEF Bookkeeping, BootFunction, HandlerPoint, NoStateHandler, BeforeGuests
<1> QED BY <1>1, <1>2

(* Delivery: the next machine becomes the current one, in the mode its     *)
(* configuration names.                                                    *)
LEMMA irq_deliverIInv ==
  ASSUME IInv, irq_deliver
  PROVE  IInv'
<1> DEFINE mode  == config[other].interrupt_mode
           state == <<other, mode>>
<1>1. at \in HandlerPoint /\ at' = "cpu_irq_handler"
  BY DEF irq_deliver, tick_handler_stub, call_next, HandlerPoint
<1>2. other \in VMS /\ curr_vm \in VMS /\ mode \in GuestMode
  BY <1>1, InHandler, ConfigType
<1>3. change_guest_mode(other, mode)
  BY DEF irq_deliver
<1>4. /\ context_stack' \in [0..8 -> Ptr]
      /\ context_stack'[1] = state
      /\ current_guest_mode' \in [VMS -> GuestMode]
      /\ current_guest_mode'[other] = mode
      /\ current_mode_state' \in [VMS -> Ptr]
      /\ \A w \in VMS : current_mode_state'[w] = <<w, current_guest_mode'[w]>>
      /\ dacr' = config[other].guest_modes[mode]
      /\ dacr' \in Nat
  BY <1>1, <1>2, <1>3, ChangeGuestMode
<1>5. curr_vm' = other
  BY DEF irq_deliver
<1>6. TypeOK'
  <2>1. ctx' \in [Ptr -> context]
    <3>1. state \in Ptr
      BY <1>2, PtrType
    <3>2. config[other].message_handler \in Nat /\ message[other] \in Nat
      BY <1>2, ConfigType DEF IInv, TypeOK
    <3>3. ctx' = [ctx EXCEPT ![state] =
                    [ctx[state] EXCEPT !.pc = config[other].message_handler,
                                       !.r0 = message[other]]]
      BY <3>1 DEF irq_deliver, IInv, TypeOK, context
    <3>4. ctx[state] \in context
      BY <3>1 DEF IInv, TypeOK
    <3>5. [ctx[state] EXCEPT !.pc = config[other].message_handler,
                             !.r0 = message[other]] \in context
      BY <3>2, <3>4 DEF context
    <3> QED BY <3>1, <3>3, <3>5 DEF IInv, TypeOK
  <2>2. /\ interrupted_mode' \in [VMS -> GuestMode]
        /\ b_new_message' \in [VMS -> BOOLEAN]
    BY <1>2 DEF irq_deliver, IInv, TypeOK
  <2> QED
    BY <1>1, <1>2, <1>4, <1>5, <2>1, <2>2
    DEF TypeOK, IInv, irq_deliver, tick_handler_stub, mmu, devices, HandlerPoint
<1>7. Bookkeeping'
  <2> USE DEF IInv, Bookkeeping, BootFunction, HandlerPoint, NoStateHandler, BeforeGuests
  <2>1. \A v \in VMS, m \in GuestMode : mode_config'[<<v, m>>] = config[v].guest_modes[m]
    BY <1>1, InHandler DEF irq_deliver, tick_handler_stub
  <2>2. /\ context_stack_curr' = 1
        /\ irq_masked'
        /\ handlers_set'
        /\ mmu_on' /\ flpt' = first_level_table
    BY <1>1, InHandler DEF irq_deliver, tick_handler_stub, mmu, devices
  <2> QED BY <1>1, <1>2, <1>4, <1>5, <2>1, <2>2
<1> QED BY <1>6, <1>7 DEF IInv

(* Switch: the next machine becomes the current one, in the mode it was in.*)
LEMMA irq_switchIInv ==
  ASSUME IInv, irq_switch
  PROVE  IInv'
<1>1. at \in HandlerPoint /\ at' = "cpu_irq_handler"
  BY DEF irq_switch, tick_handler_stub, call_next, HandlerPoint
<1>2. /\ other \in VMS
      /\ current_guest_mode[other] \in GuestMode
      /\ current_mode_state[other] = <<other, current_guest_mode[other]>>
  BY <1>1, InHandler
<1>3. curr_vm' = other
  BY DEF irq_switch
<1>4. /\ context_stack' \in [0..8 -> Ptr]
      /\ context_stack'[1] = <<other, current_guest_mode[other]>>
  BY <1>1, <1>2, InHandler, PtrType
  DEF irq_switch, cpu_context_current_set, IInv, TypeOK
<1>5. /\ dacr' = config[other].guest_modes[current_guest_mode[other]]
      /\ dacr' \in Nat
  BY <1>1, <1>2, InHandler, ConfigType DEF irq_switch
<1>6. TypeOK'
  BY <1>1, <1>2, <1>3, <1>4, <1>5
  DEF TypeOK, IInv, irq_switch, tick_handler_stub, mmu, modes, devices, HandlerPoint
<1>7. Bookkeeping'
  <2> USE DEF IInv, Bookkeeping, BootFunction, HandlerPoint, NoStateHandler, BeforeGuests
  <2>1. /\ context_stack_curr' = 1
        /\ irq_masked'
        /\ handlers_set'
        /\ mmu_on' /\ flpt' = first_level_table
    BY <1>1, InHandler DEF irq_switch, tick_handler_stub, mmu, devices
  <2> QED
    BY <1>1, <1>2, <1>3, <1>4, <1>5, <2>1, InHandler
    DEF irq_switch, tick_handler_stub, modes
<1> QED BY <1>6, <1>7 DEF IInv

LEMMA swi_handlerIInv ==
  ASSUME IInv, swi_handler
  PROVE  IInv'
<1>1. at \in HandlerPoint /\ at' = "exception_bottom"
  BY DEF swi_handler, call_next, HandlerPoint
<1>2. curr_vm \in VMS /\ other \in VMS /\ curr_vm' = curr_vm
  BY <1>1, InHandler DEF swi_handler
<1>3. /\ context_stack' \in [0..8 -> Ptr]
      /\ current_guest_mode' \in [VMS -> GuestMode]
      /\ current_mode_state' \in [VMS -> Ptr]
      /\ context_stack'[1] = <<curr_vm, current_guest_mode'[curr_vm]>>
      /\ \A w \in VMS : current_mode_state'[w] = <<w, current_guest_mode'[w]>>
      /\ dacr' = config[curr_vm].guest_modes[current_guest_mode'[curr_vm]]
      /\ dacr' \in Nat
      /\ b_new_message' \in [VMS -> BOOLEAN]
      /\ message' \in [VMS -> Nat]
  <2>1. CASE UNCHANGED <<dacr, modes, context_stack>>
    <3>1. b_new_message' \in [VMS -> BOOLEAN] /\ message' \in [VMS -> Nat]
      <4>1. regs.r1 \in Nat
        BY DEF IInv, TypeOK, context
      <4> QED
        BY <1>2, <2>1, <4>1
        DEF swi_handler, hypercall_message, hypercall_end_interrupt, mailbox, IInv, TypeOK
    <3> QED
      BY <1>1, <1>2, <2>1, <3>1
      DEF IInv, TypeOK, modes, Bookkeeping, BootFunction, HandlerPoint, NoStateHandler,
          BeforeGuests
  <2>2. CASE hypercall_end_interrupt
    <3>1. PICK mode \in GuestMode : change_guest_mode(curr_vm, mode)
      BY <2>2, ModeType DEF hypercall_end_interrupt
    <3>2. UNCHANGED mailbox
      BY <2>2 DEF hypercall_end_interrupt
    <3> QED BY <1>1, <1>2, <3>1, <3>2, ChangeGuestMode DEF mailbox, IInv, TypeOK
  <2> QED BY <2>1, <2>2 DEF swi_handler, hypercall_message
<1>4. TypeOK'
  <2>1. hypercall_number' \in HypercallNumber
    BY DEF swi_handler, HypercallNumber, HYPERCALL_RELEASE
  <2> QED
    BY <1>1, <1>2, <1>3, <2>1, ClobberedType
    DEF TypeOK, IInv, swi_handler, mmu, devices, HandlerPoint
<1>5. Bookkeeping'
  <2> USE DEF IInv, Bookkeeping, BootFunction, HandlerPoint, NoStateHandler, BeforeGuests
  <2>1. /\ context_stack_curr' = 1
        /\ irq_masked'
        /\ handlers_set'
        /\ mmu_on' /\ flpt' = first_level_table
        /\ mode_config' = mode_config
    BY <1>1, InHandler DEF swi_handler, mmu, devices
  <2> QED BY <1>1, <1>2, <1>3, <2>1, InHandler
<1> QED BY <1>4, <1>5 DEF IInv

(* The return to a guest: the current entry of the context stack is the    *)
(* active context, so the registers loaded are those of the guest mode     *)
(* whose domain access is in force.                                        *)
LEMMA exception_bottomIInv ==
  ASSUME IInv, exception_bottom
  PROVE  IInv'
<1> USE DEF IInv, exception_bottom, call_next, restore_context, mmu, modes, mailbox, devices
<1>1. at \in HandlerPoint
  BY DEF HandlerPoint
<1>2. curr_vm \in VMS /\ context_stack_curr = 1
  BY <1>1, InHandler
<1>3. TypeOK'
  <2>1. regs' \in context
    BY <1>2 DEF TypeOK
  <2>2. irq_masked' \in BOOLEAN
    BY DEF IrqMasked
  <2>3. context_stack_curr' \in 0..8
    BY <1>2
  <2> QED BY <2>1, <2>2, <2>3 DEF TypeOK
<1>4. Bookkeeping'
  BY <1>1, <1>2 DEF Bookkeeping, BootFunction, HandlerPoint, NoStateHandler, BeforeGuests
<1> QED BY <1>3, <1>4

LEMMA HandlerIInv ==
  ASSUME IInv, Handler
  PROVE  IInv'
BY cpu_irq_handlerIInv, irq_deliverIInv, irq_switchIInv, swi_handlerIInv,
   no_state_handlerIInv, exception_bottomIInv
DEF Handler

-----------------------------------------------------------------------------
(* The invariant and what follows from it.                                 *)

LEMMA StutterIInv ==
  ASSUME IInv, UNCHANGED vars
  PROVE  IInv'
<1> USE DEF IInv, vars, processor, mmu, stack, modes, mailbox, devices
<1>1. TypeOK'
  BY DEF TypeOK
<1>2. Bookkeeping'
  BY DEF Bookkeeping
<1> QED BY <1>1, <1>2

(* Every reachable state satisfies the inductive invariant.                *)
THEOREM Invariant == Spec => []IInv
<1>1. Init => IInv
  BY InitIInv
<1>2. IInv /\ [Next]_vars => IInv'
  BY BootIInv, HandlerIInv, GuestIInv, impl_irqIInv, TimerExpiresIInv, StutterIInv DEF Next
<1> QED BY <1>1, <1>2, PTL DEF Spec

(* Type correctness of the hypervisor's state, its context stack included: *)
(* exceptions never nest past its bounds.                                  *)
THEOREM TypeCorrect == Spec => []TypeOK
<1>1. IInv => TypeOK
  BY DEF IInv
<1> QED BY <1>1, Invariant, PTL

(* The bookkeeping of contexts, modes and domains agrees at each point of  *)
(* the hypervisor (hypercalls.c, handlers.c, init.c).                      *)
THEOREM BookkeepingCorrect == Spec => []Bookkeeping
<1>1. IInv => Bookkeeping
  BY DEF IInv
<1> QED BY <1>1, Invariant, PTL

(* While a guest runs, the next exception saves into the context of the    *)
(* machine and mode that runs, under that mode's domain access             *)
(* (context_stack against curr_vm, current_guest_mode and the DACR).       *)
THEOREM ActiveContextCorrect == Spec => []ActiveContext
<1>1. IInv => ActiveContext
  BY DEF IInv, Bookkeeping, ActiveContext, BootFunction, HandlerPoint, NoStateHandler,
         BeforeGuests
<1> QED BY <1>1, Invariant, PTL

(* Interrupts are only open while a guest runs, with a current machine and *)
(* the handlers registered: the timer that setup_handlers starts before    *)
(* guests_init cannot reach irq_handler too early.                         *)
THEOREM InterruptsOnlyGuestsCorrect == Spec => []InterruptsOnlyGuests
<1>1. IInv => InterruptsOnlyGuests
  BY DEF IInv, TypeOK, Bookkeeping, InterruptsOnlyGuests, BootFunction, BeforeGuests
<1> QED BY <1>1, Invariant, PTL

-----------------------------------------------------------------------------
(* Isolation.                                                              *)

(* What the MMU decodes from the descriptor of a section, by the type of   *)
(* its page: the fields memory_init packs do not run into each other.      *)
LEMMA Decode ==
  ASSUME NEW page \in Page, flpt = first_level_table
  PROVE  LET mlt == mem_padr_lookup(page)
         IN  /\ DomainOf(flpt[page]) = section_domain(mlt)
             /\ ApOf(flpt[page]) = section_ap(mlt)
<1> DEFINE mlt == mem_padr_lookup(page)
<1>1. flpt[page].bits = section_bits(mlt)
  BY DEF first_level_table, section
<1>2. /\ section_domain(mlt) \in {0, 1, 2}
      /\ section_ap(mlt) \in {0, 1, 3}
      /\ section_kind(mlt) \in {14, 18}
  <2> HIDE DEF mlt
  <2> QED BY DEF section_domain, section_ap, section_kind
<1>3. ASSUME NEW d \in {0, 1, 2}, NEW a \in {0, 1, 3}, NEW k \in {14, 18}
      PROVE  /\ ((d * 32 + a * 1024 + k) \div 32) % 16 = d
             /\ ((d * 32 + a * 1024 + k) \div 1024) % 4 = a
  OBVIOUS
<1> HIDE DEF mlt
<1>4. DomainOf(flpt[page]) = section_domain(mlt) /\ ApOf(flpt[page]) = section_ap(mlt)
  BY <1>1, <1>2, <1>3 DEF section_bits, DomainOf, ApOf
<1> QED BY <1>4 DEF mlt

(* The domain access words make a guest a client of two domains.           *)
LEMMA Clients ==
  ASSUME NEW v \in VMS, NEW m \in GuestMode, NEW d \in {0, 1, 2}
  PROVE  Client(config[v].guest_modes[m], d) <=> d \in {0, section_domain(own_ram[v])}
<1>1. own_ram[v] \in {MLT_USER1_RAM, MLT_USER2_RAM}
  BY HypervisorAssumption
<1>2. section_domain(MLT_HYPER_RAM) = 0
  BY DEF section_domain, MLT_HYPER_RAM, MLT_IO_REG, MLT_USER1_RAM
<1>3. /\ own_ram[v] = MLT_USER1_RAM => section_domain(own_ram[v]) = 1
      /\ own_ram[v] = MLT_USER2_RAM => section_domain(own_ram[v]) = 2
  BY DEF section_domain, MLT_HYPER_RAM, MLT_IO_REG, MLT_USER1_RAM, MLT_USER2_RAM
<1>4. config[v].guest_modes[m] = 1 + DomainWeight[section_domain(own_ram[v]) + 1]
  BY <1>2, DomainAccessAssumption DEF DomainWeight
<1>5. CASE own_ram[v] = MLT_USER1_RAM
  <2>1. config[v].guest_modes[m] = 5
    BY <1>3, <1>4, <1>5 DEF DomainWeight
  <2> QED BY <1>3, <1>5, <2>1 DEF Client, DomainWeight
<1>6. CASE own_ram[v] = MLT_USER2_RAM
  <2>1. config[v].guest_modes[m] = 17
    BY <1>3, <1>4, <1>6 DEF DomainWeight
  <2> QED BY <1>3, <1>6, <2>1 DEF Client, DomainWeight
<1> QED BY <1>1, <1>5, <1>6

(* While a guest runs, user mode reaches that machine's RAM and the IO     *)
(* registers and nothing else, and the hypervisor its own RAM, for every   *)
(* layout a board may have (memory_init, change_guest_mode, irq_handler).  *)
THEOREM IsolationCorrect == Spec => []Isolation
<1>1. IInv => Isolation
  <2> SUFFICES ASSUME IInv, at = "guest"
               PROVE  /\ mmu_on
                      /\ \A page \in Page :
                           LET mlt == mem_padr_lookup(page)
                           IN  /\ UserMay(flpt, dacr, page)
                                    <=> mlt \in {own_ram[curr_vm], MLT_IO_REG}
                               /\ mlt = MLT_HYPER_RAM => PrivilegedMay(flpt, dacr, page)
    BY DEF Isolation
  <2>1. /\ mmu_on
        /\ flpt = first_level_table
        /\ curr_vm \in VMS
        /\ current_guest_mode[curr_vm] \in GuestMode
        /\ dacr = config[curr_vm].guest_modes[current_guest_mode[curr_vm]]
    BY DEF IInv, TypeOK, Bookkeeping, BootFunction, BeforeGuests
  <2>2. ASSUME NEW page \in Page, NEW mlt, mlt = mem_padr_lookup(page)
        PROVE  /\ UserMay(flpt, dacr, page) <=> mlt \in {own_ram[curr_vm], MLT_IO_REG}
               /\ mlt = MLT_HYPER_RAM => PrivilegedMay(flpt, dacr, page)
    <3>1. /\ DomainOf(flpt[page]) = section_domain(mlt)
          /\ ApOf(flpt[page]) = section_ap(mlt)
      BY <2>1, <2>2, Decode
    <3>2. section_domain(mlt) \in {0, 1, 2}
      BY DEF section_domain
    <3>3. Client(dacr, section_domain(mlt))
            <=> section_domain(mlt) \in {0, section_domain(own_ram[curr_vm])}
      BY <2>1, <3>2, Clients
    <3>4. own_ram[curr_vm] \in {MLT_USER1_RAM, MLT_USER2_RAM}
      BY <2>1, HypervisorAssumption
    <3> QED
      BY <3>1, <3>3, <3>4
      DEF UserMay, PrivilegedMay, section_domain, section_ap, MLT_HYPER_RAM, MLT_IO_REG,
          MLT_USER1_RAM, MLT_USER2_RAM
  <2> QED BY <2>1, <2>2
<1> QED BY <1>1, Invariant, PTL

-----------------------------------------------------------------------------
(* The saved registers.                                                    *)

LEMMA ReturningStatus ==
  ASSUME IInv, SavedRegisters, at = "guest", NEW r \in Returning
  PROVE  r.psr = USER_PSR /\ r.r1 = regs.r1
BY DEF Returning, SavedRegisters, IInv, TypeOK, context

(* An exception entry saves unmasked user registers, those the guest had   *)
(* in r1 with them.                                                        *)
LEMMA TrapSaved ==
  ASSUME IInv, SavedRegisters, NEW h \in HandlerPoint, Trap(h),
         NEW r \in context, store_context(r), r.psr = USER_PSR,
         h = "swi_handler" => regs'.r1 = r.r1
  PROVE  SavedRegisters'
<1>1. /\ curr_vm \in VMS
      /\ context_stack_curr = 0
      /\ context_stack[1] = <<curr_vm, current_guest_mode[curr_vm]>>
      /\ current_guest_mode[curr_vm] \in GuestMode
  BY DEF Trap, IInv, TypeOK, Bookkeeping, BootFunction, HandlerPoint, NoStateHandler,
         BeforeGuests
<1>2. ctx' = [ctx EXCEPT ![<<curr_vm, current_guest_mode[curr_vm]>>] = r]
  <2>1. context_stack[context_stack_curr + 1] = <<curr_vm, current_guest_mode[curr_vm]>>
    BY <1>1
  <2> QED BY <2>1, Zenon DEF store_context
<1>3. <<curr_vm, current_guest_mode[curr_vm]>> \in Ptr
  BY <1>1, PtrType
<1>4. \A v \in VMS, m \in GuestMode : ctx'[<<v, m>>].psr = USER_PSR
  <2> SUFFICES ASSUME NEW v \in VMS, NEW m \in GuestMode
               PROVE  ctx'[<<v, m>>].psr = USER_PSR
    OBVIOUS
  <2>1. ctx[<<v, m>>].psr = USER_PSR /\ <<v, m>> \in Ptr
    BY PtrType DEF SavedRegisters, Trap, BeforeGuests, BootFunction
  <2> QED BY <1>2, <2>1 DEF IInv, TypeOK
<1>5. ctx'[<<curr_vm, current_guest_mode[curr_vm]>>].r1 = r.r1
  BY <1>2, <1>3 DEF IInv, TypeOK
<1>6. /\ at' = h
      /\ UNCHANGED <<curr_vm, current_guest_mode>>
  BY DEF Trap, modes
<1> QED
  BY <1>4, <1>5, <1>6
  DEF SavedRegisters, BootFunction, HandlerPoint, NoStateHandler, BeforeGuests

LEMMA BootSaved ==
  ASSUME IInv, SavedRegisters, Boot
  PROVE  SavedRegisters'
<1> USE DEF SavedRegisters, call_next, BeforeGuests, BootFunction, mailbox
<1>1. CASE cpu_init \/ soc_init \/ memory_init \/ setup_handlers
  BY <1>1 DEF cpu_init, soc_init, memory_init, setup_handlers
<1>2. CASE guests_init
  <2>1. ASSUME NEW v \in VMS, NEW m \in GuestMode
        PROVE  ctx'[<<v, m>>].psr = USER_PSR
    <3>1. ctx'[<<v, m>>] = entry_context(v, m)
      BY <1>2, PtrType DEF guests_init
    <3> QED BY <3>1 DEF entry_context
  <2> QED BY <1>2, <2>1 DEF guests_init
<1>3. CASE start_guest
  <2>1. ~IrqMasked(USER_PSR)
    BY DEF IrqMasked, USER_PSR
  <2> QED BY <1>3, <2>1 DEF start_guest
<1> QED BY <1>1, <1>2, <1>3 DEF Boot

LEMMA GuestSaved ==
  ASSUME IInv, SavedRegisters, Guest \/ impl_irq
  PROVE  SavedRegisters'
<1>1. /\ at = "guest" /\ curr_vm \in VMS /\ regs \in context /\ regs.psr = USER_PSR
  BY DEF Guest, GuestRun, impl_swi, impl_undef, impl_pabort, impl_dabort, impl_irq, Trap,
         IInv, TypeOK, Bookkeeping, SavedRegisters, BootFunction, BeforeGuests
<1>2. CASE GuestRun
  BY <1>1, <1>2, HypervisorAssumption DEF GuestRun, SavedRegisters, BeforeGuests, BootFunction
<1>3. ASSUME NEW n \in HypercallNumber, impl_swi(n)
      PROVE  SavedRegisters'
  BY <1>1, <1>3, TrapSaved, ReturningType, ReturningStatus DEF impl_swi, HandlerPoint
<1>4. CASE impl_undef
  BY <1>1, <1>4, TrapSaved, ReturningType, ReturningStatus
  DEF impl_undef, HandlerPoint, NoStateHandler
<1>5. CASE impl_pabort
  BY <1>1, <1>5, TrapSaved DEF impl_pabort, HandlerPoint, NoStateHandler
<1>6. CASE impl_dabort
  BY <1>1, <1>6, TrapSaved DEF impl_dabort, HandlerPoint, NoStateHandler
<1>7. CASE impl_irq
  BY <1>1, <1>7, TrapSaved DEF impl_irq, HandlerPoint
<1> QED BY <1>2, <1>3, <1>4, <1>5, <1>6, <1>7 DEF Guest

LEMMA HandlerSaved ==
  ASSUME IInv, SavedRegisters, Handler
  PROVE  SavedRegisters'
<1>1. /\ at \in HandlerPoint
      /\ at' \in {"cpu_irq_handler", "tick_handler", "exception_bottom", "guest"}
      /\ at \notin BeforeGuests /\ at' \notin BeforeGuests
  BY DEF Handler, cpu_irq_handler, irq_deliver, irq_switch, tick_handler_stub, swi_handler,
         no_state_handler, exception_bottom, call_next, HandlerPoint, NoStateHandler,
         BeforeGuests, BootFunction
<1>2. \A v \in VMS, m \in GuestMode : ctx'[<<v, m>>].psr = USER_PSR
  <2>1. CASE irq_deliver
    <3> SUFFICES ASSUME NEW v \in VMS, NEW m \in GuestMode
                 PROVE  ctx'[<<v, m>>].psr = USER_PSR
      OBVIOUS
    <3>1. ctx[<<v, m>>].psr = USER_PSR /\ <<v, m>> \in Ptr /\ ctx[<<v, m>>] \in context
      BY <1>1, PtrType DEF SavedRegisters, IInv, TypeOK
    <3> QED BY <2>1, <3>1 DEF irq_deliver, IInv, TypeOK, context
  <2>2. CASE ~irq_deliver
    <3>1. ctx' = ctx
      BY <2>2 DEF Handler, cpu_irq_handler, irq_switch, swi_handler, no_state_handler,
                  exception_bottom, restore_context, stack
    <3> QED BY <1>1, <3>1 DEF SavedRegisters
  <2> QED BY <2>1, <2>2
<1>3. at' = "guest" => regs'.psr = USER_PSR /\ ~irq_masked'
  <2> SUFFICES ASSUME at' = "guest"
               PROVE  regs'.psr = USER_PSR /\ ~irq_masked'
    OBVIOUS
  <2>1. exception_bottom
    BY <1>1 DEF Handler, cpu_irq_handler, irq_deliver, irq_switch, tick_handler_stub,
                swi_handler, no_state_handler, call_next
  <2>2. /\ context_stack[context_stack_curr] = <<curr_vm, current_guest_mode[curr_vm]>>
        /\ curr_vm \in VMS
        /\ current_guest_mode[curr_vm] \in GuestMode
    BY <1>1, InHandler DEF IInv, Bookkeeping
  <2>3. regs'.psr = USER_PSR
    BY <1>1, <2>1, <2>2 DEF exception_bottom, restore_context, SavedRegisters
  <2>4. ~IrqMasked(USER_PSR)
    BY DEF IrqMasked, USER_PSR
  <2> QED BY <2>1, <2>3, <2>4 DEF exception_bottom, restore_context, IrqMasked
<1> QED BY <1>1, <1>2, <1>3 DEF SavedRegisters

(* No guest ever runs with interrupts masked, and the message a hypercall  *)
(* sends is the r1 saved with its sender (store_context, swi_handler).     *)
THEOREM SavedRegistersCorrect == Spec => []SavedRegisters
<1>1. Init => SavedRegisters
  BY DEF Init, SavedRegisters, BeforeGuests, BootFunction
<1>2. IInv /\ SavedRegisters /\ [Next]_vars => SavedRegisters'
  <2> SUFFICES ASSUME IInv, SavedRegisters, [Next]_vars
               PROVE  SavedRegisters'
    OBVIOUS
  <2>1. CASE TimerExpires
    BY <2>1 DEF TimerExpires, processor, stack, modes, mailbox, SavedRegisters
  <2>2. CASE UNCHANGED vars
    BY <2>2 DEF vars, processor, stack, modes, mailbox, SavedRegisters
  <2> QED BY <2>1, <2>2, BootSaved, GuestSaved, HandlerSaved DEF Next
<1> QED BY <1>1, <1>2, Invariant, PTL DEF Spec

-----------------------------------------------------------------------------
(* The hypervisor implements IdealGuests: what each guest sees is what it  *)
(* would see on a processor of its own.  A step of the hypervisor maps to  *)
(* the step of one machine, or to none.                                    *)

Reach == IInv /\ SavedRegisters

(* Where the registers a guest sees are, at each stage.                    *)
Seen(v, m) ==
  CASE at \in BeforeGuests -> entry_context(v, m)
    [] at = "guest" /\ v = curr_vm /\ m = current_guest_mode[v] -> regs
    [] OTHER -> ctx[<<v, m>>]

LEMMA ViewIsSeen ==
  ASSUME NEW v \in VMS, NEW m \in GuestMode
  PROVE  view[v][m] = Seen(v, m) /\ view'[v][m] = Seen(v, m)'
BY DEF view, Seen

(* Two views are the same when they agree on every machine and mode.       *)
LEMMA SameView ==
  ASSUME \A v \in VMS, m \in GuestMode : view'[v][m] = view[v][m]
  PROVE  view' = view
<1>1. view = [v \in VMS |-> [m \in GuestMode |-> view[v][m]]]
  BY DEF view
<1>2. view' = [v \in VMS |-> [m \in GuestMode |-> view'[v][m]]]
  BY DEF view
<1> QED BY <1>1, <1>2, Zenon

LEMMA ViewInMemory ==
  /\ at \in HandlerPoint \cup {"start_guest"} =>
       \A v \in VMS, m \in GuestMode : view[v][m] = ctx[<<v, m>>]
  /\ at' \in HandlerPoint \cup {"start_guest"} =>
       \A v \in VMS, m \in GuestMode : view'[v][m] = ctx'[<<v, m>>]
BY ViewIsSeen DEF Seen, HandlerPoint, NoStateHandler, BeforeGuests, BootFunction

LEMMA ViewInGuest ==
  /\ at = "guest" =>
       \A v \in VMS, m \in GuestMode :
         view[v][m] = IF v = curr_vm /\ m = current_guest_mode[v] THEN regs ELSE ctx[<<v, m>>]
  /\ at' = "guest" =>
       \A v \in VMS, m \in GuestMode :
         view'[v][m] = IF v = curr_vm' /\ m = current_guest_mode'[v] THEN regs'
                       ELSE ctx'[<<v, m>>]
BY ViewIsSeen DEF Seen, BeforeGuests, BootFunction

LEMMA ViewBefore ==
  /\ at \in BeforeGuests =>
       \A v \in VMS, m \in GuestMode : view[v][m] = entry_context(v, m)
  /\ at' \in BeforeGuests =>
       \A v \in VMS, m \in GuestMode : view'[v][m] = entry_context(v, m)
BY ViewIsSeen, ZenonT(40) DEF Seen, BeforeGuests, BootFunction

-----------------------------------------------------------------------------
(* Initial states map to the initial state.                                *)

LEMMA InitRefines == Init => Ideal!Init
<1> SUFFICES ASSUME Init PROVE Ideal!Init
  OBVIOUS
<1>1. at \in BeforeGuests
  BY DEF Init, BeforeGuests, BootFunction
<1>2. view = [v \in VMS |-> [m \in GuestMode |-> Ideal!EntryRegs(v, m)]]
  <2>1. ASSUME NEW v \in VMS, NEW m \in GuestMode
        PROVE  entry_context(v, m) = Ideal!EntryRegs(v, m)
    BY DEF entry_context, Ideal!EntryRegs, USER_PSR
  <2>2. view = [v \in VMS |-> [m \in GuestMode |-> entry_context(v, m)]]
    <3>1. view = [v \in VMS |-> [m \in GuestMode |-> view[v][m]]]
      BY DEF view
    <3> QED BY <1>1, <3>1, ViewBefore
  <2> QED BY <2>1, <2>2
<1> QED BY <1>1, <1>2 DEF Init, Ideal!Init

-----------------------------------------------------------------------------
(* Steps of the bootstrap.                                                 *)

LEMMA BootRefines ==
  ASSUME Reach, Boot
  PROVE  [Ideal!Next]_(Ideal!vars)
<1> USE DEF Reach
<1>1. CASE cpu_init \/ soc_init \/ memory_init \/ setup_handlers
  <2>1. at \in BeforeGuests /\ at' \in BeforeGuests /\ UNCHANGED mailbox
    BY <1>1 DEF cpu_init, soc_init, memory_init, setup_handlers, call_next, BeforeGuests,
                BootFunction
  <2>2. view' = view
    BY <2>1, ViewBefore, SameView
  <2> QED BY <2>1, <2>2 DEF Ideal!vars, mailbox
<1>2. CASE guests_init
  <2>1. at \in BeforeGuests /\ at' = "start_guest" /\ at' \notin BeforeGuests
    BY <1>2 DEF guests_init, call_next, BeforeGuests, BootFunction
  <2>2. view' = view
    <3>1. ASSUME NEW v \in VMS, NEW m \in GuestMode
          PROVE  ctx'[<<v, m>>] = entry_context(v, m)
      BY <1>2, PtrType DEF guests_init
    <3> QED BY <2>1, <3>1, ViewBefore, ViewInMemory, SameView
  <2>3. b_new_message' = b_new_message /\ message' = message
    BY <1>2, <2>1 DEF guests_init, SavedRegisters
  <2>4. current_guest_mode' = [v \in VMS |-> HC_GM_TASK]
    BY <1>2 DEF guests_init
  <2> QED BY <2>1, <2>2, <2>3, <2>4 DEF Ideal!vars
<1>3. CASE start_guest
  <2>1. at = "start_guest" /\ at' = "guest" /\ at \notin BeforeGuests /\ at' \notin BeforeGuests
    BY <1>3 DEF start_guest, call_next, BeforeGuests, BootFunction
  <2>2. /\ curr_vm \in VMS /\ curr_vm' = curr_vm
        /\ current_guest_mode[curr_vm] = HC_GM_TASK
        /\ current_guest_mode \in [VMS -> GuestMode]
    BY <1>3, <2>1 DEF IInv, TypeOK, Bookkeeping, start_guest
  <2>3. current_guest_mode' = current_guest_mode
    BY <1>3, <2>2 DEF start_guest, change_guest_mode
  <2>4. ctx' = ctx /\ regs'.psr = USER_PSR /\ UNCHANGED mailbox
    BY <1>3 DEF start_guest
  <2>5. Ideal!Run(curr_vm)
    <3>1. ASSUME NEW w \in VMS, NEW m \in GuestMode, <<w, m>> # <<curr_vm, HC_GM_TASK>>
          PROVE  view'[w][m] = view[w][m]
      <4>1. view[w][m] = ctx[<<w, m>>]
        BY <2>1, ViewInMemory
      <4>2. ~(w = curr_vm' /\ m = current_guest_mode'[w])
        BY <2>2, <2>3, <3>1
      <4>3. view'[w][m] = ctx'[<<w, m>>]
        BY <2>1, <4>2, ViewInGuest
      <4> QED BY <2>4, <4>1, <4>3
    <3>2. view'[curr_vm][HC_GM_TASK].psr = USER_PSR
      BY <2>1, <2>2, <2>3, <2>4, ViewInGuest, ModeType
    <3>3. view[curr_vm][HC_GM_TASK].psr = USER_PSR
      <4>1. view[curr_vm][HC_GM_TASK] = ctx[<<curr_vm, HC_GM_TASK>>]
        BY <2>1, <2>2, ModeType, ViewInMemory
      <4> QED BY <2>1, <2>2, <4>1, ModeType DEF SavedRegisters
    <3> QED
      BY <2>1, <2>2, <2>3, <2>4, <3>1, <3>2, <3>3 DEF Ideal!Run, mailbox
  <2> QED BY <2>2, <2>5 DEF Ideal!Next
<1> QED BY <1>1, <1>2, <1>3 DEF Boot

-----------------------------------------------------------------------------
(* Steps of a guest.                                                       *)

(* A guest is the active machine and mode: what the ideal machine's own    *)
(* step may change is what the processor holds.                            *)
LEMMA GuestActive ==
  ASSUME Reach, at = "guest"
  PROVE  /\ curr_vm \in VMS
         /\ current_guest_mode[curr_vm] \in GuestMode
         /\ current_guest_mode \in [VMS -> GuestMode]
         /\ at \notin BeforeGuests
         /\ context_stack_curr = 0
         /\ context_stack[1] = <<curr_vm, current_guest_mode[curr_vm]>>
         /\ regs \in context
         /\ regs.psr = USER_PSR
BY DEF Reach, SavedRegisters, IInv, TypeOK, Bookkeeping, BeforeGuests, BootFunction,
       HandlerPoint, NoStateHandler

LEMMA TrapView ==
  ASSUME Reach, NEW h \in HandlerPoint, Trap(h), NEW r \in context, store_context(r)
  PROVE  /\ view'[curr_vm][current_guest_mode[curr_vm]] = r
         /\ \A w \in VMS, m \in GuestMode :
              <<w, m>> # <<curr_vm, current_guest_mode[curr_vm]>> => view'[w][m] = view[w][m]
         /\ view[curr_vm][current_guest_mode[curr_vm]] = regs
         /\ at' \notin BeforeGuests
         /\ UNCHANGED <<current_guest_mode, b_new_message, message>>
<1> DEFINE p == <<curr_vm, current_guest_mode[curr_vm]>>
<1>1. at = "guest" /\ at' \in HandlerPoint /\ UNCHANGED <<modes, mailbox, curr_vm>>
  BY DEF Trap
<1>2. p \in Ptr /\ curr_vm \in VMS /\ current_guest_mode[curr_vm] \in GuestMode
  BY <1>1, GuestActive, PtrType
<1>3. ctx' = [ctx EXCEPT ![p] = r]
  <2>1. context_stack[context_stack_curr + 1] = p
    BY <1>1, GuestActive
  <2> QED BY <2>1, Zenon DEF store_context
<1>4. ctx'[p] = r
  BY <1>2, <1>3 DEF Reach, IInv, TypeOK
<1>5. view'[curr_vm][current_guest_mode[curr_vm]] = r
  BY <1>1, <1>2, <1>4, ViewInMemory
<1>6. ASSUME NEW w \in VMS, NEW m \in GuestMode, <<w, m>> # p
      PROVE  view'[w][m] = view[w][m]
  <2>1. <<w, m>> \in Ptr /\ ctx'[<<w, m>>] = ctx[<<w, m>>]
    BY <1>3, <1>6, PtrType DEF Reach, IInv, TypeOK
  <2>2. view'[w][m] = ctx'[<<w, m>>]
    BY <1>1, ViewInMemory
  <2>3. ~(w = curr_vm /\ m = current_guest_mode[w])
    BY <1>6
  <2>4. view[w][m] = ctx[<<w, m>>]
    BY <1>1, <2>3, ViewInGuest
  <2> QED BY <2>1, <2>2, <2>4
<1>7. view[curr_vm][current_guest_mode[curr_vm]] = regs
  BY <1>1, <1>2, ViewInGuest
<1>8. at' \notin BeforeGuests
  BY <1>1 DEF BeforeGuests, BootFunction, HandlerPoint, NoStateHandler
<1> QED BY <1>1, <1>5, <1>6, <1>7, <1>8 DEF modes, mailbox

(* A trap that saves user status is a step of the current machine ...      *)
LEMMA TrapRuns ==
  ASSUME Reach, NEW h \in HandlerPoint, Trap(h), NEW r \in context, store_context(r),
         r.psr = USER_PSR
  PROVE  Ideal!Next
<1>1. at = "guest"
  BY DEF Trap
<1>2. Ideal!Run(curr_vm)
  BY <1>1, TrapView, GuestActive DEF Ideal!Run
<1> QED BY <1>1, <1>2, GuestActive DEF Ideal!Next

(* ... and one that saves the registers as they are is no step at all.     *)
LEMMA TrapStutters ==
  ASSUME Reach, NEW h \in HandlerPoint, Trap(h), store_context(regs)
  PROVE  UNCHANGED Ideal!vars
<1>1. at = "guest"
  BY DEF Trap
<1>2. regs \in context
  BY <1>1, GuestActive
<1>3. view' = view
  <2> SUFFICES ASSUME NEW w \in VMS, NEW m \in GuestMode
               PROVE  view'[w][m] = view[w][m]
    BY SameView
  <2>1. CASE w = curr_vm /\ m = current_guest_mode[curr_vm]
    <3>1. /\ view'[curr_vm][current_guest_mode[curr_vm]] = regs
          /\ view[curr_vm][current_guest_mode[curr_vm]] = regs
      BY <1>2, TrapView
    <3> QED BY <2>1, <3>1
  <2>2. CASE ~(w = curr_vm /\ m = current_guest_mode[curr_vm])
    BY <1>2, <2>2, TrapView
  <2> QED BY <2>1, <2>2
<1> QED BY <1>1, <1>2, <1>3, GuestActive, TrapView DEF Ideal!vars

LEMMA GuestRunRefines ==
  ASSUME Reach, GuestRun
  PROVE  Ideal!Next
<1>1. /\ at = "guest" /\ at' = "guest" /\ ctx' = ctx
      /\ UNCHANGED <<curr_vm, modes, mailbox>>
  BY DEF GuestRun, stack
<1>2. curr_vm \in VMS /\ at \notin BeforeGuests /\ at' \notin BeforeGuests
  BY <1>1, GuestActive
<1>3. regs' \in UserRegs[curr_vm] /\ regs'.psr = USER_PSR
  BY <1>2, HypervisorAssumption DEF GuestRun
<1>4. Ideal!Run(curr_vm)
  <2>1. ASSUME NEW w \in VMS, NEW m \in GuestMode,
               <<w, m>> # <<curr_vm, current_guest_mode[curr_vm]>>
        PROVE  view'[w][m] = view[w][m]
    <3>1. ~(w = curr_vm /\ m = current_guest_mode[w])
      BY <2>1
    <3>2. ~(w = curr_vm' /\ m = current_guest_mode'[w])
      BY <1>1, <3>1 DEF modes
    <3>3. view[w][m] = ctx[<<w, m>>]
      BY <1>1, <3>1, ViewInGuest
    <3>4. view'[w][m] = ctx'[<<w, m>>]
      BY <1>1, <3>2, ViewInGuest
    <3> QED BY <1>1, <3>3, <3>4
  <2>2. /\ view[curr_vm][current_guest_mode[curr_vm]] = regs
        /\ view'[curr_vm][current_guest_mode[curr_vm]] = regs'
    BY <1>1, GuestActive, ViewInGuest DEF modes
  <2>3. regs'.psr = regs.psr
    BY <1>1, <1>3, GuestActive
  <2> QED BY <1>1, <1>2, <2>1, <2>2, <2>3 DEF Ideal!Run, modes, mailbox
<1> QED BY <1>2, <1>4 DEF Ideal!Next

LEMMA GuestRefines ==
  ASSUME Reach, Guest \/ impl_irq
  PROVE  [Ideal!Next]_(Ideal!vars)
<1>1. /\ at = "guest" /\ regs.psr = USER_PSR /\ regs \in context
      /\ IInv /\ SavedRegisters
  BY GuestActive DEF Guest, GuestRun, impl_swi, impl_undef, impl_pabort, impl_dabort,
                     impl_irq, Trap, Reach
<1>2. CASE GuestRun
  BY <1>2, GuestRunRefines
<1>3. ASSUME NEW n \in HypercallNumber, impl_swi(n)
      PROVE  Ideal!Next
  BY <1>1, <1>3, TrapRuns, ReturningType, ReturningStatus DEF impl_swi, HandlerPoint
<1>4. CASE impl_undef
  BY <1>1, <1>4, TrapRuns, ReturningType, ReturningStatus
  DEF impl_undef, HandlerPoint, NoStateHandler
<1>5. CASE impl_pabort
  BY <1>5, TrapStutters DEF impl_pabort, HandlerPoint, NoStateHandler
<1>6. CASE impl_dabort
  BY <1>6, TrapStutters DEF impl_dabort, HandlerPoint, NoStateHandler
<1>7. CASE impl_irq
  BY <1>7, TrapStutters DEF impl_irq, HandlerPoint
<1> QED BY <1>2, <1>3, <1>4, <1>5, <1>6, <1>7 DEF Guest

-----------------------------------------------------------------------------
(* Steps of a handler.                                                     *)

LEMMA HandlerNotBefore ==
  /\ at \in HandlerPoint => at \notin BeforeGuests
  /\ at' \in HandlerPoint => at' \notin BeforeGuests
BY DEF HandlerPoint, NoStateHandler, BeforeGuests, BootFunction

(* As long as no context is written, moving between points of the handlers *)
(* shows the guests nothing.                                               *)
LEMMA HandlerView ==
  ASSUME at \in HandlerPoint, at' \in HandlerPoint, ctx' = ctx
  PROVE  view' = view
BY ViewInMemory, SameView

LEMMA irq_deliverRefines ==
  ASSUME Reach, irq_deliver
  PROVE  other \in VMS /\ Ideal!Deliver(other)
<1> DEFINE mode  == config[other].interrupt_mode
           state == <<other, mode>>
<1>1. at \in HandlerPoint /\ at' \in HandlerPoint
  BY DEF irq_deliver, tick_handler_stub, call_next, HandlerPoint
<1>2. other \in VMS /\ mode \in GuestMode /\ state \in Ptr
  BY <1>1, InHandler, ConfigType, PtrType DEF Reach
<1>3. ctx' = [ctx EXCEPT ![state] = [ctx[state] EXCEPT !.pc = config[other].message_handler,
                                                      !.r0 = message[other]]]
  BY <1>2 DEF irq_deliver, Reach, IInv, TypeOK, context
<1>4. view' = [view EXCEPT ![other][mode].pc = config[other].message_handler,
                           ![other][mode].r0 = message[other]]
  <2> DEFINE new == [ctx[state] EXCEPT !.pc = config[other].message_handler,
                                       !.r0 = message[other]]
  <2>1. view' = [v \in VMS |-> [m \in GuestMode |-> view'[v][m]]]
    BY DEF view
  <2>2. view = [v \in VMS |-> [m \in GuestMode |-> view[v][m]]]
    BY DEF view
  <2>3. view'[other][mode] = new
    BY <1>1, <1>2, <1>3, ViewInMemory DEF Reach, IInv, TypeOK
  <2>4. ASSUME NEW v \in VMS, NEW m \in GuestMode, ~(v = other /\ m = mode)
        PROVE  view'[v][m] = view[v][m]
    <3>1. <<v, m>> \in Ptr /\ <<v, m>> # state
      BY <2>4, PtrType
    <3>2. ctx'[<<v, m>>] = ctx[<<v, m>>]
      BY <1>3, <3>1 DEF Reach, IInv, TypeOK
    <3> QED BY <1>1, <3>2, ViewInMemory
  <2>5. view[other][mode] = ctx[state]
    BY <1>1, <1>2, ViewInMemory
  <2>6. view' = [view EXCEPT ![other] = [view[other] EXCEPT ![mode] = new]]
    <3> HIDE DEF new, mode
    <3> QED BY <1>2, <2>1, <2>2, <2>3, <2>4
  <2>7. new = [view[other][mode] EXCEPT !.pc = config[other].message_handler,
                                        !.r0 = message[other]]
    BY <2>5
  <2> HIDE DEF mode
  <2> QED BY <1>2, <2>2, <2>6, <2>7
<1>5. /\ b_new_message' = [b_new_message EXCEPT ![other] = FALSE]
      /\ current_guest_mode' = [current_guest_mode EXCEPT ![other] = mode]
      /\ message' = message
      /\ b_new_message[other] /\ current_guest_mode[other] = HC_GM_TASK
  BY DEF irq_deliver, tick_handler_stub, change_guest_mode, take_message, Deliverable
<1>6. Ideal!Deliver(other)
  BY <1>1, <1>4, <1>5, HandlerNotBefore DEF Ideal!Deliver
<1> QED BY <1>2, <1>6

LEMMA swi_handlerRefines ==
  ASSUME Reach, swi_handler
  PROVE  SeenByGuests \/ UNCHANGED Ideal!vars
<1>1. /\ at = "swi_handler" /\ at \in HandlerPoint /\ at' \in HandlerPoint /\ ctx' = ctx
  BY DEF swi_handler, call_next, HandlerPoint
<1>2. curr_vm \in VMS /\ current_guest_mode[curr_vm] \in GuestMode
  BY <1>1, InHandler DEF Reach
<1>3. view' = view
  BY <1>1, HandlerView
<1>4. CASE hypercall_message(regs.r1)
  <2>1. view[curr_vm][current_guest_mode[curr_vm]].r1 = regs.r1
    BY <1>1, <1>2, ViewInMemory DEF Reach, SavedRegisters
  <2>2. Ideal!Send(curr_vm)
    BY <1>1, <1>3, <1>4, <2>1, HandlerNotBefore
    DEF Ideal!Send, hypercall_message, modes, other
  <2> QED BY <1>2, <2>2 DEF SeenByGuests
<1>5. CASE hypercall_end_interrupt
  <2>1. Ideal!Release(curr_vm)
    BY <1>1, <1>2, <1>3, <1>5, HandlerNotBefore
    DEF Ideal!Release, hypercall_end_interrupt, change_guest_mode, mailbox, Reach, IInv, TypeOK
  <2> QED BY <1>2, <2>1 DEF SeenByGuests
<1>6. CASE UNCHANGED <<dacr, modes, context_stack, mailbox>>
  BY <1>1, <1>3, <1>6, HandlerNotBefore DEF Ideal!vars, modes, mailbox
<1> QED BY <1>4, <1>5, <1>6 DEF swi_handler

LEMMA exception_bottomRefines ==
  ASSUME Reach, exception_bottom
  PROVE  UNCHANGED Ideal!vars
<1>1. /\ at \in HandlerPoint /\ at' = "guest" /\ ctx' = ctx
      /\ UNCHANGED <<curr_vm, modes, mailbox>>
  BY DEF exception_bottom, call_next, restore_context, HandlerPoint
<1>2. /\ curr_vm \in VMS
      /\ regs' = ctx[<<curr_vm, current_guest_mode[curr_vm]>>]
  <2>1. /\ curr_vm \in VMS
        /\ context_stack[context_stack_curr] = <<curr_vm, current_guest_mode[curr_vm]>>
    BY <1>1, InHandler, HandlerNotBefore DEF Reach, IInv, Bookkeeping
  <2> QED BY <2>1 DEF exception_bottom, restore_context
<1>3. ASSUME NEW v \in VMS, NEW m \in GuestMode
      PROVE  view'[v][m] = view[v][m]
  <2>1. view[v][m] = ctx[<<v, m>>]
    BY <1>1, ViewInMemory
  <2>2. view'[v][m] = IF v = curr_vm /\ m = current_guest_mode[v] THEN regs' ELSE ctx[<<v, m>>]
    BY <1>1, ViewInGuest DEF modes
  <2> QED BY <1>2, <2>1, <2>2
<1>4. view' = view
  BY <1>3, SameView
<1>5. at' \notin BeforeGuests
  BY <1>1 DEF BeforeGuests, BootFunction
<1> QED BY <1>1, <1>4, <1>5, HandlerNotBefore DEF Ideal!vars, modes, mailbox

LEMMA HandlerRefines ==
  ASSUME Reach, Handler
  PROVE  SeenByGuests \/ UNCHANGED Ideal!vars
<1>1. CASE cpu_irq_handler \/ irq_switch \/ no_state_handler
  <2>1. /\ at \in HandlerPoint /\ at' \in HandlerPoint /\ ctx' = ctx
        /\ UNCHANGED <<current_guest_mode, b_new_message, message>>
    BY <1>1 DEF cpu_irq_handler, irq_switch, no_state_handler, tick_handler_stub, call_next,
                HandlerPoint, modes, mailbox
  <2> QED BY <2>1, HandlerView, HandlerNotBefore DEF Ideal!vars
<1>2. CASE irq_deliver
  BY <1>2, irq_deliverRefines DEF SeenByGuests
<1> QED
  BY <1>1, <1>2, swi_handlerRefines, exception_bottomRefines DEF Handler

-----------------------------------------------------------------------------
(* The refinement.                                                         *)

LEMMA TimerStutters ==
  ASSUME TimerExpires
  PROVE  UNCHANGED Ideal!vars
<1>1. UNCHANGED <<at, regs, ctx, curr_vm, current_guest_mode, b_new_message, message>>
  BY DEF TimerExpires, processor, modes, mailbox
<1> QED BY <1>1 DEF Ideal!vars, view, entry_context

LEMMA StutterStutters ==
  ASSUME UNCHANGED vars
  PROVE  UNCHANGED Ideal!vars
<1>1. UNCHANGED <<at, regs, ctx, curr_vm, current_guest_mode, b_new_message, message>>
  BY DEF vars, processor, modes, mailbox
<1> QED BY <1>1 DEF Ideal!vars, view, entry_context

LEMMA NextRefines ==
  ASSUME Reach, [Next]_vars
  PROVE  [Ideal!Next]_(Ideal!vars)
<1>1. SeenByGuests => Ideal!Next
  BY DEF SeenByGuests, Ideal!Next
<1> QED
  BY <1>1, BootRefines, GuestRefines, HandlerRefines, TimerStutters, StutterStutters DEF Next

(* The hypervisor implements a machine of its own for each guest: no trap, *)
(* tick or switch moves a register from one machine or mode to another,    *)
(* and messages are the only channel between guests.                       *)
THEOREM Refinement == Spec => IdealSpec
<1>1. Init => Ideal!Init
  BY InitRefines
<1>2. Reach /\ [Next]_vars => [Ideal!Next]_(Ideal!vars)
  BY NextRefines
<1>3. Spec => []Reach
  BY Invariant, SavedRegistersCorrect, PTL DEF Reach
<1> QED BY <1>1, <1>2, <1>3, PTL DEF Spec, Ideal!Spec, IdealSpec

(* Handling an exception computes nothing: a step of the hypervisor is     *)
(* seen by guests only as a message sent or delivered or a change of mode, *)
(* and taking an interrupt or an abort is not seen at all                  *)
(* (store_context, restore_context, the handlers).                         *)
THEOREM Transparency == Spec => HypervisorTransparent
<1>1. Reach /\ [Next]_vars =>
        [(at \in HandlerPoint \/ at' \in AsyncPoint)
           => (SeenByGuests \/ UNCHANGED Ideal!vars)]_vars
  <2> SUFFICES ASSUME Reach, [Next]_vars, at \in HandlerPoint \/ at' \in AsyncPoint
               PROVE  SeenByGuests \/ UNCHANGED Ideal!vars
    OBVIOUS
  <2>1. CASE Handler
    BY <2>1, HandlerRefines
  <2>2. CASE TimerExpires \/ UNCHANGED vars
    BY <2>2, TimerStutters, StutterStutters
  <2>3. CASE impl_irq \/ impl_pabort \/ impl_dabort
    BY <2>3, TrapStutters
    DEF impl_irq, impl_pabort, impl_dabort, HandlerPoint, NoStateHandler
  <2>4. CASE Boot
    <3>1. at \in BootFunction /\ at' \in BootFunction \cup {"guest"}
      BY <2>4 DEF Boot, cpu_init, soc_init, memory_init, setup_handlers, guests_init,
                  start_guest, call_next, BootFunction
    <3> QED BY <3>1 DEF BootFunction, HandlerPoint, NoStateHandler, AsyncPoint
  <2>5. CASE GuestRun \/ impl_undef \/ \E n \in HypercallNumber : impl_swi(n)
    <3>1. at = "guest" /\ at' \in {"guest", "undef_handler", "swi_handler"}
      BY <2>5 DEF GuestRun, impl_undef, impl_swi, Trap
    <3> QED BY <3>1 DEF HandlerPoint, NoStateHandler, AsyncPoint
  <2> QED BY <2>1, <2>2, <2>3, <2>4, <2>5 DEF Next, Guest
<1>2. Spec => []Reach
  BY Invariant, SavedRegistersCorrect, PTL DEF Reach
<1> QED BY <1>1, <1>2, PTL DEF Spec, HypervisorTransparent

-----------------------------------------------------------------------------
(* The interrupt line.                                                     *)

\* The timer does not run before soc_init has stopped it, and when it does
\* there is a handler.
TimerInv ==
  /\ timer_on \in BOOLEAN /\ handlers_set \in BOOLEAN /\ tick \in BOOLEAN
  /\ at \in {"cpu_init", "soc_init"} => timer_on = FALSE
  /\ timer_on => handlers_set

\* Where the processor stands for the line: only the interrupt and its handler
\* move it.
LEMMA BootLine ==
  ASSUME TimerInv, Boot
  PROVE  TimerInv' /\ [Line!Next]_(Line!vars)
<1>1. CASE setup_handlers
  <2>1. /\ at = "setup_handlers" /\ at' = "guests_init"
        /\ timer_on' = TRUE /\ handlers_set' = TRUE /\ tick' = tick
    BY <1>1 DEF setup_handlers, call_next
  <2> QED BY <2>1 DEF TimerInv, Line!Next, Line!Start
<1>2. CASE soc_init
  <2>1. /\ at = "soc_init" /\ at' = "memory_init"
        /\ timer_on' = FALSE /\ handlers_set' = handlers_set /\ tick' = tick
    BY <1>2 DEF soc_init, call_next
  <2> QED BY <2>1 DEF TimerInv, Line!vars
<1>3. CASE cpu_init \/ memory_init \/ guests_init \/ start_guest
  <2>1. /\ at \in {"cpu_init", "memory_init", "guests_init", "start_guest"}
        /\ at' \in {"soc_init", "setup_handlers", "start_guest", "guest"}
        /\ at' = "soc_init" => at = "cpu_init"
        /\ UNCHANGED <<timer_on, handlers_set, tick>>
    BY <1>3 DEF cpu_init, memory_init, guests_init, start_guest, call_next, devices
  <2> QED BY <2>1 DEF TimerInv, Line!vars
<1> QED BY <1>1, <1>2, <1>3 DEF Boot

LEMMA HandlerLine ==
  ASSUME TimerInv, Handler
  PROVE  TimerInv' /\ [Line!Next]_(Line!vars)
<1>1. CASE cpu_irq_handler
  <2>1. /\ at = "cpu_irq_handler"
        /\ at' = IF tick THEN "tick_handler" ELSE "exception_bottom"
        /\ UNCHANGED <<timer_on, handlers_set, tick>>
    BY <1>1 DEF cpu_irq_handler, devices
  <2>2. CASE tick
    BY <2>1, <2>2 DEF TimerInv, Line!Next, Line!Commit
  <2>3. CASE ~tick
    BY <2>1, <2>3 DEF TimerInv, Line!Next, Line!Leave
  <2> QED BY <2>2, <2>3
<1>2. CASE irq_deliver \/ irq_switch
  <2>1. /\ at = "tick_handler" /\ at' = "cpu_irq_handler" /\ tick' = FALSE
        /\ UNCHANGED <<timer_on, handlers_set>>
    BY <1>2 DEF irq_deliver, irq_switch, tick_handler_stub, call_next, devices
  <2> QED BY <2>1 DEF TimerInv, Line!Next, Line!Serve
<1>3. CASE swi_handler \/ no_state_handler \/ exception_bottom
  <2>1. /\ at \in NoStateHandler \cup {"swi_handler", "exception_bottom"}
        /\ at' \in {"exception_bottom", "guest"}
        /\ UNCHANGED <<timer_on, handlers_set, tick>>
    BY <1>3 DEF swi_handler, no_state_handler, exception_bottom, call_next, devices
  <2> QED BY <2>1 DEF TimerInv, NoStateHandler, Line!vars
<1> QED BY <1>1, <1>2, <1>3 DEF Handler

LEMMA GuestLine ==
  ASSUME TimerInv, Guest \/ impl_irq
  PROVE  TimerInv' /\ [Line!Next]_(Line!vars)
<1>1. at = "guest" /\ UNCHANGED <<timer_on, handlers_set, tick>>
  BY DEF Guest, GuestRun, impl_swi, impl_undef, impl_pabort, impl_dabort, impl_irq, Trap, devices
<1>2. CASE impl_irq
  BY <1>1, <1>2 DEF impl_irq, Trap, TimerInv, Line!Next, Line!Enter
<1>3. CASE Guest
  <2>1. at' \in NoStateHandler \cup {"guest", "swi_handler"}
    BY <1>3 DEF Guest, GuestRun, impl_swi, impl_undef, impl_pabort, impl_dabort, Trap,
                NoStateHandler
  <2> QED BY <1>1, <2>1 DEF TimerInv, NoStateHandler, Line!vars
<1> QED BY <1>2, <1>3

LEMMA NextLine ==
  ASSUME TimerInv, [Next]_vars
  PROVE  TimerInv' /\ [Line!Next]_(Line!vars)
<1>1. CASE TimerExpires
  <2>1. /\ timer_on /\ tick' = TRUE
        /\ UNCHANGED <<at, timer_on, handlers_set>>
    BY <1>1 DEF TimerExpires, processor, devices
  <2> QED BY <2>1 DEF TimerInv, Line!Next, Line!Expire
<1>2. CASE UNCHANGED vars
  <2>1. UNCHANGED <<at, timer_on, handlers_set, tick>>
    BY <1>2 DEF vars, processor, devices
  <2> QED BY <2>1 DEF TimerInv, Line!vars
<1> QED BY <1>1, <1>2, BootLine, HandlerLine, GuestLine DEF Next

(* The hypervisor uses the timer interrupt as a line that rises when there *)
(* is a handler for it, drops when the handler has run and is low when the *)
(* interrupt code ends (setup_handlers, cpu_irq_handler,                   *)
(* tick_handler_stub).                                                     *)
THEOREM TickImplemented == Spec => TickSpec
<1>1. Init => TimerInv /\ Line!Init
  BY DEF Init, TimerInv, Line!Init
<1>2. TimerInv /\ [Next]_vars => TimerInv' /\ [Line!Next]_(Line!vars)
  BY NextLine
<1> QED BY <1>1, <1>2, PTL DEF Spec, Line!Spec, TickSpec
=============================================================================
