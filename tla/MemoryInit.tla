----------------------------- MODULE MemoryInit -----------------------------
(***************************************************************************)
(* memory_init of init.c, one step for each turn of its loop over the      *)
(* sections.  domain, ap and pt live outside the loop in the code, and pt  *)
(* is only computed on an ARMv7-A: a turn that fails to assign one of them *)
(* would write the value an earlier section left behind.                   *)
(***************************************************************************)
EXTENDS MemoryMap, GuestConfig

CONSTANTS
  model,     \* what cpu_get_type reports: CM_ARMv5 or CM_ARMv7a
  Sections   \* how many sections the loop covers: 4096 in the code, a bound here

CM_ARMv5  == "ARMv5"
CM_ARMv7a == "ARMv7a"

ASSUME MemoryInitAssumption ==
  /\ model \in {CM_ARMv5, CM_ARMv7a}
  /\ Sections \in 1..4096
  /\ Page = 0..(Sections - 1)

VARIABLES
  i,          \* the loop counter
  domain, ap, \* the attributes of the section last looked at
  pt,         \* the descriptor last computed
  flpt,       \* the first-level page table
  dacr,       \* the domain access control register
  mmu_on      \* the MMU enable bit

vars == <<i, domain, ap, pt, flpt, dacr, mmu_on>>

zero_word  == [base |-> 0, bits |-> 0]
ALL_CLIENT == 1431655765   \* 0x55555555

TypeOK ==
  /\ i \in 0..Sections
  /\ domain \in 0..2
  /\ ap \in 0..3
  /\ pt \in descriptor
  /\ flpt \in [Page -> descriptor]
  /\ dacr \in {0, ALL_CLIENT}
  /\ mmu_on \in BOOLEAN

Init ==
  /\ i = 0
  /\ domain = 0
  /\ ap = 0
  /\ pt = zero_word
  /\ flpt = [page \in Page |-> zero_word]
  /\ dacr = 0
  /\ mmu_on = FALSE

\* The descriptor word of section `page`: the fields side by side.
word(page, dom, perm, kind) ==
  [base |-> page, bits |-> dom * 32 + perm * 1024 + kind]

\* Mutant: the switch has no default, so a hole keeps the last descriptor.
MapSection_no_default ==
  /\ i < Sections
  /\ LET mem_type == mem_padr_lookup(i)
     IN  /\ domain' = IF mem_type = MLT_NONE THEN domain ELSE section_domain(mem_type)
         /\ ap' = IF mem_type = MLT_NONE THEN ap ELSE section_ap(mem_type)
         /\ pt' = IF model = CM_ARMv7a
                  THEN word(i, domain', ap', section_kind(mem_type))
                  ELSE pt
  /\ flpt' = [flpt EXCEPT ![i] = pt']
  /\ i' = i + 1
  /\ UNCHANGED <<dacr, mmu_on>>

\* Mutant: the loop runs one section too far.
MapSection_too_far ==
  /\ i <= Sections
  /\ LET mem_type == mem_padr_lookup(i)
     IN  /\ domain' = section_domain(mem_type)
         /\ ap' = section_ap(mem_type)
         /\ pt' = word(i, domain', ap', section_kind(mem_type))
  /\ flpt' = [page \in DOMAIN flpt \cup {i} |-> IF page = i THEN pt' ELSE flpt[page]]
  /\ i' = i + 1
  /\ UNCHANGED <<dacr, mmu_on>>

MapSection ==
  /\ i < Sections
  /\ LET mem_type == mem_padr_lookup(i)
     IN  /\ domain' = section_domain(mem_type)
         /\ ap' = section_ap(mem_type)
         /\ pt' = IF model = CM_ARMv7a
                  THEN word(i, domain', ap', section_kind(mem_type))
                  ELSE pt
  /\ flpt' = [flpt EXCEPT ![i] = pt']
  /\ i' = i + 1
  /\ UNCHANGED <<dacr, mmu_on>>

\* The MMU is only told of the table once it is complete.
EnableMMU ==
  /\ i = Sections
  /\ ~mmu_on
  /\ dacr' = ALL_CLIENT
  /\ mmu_on' = TRUE
  /\ UNCHANGED <<i, domain, ap, pt, flpt>>

Next == MapSection \/ EnableMMU

Spec == Init /\ [][Next]_vars

-----------------------------------------------------------------------------
(* The loop writes each section's own descriptor and leaves no trace of    *)
(* the section before: what has been written is the closed form            *)
(* first_level_table, checked where the last turn wrote and in full once   *)
(* the MMU is on (init.c, memory_init).                                    *)
TableIsClosedForm ==
  model = CM_ARMv7a =>
    /\ i > 0 => flpt[i - 1] = section(i - 1)
    /\ mmu_on => flpt = first_level_table

OpenTo(dac, page) == UserMay(flpt, dac, page)

(* With the configuration's domain access words, the RAM open to a guest   *)
(* is its own and all of it; IO registers are open to both guests; the     *)
(* hypervisor's RAM and whatever the board leaves out is open to none;     *)
(* and the hypervisor reaches its own RAM under every access word it       *)
(* loads (the AP and domain choices of memory_init against minimal_config).*)
GuestsSeparated ==
  mmu_on /\ model = CM_ARMv7a =>
    \A page \in Page :
      LET mlt == mem_padr_lookup(page)
      IN  /\ OpenTo(HC_DOMAC_GUEST_1, page) <=> mlt \in {MLT_USER1_RAM, MLT_IO_REG}
          /\ OpenTo(HC_DOMAC_GUEST_2, page) <=> mlt \in {MLT_USER2_RAM, MLT_IO_REG}
          /\ mlt = MLT_HYPER_RAM =>
               \A dac \in {HC_DOMAC_GUEST_1, HC_DOMAC_GUEST_2, ALL_CLIENT} :
                 PrivilegedMay(flpt, dac, page)

(* The board's layout describes RAM for both guests                        *)
(* (presentation.org:2-3).                                                 *)
BothGuestsHaveRam ==
  mmu_on =>
    \A mlt \in {MLT_USER1_RAM, MLT_USER2_RAM} :
      \E page \in Page : mem_padr_lookup(page) = mlt
=============================================================================
