----------------------------- MODULE MemoryMap -----------------------------
(***************************************************************************)
(* The physical memory map of a board and the first-level page table the   *)
(* hypervisor derives from it: one descriptor for each 1 MB section.       *)
(*                                                                         *)
(* A section descriptor is split into the index of its section (the base   *)
(* address, bits 31..20 of the word) and its low twenty bits, so that no   *)
(* value needs more than TLC's 31 bits.  The second half of the module is  *)
(* the ARMv7-A side: which accesses a table and a domain access control    *)
(* register (DACR) let through.                                            *)
(***************************************************************************)
EXTENDS Integers, Sequences

CONSTANTS
  memory_padr_layout,  \* the board's table: a sequence of layout entries
  Page                 \* the 1 MB sections under consideration

MLT_NONE      == "none"
MLT_HYPER_RAM == "hyper_ram"
MLT_USER1_RAM == "user1_ram"
MLT_USER2_RAM == "user2_ram"
MLT_IO_REG    == "io_reg"

LayoutType == {MLT_NONE, MLT_HYPER_RAM, MLT_USER1_RAM, MLT_USER2_RAM, MLT_IO_REG}
RamType    == {MLT_HYPER_RAM, MLT_USER1_RAM, MLT_USER2_RAM}

memory_layout_entry == [page_start : Nat, page_end : Nat,
                        type : LayoutType, last : BOOLEAN]

\* The table a board declares is a non-empty array of entries.
ASSUME LayoutAssumption ==
  /\ memory_padr_layout \in Seq(memory_layout_entry)
  /\ memory_padr_layout # << >>
  /\ Page \subseteq 0..4095

PAGE_SIZE == 1048576
ADR_TO_PAGE(adr) == adr \div PAGE_SIZE

-----------------------------------------------------------------------------
(* The tables of two boards.                                               *)

entry(first, end, mlt, end_of_table) ==
  [page_start |-> first, page_end |-> end, type |-> mlt, last |-> end_of_table]

realview_layout ==
  << entry(0,   0,   MLT_HYPER_RAM, FALSE),
     entry(1,   2,   MLT_USER1_RAM, FALSE),
     entry(4,   6,   MLT_USER2_RAM, FALSE),
     entry(256, 511, MLT_IO_REG,    TRUE) >>

ovp_arm9_layout ==
  << entry(0,    0,    MLT_HYPER_RAM, FALSE),
     entry(1,    2,    MLT_USER1_RAM, FALSE),
     entry(4,    2,    MLT_USER2_RAM, FALSE),
     entry(4095, 4095, MLT_HYPER_RAM, FALSE),
     entry(4095, 4095, MLT_HYPER_RAM, FALSE),
     entry(4095, 4095, MLT_HYPER_RAM, TRUE) >>

-----------------------------------------------------------------------------
(* mem.c                                                                   *)

\* The entries the search looks at: those up to the first one marked last.
Searched ==
  {k \in DOMAIN memory_padr_layout :
     \A j \in 1..(k - 1) : ~memory_padr_layout[j].last}

Holds(k, page) == page \in memory_padr_layout[k].page_start..memory_padr_layout[k].page_end

\* The type of the first searched entry that holds the page; no entry is a
\* null pointer, which memory_init reads as MLT_NONE.
mem_padr_lookup(page) ==
  LET hit == {k \in Searched : Holds(k, page)}
  IN  IF hit = {} THEN MLT_NONE
      ELSE memory_padr_layout[CHOOSE k \in hit : \A j \in hit : k <= j].type

-----------------------------------------------------------------------------
(* The attributes memory_init gives a section, from the type of its page.  *)

\* Mutant: both guests' RAM in one domain.
section_domain_shared(mlt) ==
  CASE mlt \in {MLT_HYPER_RAM, MLT_IO_REG}   -> 0
    [] mlt \in {MLT_USER1_RAM, MLT_USER2_RAM} -> 1
    [] OTHER                                  -> 2

section_domain(mlt) ==
  CASE mlt \in {MLT_HYPER_RAM, MLT_IO_REG} -> 0
    [] mlt = MLT_USER1_RAM                 -> 1
    [] OTHER                               -> 2

section_ap(mlt) ==
  CASE mlt = MLT_HYPER_RAM                                -> 1
    [] mlt \in {MLT_IO_REG, MLT_USER1_RAM, MLT_USER2_RAM} -> 3
    [] OTHER                                              -> 0

\* 0x12 is a section that cannot be executed (XN, 0x10); RAM loses XN and is
\* cached and buffered (0xC).
section_kind(mlt) == IF mlt \in RamType THEN 18 - 16 + 12 ELSE 18

section_bits(mlt) ==
  section_domain(mlt) * 32 + section_ap(mlt) * 1024 + section_kind(mlt)

descriptor == [base : Nat, bits : Nat]

section(page) == [base |-> page, bits |-> section_bits(mem_padr_lookup(page))]

\* The table memory_init leaves behind (MemoryInit runs its loop and shows it).
first_level_table == [page \in Page |-> section(page)]

-----------------------------------------------------------------------------
(* The MMU: what a table and the DACR let the processor do.                *)

DomainOf(desc)    == (desc.bits \div 32) % 16
ApOf(desc)        == (desc.bits \div 1024) % 4
ExecuteNever(desc) == (desc.bits \div 16) % 2 = 1

\* Two bits for each domain; 1 is "client": the AP bits of the section count.
\* (0 is no access; 2 and 3 are never written.)
DomainWeight == <<1, 4, 16>>
Client(dacr, domain) == (dacr \div DomainWeight[domain + 1]) % 4 = 1

UserMay(flpt, dacr, page) ==
  Client(dacr, DomainOf(flpt[page])) /\ ApOf(flpt[page]) = 3

UserMayExecute(flpt, dacr, page) ==
  UserMay(flpt, dacr, page) /\ ~ExecuteNever(flpt[page])

PrivilegedMay(flpt, dacr, page) ==
  Client(dacr, DomainOf(flpt[page])) /\ ApOf(flpt[page]) \in {1, 3}
=============================================================================
