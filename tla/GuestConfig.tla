----------------------------- MODULE GuestConfig -----------------------------
(***************************************************************************)
(* The guest configuration compiled into the hypervisor: the access a      *)
(* guest's modes have to the memory domains, and where each mode starts.   *)
(***************************************************************************)
EXTENDS Integers

HC_GM_INTERRUPT == 0
HC_GM_TASK      == 1
HC_NGUESTMODES  == 2
GuestMode       == 0..(HC_NGUESTMODES - 1)

HC_DOM_HYPER   == 0
HC_DOM_GUEST_1 == 1
HC_DOM_GUEST_2 == 2

\* 1 << (2 * domain): the guest is a client of the domain.
client_of(domain) == 4^domain

HC_DOMAC_GUEST_1 == client_of(HC_DOM_GUEST_1) + client_of(HC_DOM_HYPER)
HC_DOMAC_GUEST_2 == client_of(HC_DOM_GUEST_2) + client_of(HC_DOM_HYPER)

hc_config ==
  [guest_entry_point : Nat, guest_entry_sp : Nat,
   guest_modes : [GuestMode -> Nat],
   message_handler : Nat, interrupt_mode : GuestMode, interrupt_sp : Nat]

MB == 1048576

\* guest_modes holds the one field of a guest mode the hypervisor reads, its
\* domain_ac.
minimal_config ==
  [id \in 0..1 |->
     IF id = 0
     THEN [guest_entry_point |-> 1 * MB,
           guest_entry_sp    |-> 3 * MB - 4,
           guest_modes       |-> [m \in GuestMode |-> HC_DOMAC_GUEST_1],
           message_handler   |-> 2 * MB,
           interrupt_mode    |-> HC_GM_INTERRUPT,
           interrupt_sp      |-> 4 * MB - 4]
     ELSE [guest_entry_point |-> 4 * MB,
           guest_entry_sp    |-> 6 * MB - 4,
           guest_modes       |-> [m \in GuestMode |-> HC_DOMAC_GUEST_2],
           message_handler   |-> 5 * MB,
           interrupt_mode    |-> HC_GM_INTERRUPT,
           interrupt_sp      |-> 7 * MB - 4]]
=============================================================================
