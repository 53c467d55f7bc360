---------------------------- MODULE MCHypervisor ----------------------------
(***************************************************************************)
(* The hypervisor with the two machines and the configuration of           *)
(* minimal_config.c on the RealView board.                                 *)
(***************************************************************************)
EXTENDS Hypervisor

CONSTANT vm_1

TwoVMs == {vm_0, vm_1}

Ring == [v \in TwoVMs |-> IF v = vm_0 THEN vm_1 ELSE vm_0]

Config == [v \in TwoVMs |-> minimal_config[IF v = vm_0 THEN 0 ELSE 1]]

OwnRam == [v \in TwoVMs |-> IF v = vm_0 THEN MLT_USER1_RAM ELSE MLT_USER2_RAM]

\* A section of each kind: the hypervisor's, both guests' first and last, the
\* hole between them, one past them, and the ends of the IO region.
Pages == 0..7 \cup {255, 256, 511, 512}

Text == 4096

user(msg, top, point) ==
  [r0 |-> 0, r1 |-> msg, sp |-> top, pc |-> point, psr |-> USER_PSR]

\* Both programs loop through their entry point, with a word of their own in r1
\* (and 0 when they start).  A program counter outside the guest's RAM comes
\* from start_guest, with HyperText.
loop(v, msg) == {user(msg, Config[v].guest_entry_sp, Config[v].guest_entry_point)}

Programs == [v \in TwoVMs |-> loop(v, IF v = vm_0 THEN 1 ELSE 3)]

\* Where it does not matter what the messages are, they are all 0.
SamePrograms == [v \in TwoVMs |-> loop(v, 0)]
=============================================================================
