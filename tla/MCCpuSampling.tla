--------------------------- MODULE MCCpuSampling ---------------------------
(* Small instances of CpuSampling: one address, listed twice, that a second   *)
(* machine can take over; and the plain case of one machine listed once.      *)
EXTENDS CpuSampling, TLC

CONSTANTS vip, m1, m2

OneAddress == {vip}
OneMachine == {m1}
TwoMachines == {m1, m2}
OneSlot == {1}
TwoSlots == {1, 2}
Machines == Permutations(TwoMachines)
=============================================================================
