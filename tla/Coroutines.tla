----------------------------- MODULE Coroutines -----------------------------
(***************************************************************************)
(* libmill/test.c with constants and variables of its own, so that it can  *)
(* run beside the other programs.                                          *)
(***************************************************************************)
EXTENDS FiniteSets

CONSTANT Connections

VARIABLES mill_pc, errno, ch, connections, active, failed, listening, spins, lost

Mill == INSTANCE MillServer WITH pc <- mill_pc

ASSUME CoroutinesAssumption == IsFiniteSet(Connections)

\* The numbers that statistics prints agree with what the dialogues have been
\* through, whatever order they report in, though all coroutines share errno.
StatisticsAddUp == Mill!StatisticsAddUp
=============================================================================
