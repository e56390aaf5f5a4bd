----------------------------- MODULE RecoveryMC -----------------------------
(***************************************************************************)
(* Model checking Recovery: calls of append that store memories and status *)
(* changes of one workspace, a loss of the database, and two runs of       *)
(* recover().                                                              *)
(***************************************************************************)
EXTENDS Recovery, FiniteSets, TLC

CONSTANTS c1, c2, c3, p1, w1, remember, paused, s1

MCProcessOf == [c \in Calls |-> p1]
MCStreamOf == [m \in MemoryPayloads |-> s1]

\* Bound: of the three calls two append the status change, so that their event
\* ids can collide, and one the memory.
TwoStatusChanges == Cardinality({c \in Calls : args[c].payload = paused}) = 2

Symmetry == Permutations(Calls)
=============================================================================
