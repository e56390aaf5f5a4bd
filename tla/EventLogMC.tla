----------------------------- MODULE EventLogMC -----------------------------
(***************************************************************************)
(* Model checking EventLog and Replay: calls of append in two processes    *)
(* over two workspaces, with a memory, a grant and a revocation, so that   *)
(* two calls can compute the same event id.                                *)
(***************************************************************************)
EXTENDS Replay, TLC

CONSTANTS c1, c2, c3, p1, p2, w1, w2, remember, paused, readonly, lifted, s1

MCProcessOf == [c \in Calls |-> IF c = c3 THEN p2 ELSE p1]
MCStreamOf == [m \in MemoryPayloads |-> s1]

MCChange == [p \in Payloads \cap {readonly, lifted} |->
               [op |-> IF p = readonly THEN "grant" ELSE "revoke", perm |-> "read"]]

\* The two calls of p1 are interchangeable, and so are the workspaces.
Symmetry == Permutations({c1, c2}) \cup Permutations({w1, w2})
============================================================================
