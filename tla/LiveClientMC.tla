----------------------------- MODULE LiveClientMC -----------------------------
(***************************************************************************)
(* Model checking the chain and its users: two processes of the live SDK   *)
(* on one file, two clients of the Sui ledger adapter on another, one      *)
(* wallet for all of them, and a wallet of someone else.                   *)
(***************************************************************************)
EXTENDS LiveClient, TLC

CONSTANTS p1, p2, k1, k2, w1, w2

\* What may be granted: reading, or reading and appending.
MCGrants == {{1}, {1, 2}}
MCHashes == {-1}
MCWalletAddress == -1

\* Many calls of the SDK, many transactions, or some of both.
MCShares == {[calls |-> 4, work |-> 0], [calls |-> 0, work |-> 3], [calls |-> 3, work |-> 1]}

\* The processes differ in nothing, nor do the clients.
Symmetry == Permutations({p1, p2}) \cup Permutations({k1, k2})
==============================================================================
