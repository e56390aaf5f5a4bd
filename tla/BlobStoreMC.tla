----------------------------- MODULE BlobStoreMC -----------------------------
(***************************************************************************)
(* Model checking BlobStore: two processes, one without a ledger, that     *)
(* store a payload of two chunks and a small one and retrieve them.        *)
(***************************************************************************)
EXTENDS BlobStore

CONSTANTS p1, p2, large, small

MCParts == [j \in Jobs |-> IF j = large THEN 2 ELSE 1]
=============================================================================
