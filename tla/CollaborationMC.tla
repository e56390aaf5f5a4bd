--------------------------- MODULE CollaborationMC ---------------------------
(***************************************************************************)
(* Model checking the event mesh under a vote, a pipeline and a broadcast  *)
(* of two agents that also poll, watch and write.                          *)
(***************************************************************************)
EXTENDS Collaboration

CONSTANTS a, b, vote, pipe, cast

MCKind == (vote :> "vote") @@ (pipe :> "pipeline") @@ (cast :> "broadcast")
MCMembers == (vote :> <<a, b>>) @@ (pipe :> <<a, b>>) @@ (cast :> <<b, a>>)
==============================================================================
