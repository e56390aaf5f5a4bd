-------------------------- MODULE AgentLifecycleMC --------------------------
(***************************************************************************)
(* Model checking AgentLifecycle: three operations on two clients of one   *)
(* agent, in two processes.                                                *)
(***************************************************************************)
EXTENDS AgentLifecycle

CONSTANTS o1, o2, o3, c1, c2, p1, p2

\* One operation is called on the second client.
MCClientOf == [o \in Ops |-> IF o = o2 THEN c2 ELSE c1]

MCProcessOf == [c \in Clients |-> IF c = c2 THEN p2 ELSE p1]

\* All may write; the first client may resume the agent and the second pause it.
MCKinds == [o \in Ops |-> CASE o = o1 -> {"write"}
                            [] o = o2 -> {"write", "paused"}
                            [] OTHER -> {"write", "active"}]
============================================================================
