---------------------------- MODULE CoordinatorMC ----------------------------
(***************************************************************************)
(* Model checking Coordinator: every plan of one or two tasks and the      *)
(* shapes that matter of three, on two agents, one of which advertises a   *)
(* capability, as does a third that takes no part in the call.             *)
(***************************************************************************)
EXTENDS Coordinator

CONSTANTS a1, a2, a3, build, general

MCChosen == <<a2, a1>>
MCPersisted == <<a1, a2, a3>>
MCRegistry == <<a3, a1>>
MCAdvertises == [a \in Agents |-> IF a # a2 THEN {build} ELSE {}]

Deps(one, two, three) ==
  [t \in Tasks |-> CASE t = 1 -> one [] t = 2 -> two [] OTHER -> three]

SmallPlans == {p \in Plan : p.size <= 2 /\ \A t \in Tasks : t > p.size => p.deps[t] = {}}

\* Independent, a chain, a fork, a join, a triangle, a chain written backwards,
\* a cycle with a task behind it, and one beside it.
ThreeTasks == {Deps({}, {}, {}), Deps({}, {1}, {2}), Deps({}, {1}, {1}),
               Deps({}, {}, {1, 2}), Deps({}, {1}, {1, 2}), Deps({2}, {3}, {}),
               Deps({2}, {1}, {1}), Deps({2}, {1}, {})}

MCPlans == SmallPlans \cup {[size |-> 3, deps |-> d] : d \in ThreeTasks}
==============================================================================
