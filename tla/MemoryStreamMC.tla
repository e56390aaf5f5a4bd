--------------------------- MODULE MemoryStreamMC ---------------------------
(***************************************************************************)
(* Model checking MemoryStream and Recall: a few jobs of one engine and    *)
(* one of another on a stream that exists and one that may be created; and *)
(* an autonomous run among other writers to one stream.                    *)
(***************************************************************************)
EXTENDS Recall, TLC

CONSTANTS j1, j2, j3, j4, e1, e2, s1, s2

\* One job in the second engine, where there is one.
MCEngineOf == [j \in Jobs |-> IF j = j3 /\ e2 \in Engines THEN e2 ELSE e1]

\* Four jobs of any kinds; and a run among others that write through the SDK, or
\* among one that may use the engine.
MCMixes == {[jobs |-> 4, kinds |-> AllKinds, turns |-> 0],
            [jobs |-> 4, kinds |-> {"sdk"}, turns |-> 2],
            [jobs |-> 3, kinds |-> {"append", "sdk"}, turns |-> 2]}

\* Jobs of one engine are interchangeable.
Symmetry == Permutations({j \in Jobs : MCEngineOf[j] = e1})
============================================================================
