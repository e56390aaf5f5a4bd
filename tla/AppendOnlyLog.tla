--------------------------- MODULE AppendOnlyLog ---------------------------
(***************************************************************************)
(* What WalrusOS promises of its event store, independently of how rows    *)
(* are produced: a set of immutable events to which one event is added at  *)
(* a time, each under a fresh id and linked to nothing but events of its   *)
(* own workspace that are already there and older than it.                 *)
(* ("There is no mutable state - only an append-only log of events",       *)
(* src/docs/architecture.md:108.)                                          *)
(***************************************************************************)
EXTENDS Integers

CONSTANT Event,     \* the records an event may be
         NoHash     \* the previous_hash of a workspace's first event

VARIABLE log

Init == log = {}

\* `parent` is the event of workspace e.ws that e's previous_hash names.
IsParent(parent, e) == /\ parent.id = e.prev
                       /\ parent.ws = e.ws
                       /\ parent.ts < e.ts

Add(e) == /\ \A old \in log : old.id # e.id
          /\ e.prev = NoHash \/ \E parent \in log : IsParent(parent, e)
          /\ log' = log \cup {e}

\* The event is drawn from the new log, where a checker can find it.
Next == \E e \in log' : e \in Event /\ Add(e)

Spec == Init /\ [][Next]_log
============================================================================
