------------------------- MODULE CoordinatorProofs -------------------------
(***************************************************************************)
(* Proofs about Coordinator, for plans of any size and shape, any agents   *)
(* and any interleaving of the tasks of a round.                           *)
(***************************************************************************)
EXTENDS Coordinator, FiniteSetTheorems, SequenceTheorems, TLAPS

\* The types the argument needs.
Typed ==
  /\ plan \in Plan
  /\ status \in [Tasks -> Status]
  /\ stage \in [Tasks -> Stage]
  /\ read \in [Tasks -> SUBSET Tasks]
  /\ stream \in Seq(Tasks)
  /\ batch \subseteq Tasks
  /\ completed \subseteq Tasks

InFlight == {"scheduled", "begun", "prompted", "written", "reporting"}
Prompted == {"prompted", "written", "reporting", "returned", "raised"}

\* Before there is a plan nothing has happened.
NothingYet ==
  phase = "planning" =>
    /\ stage = [t \in Tasks |-> "idle"] /\ status = [t \in Tasks |-> "pending"]
    /\ batch = {} /\ completed = {} /\ stream = <<>> /\ working = {}

\* Only tasks of the batch run, and only while gather waits for them.
OneBatch ==
  /\ batch # {} => phase = "gathering"
  /\ \A t \in Tasks : stage[t] \in InFlight => t \in batch

\* What a task's status says of its coroutine.
StatusTells ==
  \A t \in Tasks :
    /\ status[t] = "done" <=> stage[t] \in {"reporting", "returned"}
    /\ status[t] = "pending" => stage[t] \in {"idle", "scheduled"}
    /\ stage[t] = "raised" /\ t \notin batch => status[t] = "failed"

\* A task runs after its dependencies are completed, and a completed task has
\* returned.
DependenciesFirst ==
  /\ \A t \in completed : stage[t] = "returned"
  /\ \A t \in Tasks : stage[t] # "idle" => plan.deps[t] \subseteq completed

ReadAll == \A t \in Tasks : stage[t] \in Prompted => read[t] = plan.deps[t]

\* A task is in the stream once it has written, and no sooner.
Written ==
  \A t \in Tasks :
    /\ t \in Range(stream) => stage[t] \in {"written", "reporting", "returned", "raised"}
    /\ stage[t] \in {"written", "reporting", "returned"} => t \in Range(stream)

CoordinatorInv == /\ Typed /\ NothingYet /\ OneBatch /\ StatusTells
                  /\ DependenciesFirst /\ ReadAll /\ Written /\ StreamInOrder

-----------------------------------------------------------------------------
\* Appending to a sequence adds one element to its range.
LEMMA RangeAppend ==
  ASSUME NEW S, NEW s \in Seq(S), NEW e \in S
  PROVE  Range(Append(s, e)) = Range(s) \cup {e}
<1>1. /\ DOMAIN s = 1..Len(s)
      /\ DOMAIN Append(s, e) = 1..(Len(s) + 1)
      /\ Len(s) \in Nat
  OBVIOUS
<1>2. /\ \A i \in 1..Len(s) : Append(s, e)[i] = s[i]
      /\ Append(s, e)[Len(s) + 1] = e
  OBVIOUS
<1>3. Range(Append(s, e)) \subseteq Range(s) \cup {e}
  BY <1>1, <1>2 DEF Range
<1>4. Range(s) \subseteq Range(Append(s, e))
  BY <1>1, <1>2 DEF Range
<1>5. e \in Range(Append(s, e))
  BY <1>1, <1>2 DEF Range
<1>6. QED
  BY <1>3, <1>4, <1>5

\* The invariant gives what is claimed of prompts.
LEMMA ReadFromInv == CoordinatorInv => DependenciesRead
<1> SUFFICES ASSUME CoordinatorInv,
                    NEW t \in Tasks, stage[t] \notin {"idle", "scheduled", "begun"}
             PROVE  /\ read[t] = plan.deps[t]
                    /\ plan.deps[t] \subseteq Range(stream)
  BY DEF DependenciesRead
<1>1. stage[t] \in Prompted
  BY DEF CoordinatorInv, Typed, Stage, Prompted
<1>2. read[t] = plan.deps[t]
  BY <1>1 DEF CoordinatorInv, ReadAll
<1>3. plan.deps[t] \subseteq completed /\ completed \subseteq Tasks
  BY <1>1 DEF CoordinatorInv, DependenciesFirst, Typed, Prompted
<1>4. \A d \in completed : d \in Range(stream)
  BY <1>3 DEF CoordinatorInv, DependenciesFirst, Written
<1>5. QED
  BY <1>2, <1>3, <1>4

\* The invariant holds initially.
LEMMA InvInit == Init => CoordinatorInv
<1> SUFFICES ASSUME Init PROVE CoordinatorInv
  OBVIOUS
<1>1. Single \in Plan /\ 1 \in Tasks
  BY PlansAssumption DEF Single, Plan, Tasks
<1>2. Typed
  BY <1>1 DEF Init, Typed, Status, Stage
<1>3. Range(stream) = {} /\ Len(stream) = 0
  BY DEF Init, Range
<1>4. /\ NothingYet /\ OneBatch /\ StatusTells /\ DependenciesFirst /\ ReadAll
  BY DEF Init, NothingYet, OneBatch, StatusTells, DependenciesFirst, ReadAll,
         InFlight, Prompted
<1>5. Written /\ StreamInOrder
  BY <1>3 DEF Init, Written, StreamInOrder
<1>6. QED
  BY <1>2, <1>4, <1>5 DEF CoordinatorInv

-----------------------------------------------------------------------------
\* Taking on a plan keeps the invariant.
LEMMA DecomposeInv == CoordinatorInv /\ Decompose => CoordinatorInv'
<1> SUFFICES ASSUME CoordinatorInv, Decompose PROVE CoordinatorInv'
  OBVIOUS
<1>1. plan' \in Plan
  <2>1. Single \in Plan /\ Plans \subseteq Plan
    BY PlansAssumption DEF Single, Plan, Tasks
  <2>2. QED
    BY <2>1 DEF Decompose
<1>2. /\ phase = "planning" /\ phase' = "executing"
      /\ UNCHANGED <<status, stage, read, stream, batch, completed, working>>
  BY DEF Decompose, run
<1>3. /\ stage = [t \in Tasks |-> "idle"] /\ status = [t \in Tasks |-> "pending"]
      /\ batch = {} /\ completed = {} /\ stream = <<>>
  BY <1>2 DEF CoordinatorInv, NothingYet
<1>4. Typed' /\ NothingYet' /\ OneBatch' /\ StatusTells' /\ Written'
  BY <1>1, <1>2 DEF CoordinatorInv, Typed, NothingYet, OneBatch, StatusTells, Written
<1>5. DependenciesFirst' /\ ReadAll'
  BY <1>2, <1>3 DEF DependenciesFirst, ReadAll, Prompted
<1>6. StreamInOrder'
  <2>1. Len(stream') = 0
    BY <1>2, <1>3
  <2>2. QED
    BY <2>1 DEF StreamInOrder
<1>7. QED
  BY <1>4, <1>5, <1>6 DEF CoordinatorInv

\* The loop of execute keeps the invariant: it starts only tasks that have not
\* run, and counts as completed only tasks that returned.
LEMMA LoopInv ==
  CoordinatorInv /\ (StartBatch \/ LeaveLoop \/ Collect \/ Finish) => CoordinatorInv'
<1> SUFFICES ASSUME CoordinatorInv, StartBatch \/ LeaveLoop \/ Collect \/ Finish
             PROVE  CoordinatorInv'
  OBVIOUS
<1> USE DEF CoordinatorInv, Typed
<1>1. CASE StartBatch
  <2>1. /\ phase = "executing" /\ phase' = "gathering" /\ batch' = Ready
        /\ stage' = [t \in Tasks |-> IF t \in Ready THEN "scheduled" ELSE stage[t]]
        /\ UNCHANGED <<plan, status, read, stream, completed, working>>
    BY <1>1 DEF StartBatch
  <2>2. /\ Ready \subseteq Tasks
        /\ \A t \in Ready : status[t] = "pending" /\ plan.deps[t] \subseteq completed
    BY PlansAssumption DEF Ready, With, Planned, Plan, Tasks
  <2>3. \A t \in Tasks : stage[t] \notin InFlight
    BY <2>1 DEF OneBatch
  <2>4. \A t \in Ready : stage[t] = "idle"
    BY <2>2, <2>3 DEF StatusTells, InFlight
  <2>5. Typed'
    BY <2>1, <2>2 DEF Stage
  <2>6. NothingYet' /\ OneBatch'
    BY <2>1, <2>3 DEF NothingYet, OneBatch
  <2>7. StatusTells'
    BY <2>1, <2>2, <2>4 DEF StatusTells, OneBatch
  <2>8. DependenciesFirst'
    BY <2>1, <2>2, <2>4 DEF DependenciesFirst
  <2>9. ReadAll' /\ Written'
    BY <2>1, <2>2, <2>4 DEF ReadAll, Written, Prompted
  <2>10. StreamInOrder'
    BY <2>1 DEF StreamInOrder
  <2>11. QED
    BY <2>5, <2>6, <2>7, <2>8, <2>9, <2>10
<1>2. CASE LeaveLoop
  <2>1. /\ phase = "executing" /\ phase' = "synthesizing"
        /\ status' = [t \in Tasks |-> IF t \in With("pending") /\ round < MaxRounds
                                      THEN "blocked" ELSE status[t]]
        /\ UNCHANGED <<plan, stage, read, stream, batch, completed, working>>
    BY <1>2 DEF LeaveLoop
  <2>2. \A t \in Tasks : stage[t] \notin InFlight
    BY <2>1 DEF OneBatch
  <2>3. Typed' /\ NothingYet' /\ OneBatch'
    BY <2>1, <2>2 DEF NothingYet, OneBatch, Status
  <2>4. StatusTells'
    BY <2>1 DEF StatusTells, With
  <2>5. DependenciesFirst' /\ ReadAll' /\ Written'
    BY <2>1 DEF DependenciesFirst, ReadAll, Written
  <2>6. StreamInOrder'
    BY <2>1 DEF StreamInOrder
  <2>7. QED
    BY <2>3, <2>4, <2>5, <2>6
<1>3. CASE Collect
  <2> DEFINE done == {t \in batch : Outcome(t) = "done"}
  <2>1. /\ phase = "gathering" /\ phase' \in {"synthesizing", "executing"}
        /\ \A t \in batch : stage[t] \in {"returned", "raised"}
        /\ completed' = completed \cup done /\ batch' = {}
        /\ status' = [t \in Tasks |-> IF t \in batch THEN Outcome(t) ELSE status[t]]
        /\ UNCHANGED <<plan, stage, read, stream, working>>
    BY <1>3 DEF Collect, Over
  <2>2. \A t \in Tasks : stage[t] \notin InFlight
    BY <2>1 DEF OneBatch, InFlight
  <2>3. \A t \in batch : /\ stage[t] = "returned" => Outcome(t) = "done"
                         /\ stage[t] = "raised" => Outcome(t) = "failed"
    BY DEF Outcome, StatusTells
  <2>4. Typed' /\ NothingYet' /\ OneBatch'
    BY <2>1, <2>2, <2>3 DEF NothingYet, OneBatch, Status
  <2>5. StatusTells'
    BY <2>1, <2>3 DEF StatusTells
  <2>6. DependenciesFirst'
    BY <2>1, <2>3 DEF DependenciesFirst
  <2>7. ReadAll' /\ Written'
    BY <2>1 DEF ReadAll, Written
  <2>8. StreamInOrder'
    BY <2>1 DEF StreamInOrder
  <2>9. QED
    BY <2>4, <2>5, <2>6, <2>7, <2>8
<1>4. CASE Finish
  <2>1. /\ phase = "synthesizing" /\ phase' = "returned"
        /\ UNCHANGED <<plan, status, stage, read, stream, batch, completed, working>>
    BY <1>4 DEF Finish, run
  <2>2. QED
    BY <2>1 DEF NothingYet, OneBatch, StatusTells, DependenciesFirst, ReadAll,
                Written, StreamInOrder
<1>5. QED
  BY <1>1, <1>2, <1>3, <1>4

\* A step of a task keeps the invariant.
LEMMA TaskInv ==
  ASSUME NEW t \in Tasks
  PROVE  CoordinatorInv /\ Step(t) => CoordinatorInv'
<1> SUFFICES ASSUME CoordinatorInv, Step(t) PROVE CoordinatorInv'
  OBVIOUS
<1> USE DEF CoordinatorInv, Typed, Stage, Status
<1>1. phase' = phase /\ batch' = batch /\ completed' = completed /\ plan' = plan
  BY DEF Step, Begin, Prompt, Write, Raise, Report, Return, loop
<1>2. stage[t] \in InFlight /\ batch # {}
  <2>1. stage[t] \in InFlight
    BY DEF Step, Begin, Prompt, Write, Raise, Report, Return, InFlight
  <2>2. QED
    BY <2>1 DEF OneBatch
<1>3. NothingYet'
  BY <1>1, <1>2 DEF NothingYet, OneBatch
<1>4. \A u \in Tasks \ {t} : stage'[u] = stage[u] /\ status'[u] = status[u] /\ read'[u] = read[u]
  BY DEF Step, Begin, Prompt, Write, Raise, Report, Return
<1>5. t \in batch /\ t \notin completed /\ plan.deps[t] \subseteq completed
  BY <1>2 DEF OneBatch, DependenciesFirst, InFlight
<1>6. OneBatch'
  BY <1>1, <1>4, <1>5 DEF OneBatch
<1>7. DependenciesFirst'
  BY <1>1, <1>4, <1>5 DEF DependenciesFirst
<1>8. CASE Begin(t)
  <2>1. /\ stage[t] = "scheduled" /\ stage' = [stage EXCEPT ![t] = "begun"]
        /\ status' = [status EXCEPT ![t] = "in_progress"]
        /\ UNCHANGED <<read, stream>>
    BY <1>8 DEF Begin
  <2>2. Typed' /\ StatusTells'
    BY <1>1, <2>1 DEF StatusTells
  <2>3. ReadAll' /\ Written'
    BY <1>1, <2>1 DEF ReadAll, Written, Prompted
  <2>4. StreamInOrder'
    BY <1>1, <2>1 DEF StreamInOrder
  <2>5. QED
    BY <1>3, <1>6, <1>7, <2>2, <2>3, <2>4
<1>9. CASE Prompt(t)
  <2>1. /\ stage[t] = "begun" /\ stage' = [stage EXCEPT ![t] = "prompted"]
        /\ read' = [read EXCEPT ![t] = {d \in plan.deps[t] : status[d] = "done"}]
        /\ UNCHANGED <<status, stream>>
    BY <1>9 DEF Prompt
  <2>2. plan.deps[t] \subseteq Tasks
    BY DEF Plan
  <2>3. \A d \in plan.deps[t] : status[d] = "done"
    BY <1>5, <2>2 DEF DependenciesFirst, StatusTells
  <2>4. Typed' /\ StatusTells'
    BY <1>1, <2>1, <2>2 DEF StatusTells
  <2>5. read'[t] = plan.deps[t]
    BY <2>1, <2>3
  <2>6. ReadAll'
    BY <1>1, <1>4, <2>1, <2>5 DEF ReadAll
  <2>7. Written'
    BY <1>1, <2>1 DEF Written
  <2>8. StreamInOrder'
    BY <1>1, <2>1 DEF StreamInOrder
  <2>9. QED
    BY <1>3, <1>6, <1>7, <2>4, <2>6, <2>7, <2>8
<1>10. CASE Write(t)
  <2>1. /\ stage[t] = "prompted" /\ stage' = [stage EXCEPT ![t] = "written"]
        /\ stream' = Append(stream, t) /\ UNCHANGED <<status, read>>
    BY <1>10 DEF Write
  <2>2. Typed' /\ StatusTells' /\ ReadAll'
    BY <1>1, <2>1 DEF StatusTells, ReadAll, Prompted
  <2>3. Range(stream') = Range(stream) \cup {t}
    BY <2>1, RangeAppend
  <2>4. Written'
    BY <2>1, <2>3 DEF Written
  <2>5. t \notin Range(stream) /\ plan.deps[t] \subseteq Range(stream)
    <3>1. t \notin Range(stream)
      BY <2>1 DEF Written
    <3>2. \A d \in completed : d \in Range(stream)
      BY DEF DependenciesFirst, Written
    <3>3. QED
      BY <1>5, <3>1, <3>2
  <2>6. /\ Len(stream) \in Nat /\ Len(stream') = Len(stream) + 1
        /\ stream'[Len(stream) + 1] = t
        /\ \A i \in 1..Len(stream) : stream'[i] = stream[i]
    BY <2>1
  <2>7. Range(stream) = {stream[j] : j \in 1..Len(stream)}
    BY DEF Range
  <2>8. StreamInOrder'
    <3> SUFFICES ASSUME NEW i \in 1..(Len(stream) + 1)
                 PROVE  /\ \A j \in 1..(i - 1) : stream'[j] # stream'[i]
                        /\ plan.deps[stream'[i]] \subseteq {stream'[j] : j \in 1..(i - 1)}
      BY <1>1, <2>6 DEF StreamInOrder
    <3>1. {stream'[j] : j \in 1..(i - 1)} = {stream[j] : j \in 1..(i - 1)}
      BY <2>6
    <3>2. CASE i \in 1..Len(stream)
      BY <2>6, <3>1, <3>2 DEF StreamInOrder
    <3>3. CASE i = Len(stream) + 1
      <4>1. i - 1 = Len(stream) /\ stream'[i] = t
        BY <2>6, <3>3
      <4>2. \A j \in 1..Len(stream) : stream[j] # t
        BY <2>5, <2>7
      <4>3. QED
        BY <2>5, <2>6, <2>7, <3>1, <4>1, <4>2
    <3>4. QED
      BY <2>6, <3>2, <3>3
  <2>9. QED
    BY <1>3, <1>6, <1>7, <2>2, <2>4, <2>8
<1>11. CASE Raise(t)
  <2>1. /\ stage[t] \in {"prompted", "written"} /\ stage' = [stage EXCEPT ![t] = "raised"]
        /\ UNCHANGED <<status, read, stream>>
    BY <1>11 DEF Raise
  <2>2. Typed' /\ StatusTells'
    BY <1>1, <1>5, <2>1 DEF StatusTells
  <2>3. ReadAll' /\ Written'
    BY <1>1, <2>1 DEF ReadAll, Written, Prompted
  <2>4. StreamInOrder'
    BY <1>1, <2>1 DEF StreamInOrder
  <2>5. QED
    BY <1>3, <1>6, <1>7, <2>2, <2>3, <2>4
<1>12. CASE Report(t)
  <2>1. /\ stage[t] = "written" /\ stage' = [stage EXCEPT ![t] = "reporting"]
        /\ status' = [status EXCEPT ![t] = "done"]
        /\ UNCHANGED <<read, stream>>
    BY <1>12 DEF Report
  <2>2. Typed' /\ StatusTells'
    BY <1>1, <2>1 DEF StatusTells
  <2>3. ReadAll' /\ Written'
    BY <1>1, <2>1 DEF ReadAll, Written, Prompted
  <2>4. StreamInOrder'
    BY <1>1, <2>1 DEF StreamInOrder
  <2>5. QED
    BY <1>3, <1>6, <1>7, <2>2, <2>3, <2>4
<1>13. CASE Return(t)
  <2>1. /\ stage[t] = "reporting" /\ stage' = [stage EXCEPT ![t] = "returned"]
        /\ UNCHANGED <<status, read, stream>>
    BY <1>13 DEF Return
  <2>2. Typed' /\ StatusTells'
    BY <1>1, <2>1 DEF StatusTells
  <2>3. ReadAll' /\ Written'
    BY <1>1, <2>1 DEF ReadAll, Written, Prompted
  <2>4. StreamInOrder'
    BY <1>1, <2>1 DEF StreamInOrder
  <2>5. QED
    BY <1>3, <1>6, <1>7, <2>2, <2>3, <2>4
<1>14. QED
  BY <1>8, <1>9, <1>10, <1>11, <1>12, <1>13 DEF Step

\* The invariant is inductive.
LEMMA InvStep == CoordinatorInv /\ [Next]_vars => CoordinatorInv'
<1> SUFFICES ASSUME CoordinatorInv, [Next]_vars PROVE CoordinatorInv'
  OBVIOUS
<1>1. CASE Next
  BY <1>1, DecomposeInv, LoopInv, TaskInv DEF Next
<1>2. CASE UNCHANGED vars
  BY <1>2 DEF vars, loop, run, CoordinatorInv, Typed, NothingYet, OneBatch,
              StatusTells, DependenciesFirst, ReadAll, Written, StreamInOrder
<1>3. QED
  BY <1>1, <1>2

\* No task is given its prompt before the results of its dependencies are in
\* the stream and gathered for the prompt (coordinator.py:171-175, 225-232).
THEOREM PromptsComplete == Spec => []DependenciesRead
<1>1. Spec => []CoordinatorInv
  BY InvInit, InvStep, PTL DEF Spec
<1>2. QED
  BY <1>1, ReadFromInv, PTL

\* The stream holds no event of a task twice, and none before those of its
\* dependencies, for every plan, cyclic ones included.
THEOREM StreamOrdered == Spec => []StreamInOrder
<1>1. Spec => []CoordinatorInv
  BY InvInit, InvStep, PTL DEF Spec
<1>2. CoordinatorInv => StreamInOrder
  BY DEF CoordinatorInv
<1>3. QED
  BY <1>1, <1>2, PTL

-----------------------------------------------------------------------------
\* An agent shown working has a task that accounts for it: one that has not
\* come to its end, that raised, or that could not set the agent to idle.
Accountable(a) ==
  \E t \in Planned : /\ owner[t] = a
                     /\ \/ stage[t] \in {"prompted", "written", "reporting", "raised"}
                        \/ t \in unheard

RestInv == /\ batch \subseteq Planned
           /\ \A a \in working : Accountable(a)

\* It is inductive, given the invariant above.
LEMMA RestStep == CoordinatorInv /\ RestInv /\ [Next]_vars => RestInv'
<1> SUFFICES ASSUME CoordinatorInv, RestInv, [Next]_vars PROVE RestInv'
  OBVIOUS
<1> USE DEF CoordinatorInv, Typed
<1>1. Planned \subseteq Tasks
  BY PlansAssumption DEF Planned, Plan, Tasks
<1>2. CASE Decompose
  <2>1. working' = {} /\ batch' = {}
    BY <1>2 DEF Decompose, NothingYet, run
  <2>2. QED
    BY <2>1 DEF RestInv
<1>3. CASE StartBatch
  <2>1. /\ batch' = Ready
        /\ stage' = [t \in Tasks |-> IF t \in Ready THEN "scheduled" ELSE stage[t]]
        /\ phase = "executing" /\ UNCHANGED <<plan, owner, working, unheard>>
    BY <1>3 DEF StartBatch
  <2>2. Ready \subseteq Planned /\ Planned' = Planned
    BY <2>1 DEF Ready, With, Planned
  <2>3. \A t \in Ready : stage[t] = "idle"
    BY <1>1, <2>1, <2>2 DEF Ready, With, StatusTells, OneBatch, InFlight
  <2>4. ASSUME NEW a \in working PROVE Accountable(a)'
    <3>1. PICK t \in Planned : /\ owner[t] = a
                               /\ \/ stage[t] \in {"prompted", "written", "reporting", "raised"}
                                  \/ t \in unheard
      BY DEF RestInv, Accountable
    <3>2. \/ t \in unheard
          \/ t \notin Ready /\ stage'[t] = stage[t]
      BY <1>1, <2>1, <2>3, <3>1
    <3>3. QED
      BY <2>1, <2>2, <3>1, <3>2 DEF Accountable
  <2>5. QED
    BY <2>1, <2>2, <2>4 DEF RestInv
<1>4. CASE LeaveLoop \/ Collect \/ Finish
  <2>1. /\ batch' \subseteq batch
        /\ UNCHANGED <<plan, owner, stage, working, unheard>>
    BY <1>4 DEF LeaveLoop, Collect, Finish, run
  <2>2. QED
    BY <2>1 DEF RestInv, Accountable, Planned
<1>5. ASSUME NEW t \in Tasks, Step(t) PROVE RestInv'
  <2>1. /\ UNCHANGED <<plan, owner, batch>>
        /\ stage[t] \in InFlight
        /\ \A u \in Tasks \ {t} : stage'[u] = stage[u]
        /\ unheard \subseteq unheard'
    BY <1>5 DEF Step, Begin, Prompt, Write, Raise, Report, Return, loop, InFlight
  <2>2. t \in Planned /\ Planned' = Planned
    BY <2>1 DEF RestInv, OneBatch, Planned
  <2>3. CASE Return(t)
    <3>1. /\ stage[t] = "reporting"
          /\ \/ working' = working \ {owner[t]} /\ unheard' = unheard
             \/ unheard' = unheard \cup {t} /\ working' = working
      BY <2>3 DEF Return
    <3>2. ASSUME NEW a \in working' PROVE Accountable(a)'
      <4>1. a \in working
        BY <3>1
      <4>2. PICK u \in Planned : /\ owner[u] = a
                                 /\ \/ stage[u] \in {"prompted", "written", "reporting", "raised"}
                                    \/ u \in unheard
        BY <4>1 DEF RestInv, Accountable
      <4>3. CASE u = t
        <5>1. unheard' = unheard \cup {t} \/ u \in unheard
          BY <3>1, <4>2, <4>3
        <5>2. QED
          BY <2>1, <2>2, <4>2, <4>3, <5>1 DEF Accountable
      <4>4. CASE u # t
        BY <1>1, <2>1, <2>2, <4>2, <4>4 DEF Accountable
      <4>5. QED
        BY <4>3, <4>4
    <3>3. QED
      BY <2>1, <2>2, <3>2 DEF RestInv
  <2>4. CASE ~Return(t)
    <3>1. /\ stage'[t] \in {"begun", "prompted", "written", "raised", "reporting"}
          /\ stage[t] \in {"prompted", "written", "reporting", "raised"}
               => stage'[t] \in {"prompted", "written", "reporting", "raised"}
          /\ \/ working' = working
             \/ working' = working \cup {owner[t]} /\ stage'[t] = "prompted"
          /\ unheard' = unheard
      BY <1>5, <2>4 DEF Step, Begin, Prompt, Write, Raise, Report
    <3>2. ASSUME NEW a \in working PROVE Accountable(a)'
      <4>1. PICK u \in Planned : /\ owner[u] = a
                                 /\ \/ stage[u] \in {"prompted", "written", "reporting", "raised"}
                                    \/ u \in unheard
        BY DEF RestInv, Accountable
      <4>2. \/ stage'[u] \in {"prompted", "written", "reporting", "raised"}
            \/ u \in unheard'
        BY <1>1, <2>1, <3>1, <4>1
      <4>3. QED
        BY <2>1, <2>2, <4>1, <4>2 DEF Accountable
    <3>3. stage'[t] = "prompted" => Accountable(owner[t])'
      BY <2>1, <2>2 DEF Accountable
    <3>4. QED
      BY <2>1, <2>2, <3>1, <3>2, <3>3 DEF RestInv
  <2>5. QED
    BY <2>3, <2>4
<1>6. CASE UNCHANGED vars
  BY <1>6 DEF vars, loop, run, RestInv, Accountable, Planned
<1>7. QED
  BY <1>2, <1>3, <1>4, <1>5, <1>6 DEF Next

\* After the call an agent is shown working only because of a task of its own
\* that failed or could not set it to idle (coordinator.py:221, 304-307).
THEOREM AgentsRest == Spec => []RestedAtEnd
<1>1. Init => RestInv
  BY DEF Init, RestInv
<1>2. Spec => []CoordinatorInv
  BY InvInit, InvStep, PTL DEF Spec
<1>3. CoordinatorInv /\ RestInv => RestedAtEnd
  <2> SUFFICES ASSUME CoordinatorInv, RestInv, phase = "returned", NEW a \in working
               PROVE  \E t \in Planned : owner[t] = a /\ (status[t] = "failed" \/ t \in unheard)
    BY DEF RestedAtEnd
  <2>1. PICK t \in Planned : /\ owner[t] = a
                             /\ \/ stage[t] \in {"prompted", "written", "reporting", "raised"}
                                \/ t \in unheard
    BY DEF RestInv, Accountable
  <2>2. t \in Tasks
    BY PlansAssumption DEF CoordinatorInv, Typed, Planned, Plan, Tasks
  <2>3. batch = {} /\ stage[t] \notin InFlight
    BY <2>2 DEF CoordinatorInv, OneBatch
  <2>4. stage[t] = "raised" => status[t] = "failed"
    BY <2>2, <2>3 DEF CoordinatorInv, StatusTells
  <2>5. QED
    BY <2>1, <2>3, <2>4 DEF InFlight
<1>4. QED
  BY <1>1, <1>2, <1>3, RestStep, PTL DEF Spec

-----------------------------------------------------------------------------
(***************************************************************************)
(* How the call ends                                                       *)
(***************************************************************************)

\* The tasks a round has ever started.
Entered == {t \in Planned : stage[t] # "idle"}

\* A task fails by raising, and one that has not been started is pending or
\* blocked; blocked there is none while the loop goes on.
Statuses ==
  \A t \in Tasks :
    /\ status[t] = "failed" => stage[t] = "raised"
    /\ status[t] = "blocked" => stage[t] = "idle"
    /\ stage[t] = "idle" => status[t] \in {"pending", "blocked"}
    /\ phase \in {"planning", "executing", "gathering"} => status[t] # "blocked"

\* What has returned is completed once gather has, and no completed task is
\* run again.
Counted ==
  /\ \A t \in Tasks : stage[t] = "returned" /\ t \notin batch => t \in completed
  /\ batch \subseteq Planned /\ completed \subseteq Planned
  /\ batch \cap completed = {}

\* Every round has started a task of its own.
RoundsCounted == round \in Nat /\ round <= Cardinality(Entered)

\* The events of the tasks, each once and after those its task depends on.
HandedBack(s, tasks) ==
  /\ s \in Seq(Tasks)
  /\ Range(s) = tasks
  /\ \A i, j \in 1..Len(s) : s[i] = s[j] => i = j
  /\ \A i \in 1..Len(s) : \A d \in plan.deps[s[i]] : \E j \in 1..(i - 1) : s[j] = d

\* The events handed back so far are those of the completed tasks.
EventsCounted == HandedBack(events, completed)

EndInv == Statuses /\ Counted /\ RoundsCounted /\ EventsCounted /\ EndsHonestly

\* The tasks of a plan are finitely many, and at least one.
LEMMA PlanIsFinite ==
  ASSUME CoordinatorInv
  PROVE  /\ plan.size \in Nat /\ plan.size >= 1
         /\ Planned = 1..plan.size /\ Planned \subseteq Tasks
         /\ IsFiniteSet(Planned) /\ Cardinality(Planned) = plan.size
         /\ \A t \in Tasks : plan.deps[t] \subseteq Planned
<1>1. /\ plan.size \in 1..MaxTasks /\ MaxTasks \in Nat
      /\ \A t \in Tasks : plan.deps[t] \subseteq 1..plan.size
  BY PlansAssumption DEF CoordinatorInv, Typed, Plan, Tasks
<1>2. IsFiniteSet(1..plan.size) /\ Cardinality(1..plan.size) = plan.size
  BY <1>1, FS_Interval
<1>3. QED
  BY <1>1, <1>2 DEF Planned, Tasks

\* In plan order every task of the set comes, and comes once.
LEMMA PlanOrder ==
  ASSUME CoordinatorInv, NEW S, S \subseteq Planned
  PROVE  /\ IsFiniteSet(S) /\ Cardinality(S) \in Nat
         /\ InPlanOrder(S) \in Seq(S) /\ Len(InPlanOrder(S)) = Cardinality(S)
         /\ \A t \in S : \E n \in 1..Cardinality(S) : InPlanOrder(S)[n] = t
         /\ \A m, n \in 1..Cardinality(S) : InPlanOrder(S)[m] = InPlanOrder(S)[n] => m = n
<1> DEFINE UpTo(t) == {u \in S : u <= t}
           D == 1..Cardinality(S)
<1>1. IsFiniteSet(S) /\ Cardinality(S) \in Nat /\ \A t \in S : t \in Nat
  BY PlanIsFinite, FS_Subset, FS_CardinalityType
<1>2. ASSUME NEW t \in S
      PROVE  IsFiniteSet(UpTo(t)) /\ Cardinality(UpTo(t)) \in D
  <2>1. UpTo(t) \subseteq S /\ t \in UpTo(t)
    BY <1>1
  <2>2. IsFiniteSet(UpTo(t)) /\ Cardinality(UpTo(t)) \in Nat
        /\ Cardinality(UpTo(t)) <= Cardinality(S)
    BY <1>1, <2>1, FS_Subset, FS_CardinalityType
  <2>3. Cardinality(UpTo(t)) # 0
    BY <2>1, <2>2, FS_EmptySet
  <2>4. QED
    BY <1>1, <2>2, <2>3
<1>3. ASSUME NEW t \in S, NEW u \in S, t < u
      PROVE  Cardinality(UpTo(t)) # Cardinality(UpTo(u))
  <2>1. UpTo(t) \subseteq UpTo(u) /\ u \in UpTo(u) /\ u \notin UpTo(t)
    BY <1>1, <1>3
  <2>2. QED
    BY <1>2, <2>1, FS_Subset
<1>4. \A t, u \in S : Cardinality(UpTo(t)) = Cardinality(UpTo(u)) => t = u
  <2>1. \A t, u \in S : t < u \/ u < t \/ t = u
    BY <1>1
  <2>2. QED
    BY <1>3, <2>1
<1>5. \A n \in D : \E t \in S : Cardinality(UpTo(t)) = n
  <2> DEFINE f == [t \in S |-> Cardinality(UpTo(t))]
  <2>1. f \in Injection(S, D)
    BY <1>2, <1>4 DEF Injection, IsInjective
  <2>2. IsFiniteSet(D) /\ Cardinality(D) = Cardinality(S)
    BY <1>1, FS_Interval
  <2>3. f \in Surjection(S, D)
    BY <2>1, <2>2, FS_Injection
  <2>4. QED
    BY <2>3 DEF Surjection
<1>6. \A n \in D : InPlanOrder(S)[n] \in S /\ Cardinality(UpTo(InPlanOrder(S)[n])) = n
  <2> SUFFICES ASSUME NEW n \in D
               PROVE  InPlanOrder(S)[n] \in S /\ Cardinality(UpTo(InPlanOrder(S)[n])) = n
    OBVIOUS
  <2> DEFINE c == CHOOSE t \in S : Cardinality(UpTo(t)) = n
  <2>1. c \in S /\ Cardinality(UpTo(c)) = n
    BY <1>5
  <2>2. InPlanOrder(S)[n] = c
    BY DEF InPlanOrder
  <2>3. QED
    BY <2>1, <2>2
<1>7. InPlanOrder(S) \in [D -> S]
  BY <1>6 DEF InPlanOrder
<1>8. InPlanOrder(S) \in Seq(S) /\ Len(InPlanOrder(S)) = Cardinality(S)
  BY <1>1, <1>7
<1>9. \A t \in S : \E n \in D : InPlanOrder(S)[n] = t
  BY <1>2, <1>4, <1>6
<1>10. \A m, n \in D : InPlanOrder(S)[m] = InPlanOrder(S)[n] => m = n
  BY <1>6
<1>11. QED
  BY <1>1, <1>8, <1>9, <1>10

\* As many events are handed back as there are completed tasks.
LEMMA EventsAreTasks ==
  ASSUME CoordinatorInv, Counted, EventsCounted
  PROVE  Len(events) = Cardinality(completed)
<1>1. /\ Len(events) \in Nat /\ events \in [1..Len(events) -> Tasks]
      /\ DOMAIN events = 1..Len(events)
  BY DEF EventsCounted, HandedBack
<1>2. IsFiniteSet(1..Len(events)) /\ Cardinality(1..Len(events)) = Len(events)
  BY <1>1, FS_Interval
<1>3. events \in [1..Len(events) -> completed] /\ \A t \in completed : \E i \in 1..Len(events) : events[i] = t
  BY <1>1 DEF EventsCounted, HandedBack, Range
<1>4. events \in Injection(1..Len(events), completed)
  BY <1>3 DEF Injection, IsInjective, EventsCounted, HandedBack
<1>5. events \in Surjection(1..Len(events), completed)
  BY <1>3 DEF Surjection
<1>6. QED
  BY <1>2, <1>4, <1>5, FS_Surjection

\* The bound on the rounds is not reached: each has started a task, and there
\* are three times as many as tasks.
LEMMA NeverCutOff ==
  ASSUME CoordinatorInv, RoundsCounted
  PROVE  round < MaxRounds
<1>1. Entered \subseteq Planned
  BY DEF Entered
<1>2. Cardinality(Entered) <= plan.size /\ Cardinality(Entered) \in Nat
  BY <1>1, PlanIsFinite, FS_Subset, FS_CardinalityType
<1>3. plan.size \in Nat /\ plan.size >= 1 /\ round \in Nat /\ round <= Cardinality(Entered)
  BY PlanIsFinite DEF RoundsCounted
<1>4. round <= plan.size /\ plan.size < plan.size * 3
  BY <1>2, <1>3
<1>5. MaxRounds >= plan.size * 3
  BY <1>3 DEF MaxRounds
<1>6. MaxRounds \in Nat
  BY <1>3 DEF MaxRounds
<1>7. QED
  BY <1>3, <1>4, <1>5, <1>6

\* The invariant holds when coordinate() is entered.
LEMMA EndInvInit == Init => EndInv
<1> SUFFICES ASSUME Init PROVE EndInv
  OBVIOUS
<1>0. CoordinatorInv
  BY InvInit
<1>1. Statuses /\ EndsHonestly
  BY DEF Init, Statuses, EndsHonestly, SettledRight, ResultHonest
<1>2. Counted
  BY DEF Init, Counted
<1>3. RoundsCounted
  <2>1. IsFiniteSet(Entered)
    BY <1>0, PlanIsFinite, FS_Subset DEF Entered
  <2>2. QED
    BY <2>1, FS_CardinalityType DEF Init, RoundsCounted
<1>4. EventsCounted
  <2>1. events = <<>> /\ Len(events) = 0 /\ Range(events) = {} /\ completed = {}
    BY DEF Init, Range
  <2>2. QED
    BY <2>1 DEF EventsCounted, HandedBack
<1>5. QED
  BY <1>1, <1>2, <1>3, <1>4 DEF EndInv

\* A plan is taken on before there is anything to keep.
LEMMA DecomposeEnd ==
  ASSUME CoordinatorInv, EndInv, Decompose
  PROVE  EndInv'
<1>0. CoordinatorInv'
  BY DecomposeInv
<1>1. /\ phase = "planning" /\ phase' = "executing"
      /\ UNCHANGED <<status, stage, batch, completed, events, round>>
  BY DEF Decompose, run
<1>2. /\ stage = [t \in Tasks |-> "idle"] /\ status = [t \in Tasks |-> "pending"]
      /\ batch = {} /\ completed = {}
  BY <1>1 DEF CoordinatorInv, NothingYet
<1>3. Statuses'
  BY <1>1, <1>2 DEF Statuses
<1>4. Counted'
  BY <1>1, <1>2 DEF Counted
<1>5. round = 0
  <2>1. Entered = {}
    BY <1>2, PlanIsFinite DEF Entered
  <2>2. Cardinality(Entered) = 0
    BY <2>1, FS_EmptySet
  <2>3. QED
    BY <2>2 DEF EndInv, RoundsCounted
<1>6. RoundsCounted'
  <2>1. \A S : S \subseteq Planned' => Cardinality(S) \in Nat
    <3>1. plan'.size \in Nat
      BY <1>0, PlansAssumption DEF CoordinatorInv, Typed, Plan, Tasks
    <3>2. IsFiniteSet(1..plan'.size)
      BY <3>1, FS_Interval
    <3>3. QED
      BY <3>2, FS_Subset, FS_CardinalityType DEF Planned
  <2>2. Entered' \subseteq Planned'
    BY DEF Entered
  <2>3. QED
    BY <1>1, <1>5, <2>1, <2>2 DEF RoundsCounted
<1>7. EventsCounted'
  <2>1. Range(events) = {} /\ events \in Seq(Tasks)
    BY <1>2 DEF EndInv, EventsCounted, HandedBack
  <2>2. \A i \in 1..Len(events) : FALSE
    <3>1. DOMAIN events = 1..Len(events)
      BY <2>1
    <3>2. QED
      BY <2>1, <3>1 DEF Range
  <2>3. QED
    BY <1>1, <1>2, <2>1, <2>2 DEF EventsCounted, HandedBack
<1>8. EndsHonestly'
  BY <1>1 DEF EndsHonestly, SettledRight, ResultHonest
<1>9. QED
  BY <1>3, <1>4, <1>6, <1>7, <1>8 DEF EndInv

\* A round starts at least one task that was never started.
LEMMA StartBatchEnd ==
  ASSUME CoordinatorInv, EndInv, StartBatch
  PROVE  EndInv'
<1>1. /\ phase = "executing" /\ phase' = "gathering" /\ batch' = Ready /\ Ready # {}
      /\ stage' = [t \in Tasks |-> IF t \in Ready THEN "scheduled" ELSE stage[t]]
      /\ round' = round + 1
      /\ UNCHANGED <<plan, status, completed, events>>
  BY DEF StartBatch
<1>2. batch = {} /\ Planned' = Planned
  BY <1>1 DEF CoordinatorInv, OneBatch, Planned
<1>3. /\ Ready \subseteq Planned /\ Ready \subseteq Tasks
      /\ \A t \in Ready : status[t] = "pending" /\ stage[t] = "idle"
  <2>1. Ready \subseteq Planned /\ \A t \in Ready : status[t] = "pending"
    BY DEF Ready, With
  <2>2. \A t \in Tasks : stage[t] \notin InFlight
    BY <1>2 DEF CoordinatorInv, OneBatch
  <2>3. QED
    BY <2>1, <2>2, PlanIsFinite DEF CoordinatorInv, StatusTells, InFlight
<1>4. Statuses'
  BY <1>1, <1>3 DEF EndInv, Statuses, CoordinatorInv, Typed
<1>5. Counted'
  <2>1. \A t \in completed : stage[t] = "returned"
    BY DEF CoordinatorInv, DependenciesFirst
  <2>2. batch' \cap completed = {}
    BY <1>1, <1>3, <2>1
  <2>3. \A t \in Tasks : stage'[t] = "returned" => t \in completed
    BY <1>1, <1>2 DEF EndInv, Counted, CoordinatorInv, Typed
  <2>4. batch' \subseteq Planned /\ completed \subseteq Planned
    BY <1>1, <1>3 DEF EndInv, Counted
  <2>5. QED
    BY <1>1, <1>2, <2>2, <2>3, <2>4 DEF Counted
<1>6. RoundsCounted'
  <2>1. PICK t \in Ready : TRUE
    BY <1>1
  <2>2. /\ Entered \subseteq Entered' /\ t \in Entered' /\ t \notin Entered
        /\ Entered' \subseteq Planned
    BY <1>1, <1>2, <1>3, PlanIsFinite DEF Entered, CoordinatorInv, Typed
  <2>3. IsFiniteSet(Entered') /\ IsFiniteSet(Entered)
    BY <2>2, PlanIsFinite, FS_Subset
  <2>4. Cardinality(Entered) <= Cardinality(Entered')
        /\ Cardinality(Entered) # Cardinality(Entered')
    BY <2>2, <2>3, FS_Subset
  <2>5. Cardinality(Entered) \in Nat /\ Cardinality(Entered') \in Nat
    BY <2>3, FS_CardinalityType
  <2>6. round \in Nat /\ round <= Cardinality(Entered)
    BY DEF EndInv, RoundsCounted
  <2>7. QED
    BY <1>1, <2>4, <2>5, <2>6 DEF RoundsCounted
<1>7. EventsCounted'
  BY <1>1 DEF EndInv, EventsCounted, HandedBack
<1>8. EndsHonestly'
  BY <1>1 DEF EndsHonestly, SettledRight, ResultHonest
<1>9. QED
  BY <1>4, <1>5, <1>6, <1>7, <1>8 DEF EndInv

\* A step of a task ends nothing.
LEMMA TaskEnd ==
  ASSUME CoordinatorInv, EndInv, NEW t \in Tasks, Step(t)
  PROVE  EndInv'
<1> USE DEF CoordinatorInv, Typed
<1>1. UNCHANGED <<phase, batch, completed, events, round, plan>>
  BY DEF Step, Begin, Prompt, Write, Raise, Report, Return, loop
<1>2. /\ stage[t] \in InFlight /\ stage'[t] \notin {"idle", "scheduled"}
      /\ t \in batch /\ phase = "gathering"
      /\ \A u \in Tasks \ {t} : stage'[u] = stage[u] /\ status'[u] = status[u]
  <2>1. /\ stage[t] \in InFlight /\ stage'[t] \notin {"idle", "scheduled"}
        /\ \A u \in Tasks \ {t} : stage'[u] = stage[u] /\ status'[u] = status[u]
    BY DEF Step, Begin, Prompt, Write, Raise, Report, Return, InFlight
  <2>2. QED
    BY <2>1 DEF OneBatch
<1>3. status'[t] \in {"in_progress", "done"}
  <2>1. status[t] # "blocked" /\ status[t] # "failed"
    BY <1>2 DEF EndInv, Statuses, InFlight
  <2>2. stage[t] # "scheduled" => status[t] # "pending"
    BY <1>2 DEF StatusTells, InFlight
  <2>3. status[t] \in Status
    OBVIOUS
  <2>4. QED
    BY <2>1, <2>2, <2>3 DEF Step, Begin, Prompt, Write, Raise, Report, Return, Status
<1>4. Statuses'
  BY <1>1, <1>2, <1>3 DEF EndInv, Statuses
<1>5. Counted'
  BY <1>1, <1>2 DEF EndInv, Counted, Planned
<1>6. RoundsCounted'
  <2>1. Entered' = Entered
    BY <1>1, <1>2, PlanIsFinite DEF Entered, Planned, InFlight
  <2>2. QED
    BY <1>1, <2>1 DEF EndInv, RoundsCounted
<1>7. EventsCounted'
  BY <1>1 DEF EndInv, EventsCounted, HandedBack
<1>8. EndsHonestly'
  BY <1>1, <1>2 DEF EndsHonestly, SettledRight, ResultHonest
<1>9. QED
  BY <1>4, <1>5, <1>6, <1>7, <1>8 DEF EndInv

\* Where the loop ends because nothing is ready, every pending task waits for
\* one that is not done, and every other has ended.
LEMMA LeaveLoopEnd ==
  ASSUME CoordinatorInv, EndInv, LeaveLoop
  PROVE  EndInv'
<1>1. /\ phase = "executing" /\ phase' = "synthesizing"
      /\ UNCHANGED <<plan, stage, batch, completed, events, round>>
      /\ status' = [t \in Tasks |-> IF t \in With("pending") /\ round < MaxRounds
                                    THEN "blocked" ELSE status[t]]
      /\ round < MaxRounds => Ready = {}
  BY DEF LeaveLoop
<1>2. round < MaxRounds /\ Ready = {}
  BY <1>1, NeverCutOff DEF EndInv
<1>3. batch = {} /\ \A t \in Tasks : stage[t] \notin InFlight
  BY <1>1 DEF CoordinatorInv, OneBatch
<1>4. \A t \in Tasks : status'[t] = IF t \in Planned /\ status[t] = "pending" THEN "blocked"
                                    ELSE status[t]
  BY <1>1, <1>2 DEF With
<1>5. \A t \in Tasks : /\ stage[t] \in {"idle", "returned", "raised"}
                       /\ stage[t] = "idle" => status[t] = "pending"
                       /\ stage[t] = "returned" => status[t] = "done" /\ t \in completed
                       /\ stage[t] = "raised" => status[t] = "failed"
  <2> SUFFICES ASSUME NEW t \in Tasks
               PROVE  /\ stage[t] \in {"idle", "returned", "raised"}
                      /\ stage[t] = "idle" => status[t] = "pending"
                      /\ stage[t] = "returned" => status[t] = "done" /\ t \in completed
                      /\ stage[t] = "raised" => status[t] = "failed"
    OBVIOUS
  <2>1. stage[t] \in {"idle", "returned", "raised"}
    BY <1>3 DEF CoordinatorInv, Typed, Stage, InFlight
  <2>2. stage[t] = "idle" => status[t] = "pending"
    BY <1>1 DEF EndInv, Statuses
  <2>3. stage[t] = "returned" => status[t] = "done" /\ t \in completed
    BY <1>3 DEF EndInv, Counted, CoordinatorInv, StatusTells
  <2>4. stage[t] = "raised" => status[t] = "failed"
    BY <1>3 DEF CoordinatorInv, StatusTells
  <2>5. QED
    BY <2>1, <2>2, <2>3, <2>4
<1>6. Statuses'
  BY <1>1, <1>4, <1>5 DEF Statuses
<1>7. SettledRight'
  <2>1. Planned' = Planned /\ Planned \subseteq Tasks
        /\ \A t \in Tasks : plan.deps[t] \subseteq Planned
    BY <1>1, PlanIsFinite DEF Planned
  <2>2. ASSUME NEW t \in Planned
        PROVE  /\ status'[t] \in {"done", "failed", "blocked"}
               /\ status'[t] = "blocked" <=> \E d \in plan.deps[t] : status'[d] # "done"
               /\ status'[t] = "blocked" => stage[t] = "idle"
    <3>1. t \in Tasks /\ plan.deps[t] \subseteq Tasks
      BY <2>1
    <3>2. CASE stage[t] = "idle"
      <4>1. status[t] = "pending" /\ status'[t] = "blocked"
        BY <1>4, <1>5, <3>1, <3>2
      <4>2. ~(plan.deps[t] \subseteq completed)
        BY <1>2, <4>1 DEF Ready, With
      <4>3. PICK d \in plan.deps[t] : d \notin completed
        BY <4>2
      <4>4. d \in Tasks /\ stage[d] # "returned"
        BY <1>5, <3>1, <4>3
      <4>5. status'[d] # "done"
        BY <1>4, <1>5, <4>4
      <4>6. QED
        BY <3>2, <4>1, <4>3, <4>5
    <3>3. CASE stage[t] # "idle"
      <4>1. status'[t] \in {"done", "failed"}
        BY <1>4, <1>5, <3>1, <3>3
      <4>2. plan.deps[t] \subseteq completed
        BY <3>1, <3>3 DEF CoordinatorInv, DependenciesFirst
      <4>3. \A d \in completed : d \in Tasks /\ stage[d] = "returned"
        BY DEF CoordinatorInv, Typed, DependenciesFirst
      <4>4. \A d \in plan.deps[t] : status'[d] = "done"
        BY <1>4, <1>5, <4>2, <4>3
      <4>5. QED
        BY <4>1, <4>4
    <3>4. QED
      BY <3>2, <3>3
  <2>3. QED
    BY <1>1, <2>1, <2>2 DEF SettledRight
<1>8. Counted' /\ EventsCounted'
  BY <1>1 DEF EndInv, Counted, EventsCounted, HandedBack, Planned
<1>9. RoundsCounted'
  <2>1. Entered' = Entered
    BY <1>1 DEF Entered, Planned
  <2>2. QED
    BY <1>1, <2>1 DEF EndInv, RoundsCounted
<1>10. ResultHonest'
  BY <1>1 DEF ResultHonest
<1>11. QED
  BY <1>6, <1>7, <1>8, <1>9, <1>10 DEF EndInv, EndsHonestly

\* Gathering a round keeps the invariant: what it did is counted once, and
\* handed back behind everything it depends on.
LEMMA CollectEvents ==
  ASSUME CoordinatorInv, Counted, EventsCounted,
         NEW done \in SUBSET Planned, done \cap completed = {},
         \A t \in done : plan.deps[t] \subseteq completed,
         NEW longer, longer = events \o InPlanOrder(done)
  PROVE  HandedBack(longer, completed \cup done)
<1> DEFINE added == InPlanOrder(done)
           L == Len(events)
           K == Cardinality(done)
<1>1. /\ added \in Seq(Tasks) /\ Len(added) = K /\ K \in Nat
      /\ \A n \in 1..K : added[n] \in done
      /\ \A t \in done : \E n \in 1..K : added[n] = t
      /\ \A m, n \in 1..K : added[m] = added[n] => m = n
  <2>1. /\ added \in Seq(done) /\ Len(added) = K /\ K \in Nat
        /\ \A t \in done : \E n \in 1..K : added[n] = t
        /\ \A m, n \in 1..K : added[m] = added[n] => m = n
    BY PlanOrder
  <2>2. done \subseteq Tasks
    BY PlanIsFinite
  <2>3. \A n \in 1..K : added[n] \in done
    BY <2>1
  <2>4. added \in Seq(Tasks)
    BY <2>1, <2>2
  <2>5. QED
    BY <2>1, <2>3, <2>4
<1> HIDE DEF added
<1>2. /\ events \in Seq(Tasks) /\ L \in Nat
      /\ \A i \in 1..L : events[i] \in completed
      /\ \A t \in completed : \E i \in 1..L : events[i] = t
  <2>1. events \in Seq(Tasks) /\ L \in Nat /\ DOMAIN events = 1..L
    BY DEF EventsCounted, HandedBack
  <2>2. QED
    BY <2>1 DEF EventsCounted, HandedBack, Range
<1>3. /\ longer \in Seq(Tasks) /\ Len(longer) = L + K
      /\ \A i \in 1..L : longer[i] = events[i]
      /\ \A n \in 1..K : longer[L + n] = added[n]
  <2>1. longer = events \o added
    BY DEF added
  <2>2. longer \in Seq(Tasks) /\ Len(longer) = Len(events) + Len(added)
    BY <1>1, <1>2, <2>1, ConcatProperties
  <2>3. \A i \in 1..L : longer[i] = events[i]
    BY <1>1, <1>2, <2>1
  <2>4. ASSUME NEW n \in 1..K PROVE longer[L + n] = added[n]
    <3>1. L + n \in 1..(L + K) /\ L + n > L /\ (L + n) - L = n
      BY <1>1, <1>2
    <3>2. QED
      BY <1>1, <1>2, <2>1, <3>1
  <2>5. QED
    BY <1>1, <2>2, <2>3, <2>4
<1>4. \A i \in 1..(L + K) : i \in 1..L \/ \E n \in 1..K : i = L + n
  <2> SUFFICES ASSUME NEW i \in 1..(L + K), i \notin 1..L
               PROVE  \E n \in 1..K : i = L + n
    OBVIOUS
  <2>1. i - L \in 1..K /\ i = L + (i - L)
    BY <1>1, <1>2
  <2>2. QED
    BY <2>1
<1>5. (\A i \in 1..L : i \in 1..(L + K)) /\ (\A n \in 1..K : L + n \in 1..(L + K))
  BY <1>1, <1>2
<1>6. Range(longer) = completed \cup done
  <2>1. DOMAIN longer = 1..(L + K)
    BY <1>3
  <2>2. \A i \in 1..L : longer[i] \in completed
    BY <1>2, <1>3
  <2>3. \A n \in 1..K : longer[L + n] \in done
    BY <1>1, <1>3
  <2>4. \A i \in 1..(L + K) : longer[i] \in completed \cup done
    BY <1>4, <2>2, <2>3
  <2>5. ASSUME NEW t \in completed PROVE \E i \in 1..(L + K) : longer[i] = t
    <3>1. PICK i \in 1..L : events[i] = t
      BY <1>2
    <3>2. i \in 1..(L + K) /\ longer[i] = t
      BY <1>3, <1>5, <3>1
    <3>3. QED
      BY <3>2
  <2>6. ASSUME NEW t \in done PROVE \E i \in 1..(L + K) : longer[i] = t
    <3>1. PICK n \in 1..K : added[n] = t
      BY <1>1
    <3>2. L + n \in 1..(L + K) /\ longer[L + n] = t
      BY <1>3, <1>5, <3>1
    <3>3. QED
      BY <3>2
  <2>7. \A t : t \in Range(longer) <=> \E i \in 1..(L + K) : longer[i] = t
    BY <2>1 DEF Range
  <2>8. \A t : t \in Range(longer) <=> t \in completed \cup done
    BY <2>4, <2>5, <2>6, <2>7
  <2>9. QED
    BY <2>8
<1>7. ASSUME NEW i \in 1..(L + K), NEW j \in 1..(L + K), longer[i] = longer[j]
      PROVE  i = j
  <2>1. CASE i \in 1..L /\ j \in 1..L
    BY <1>3, <1>7, <2>1 DEF EventsCounted, HandedBack
  <2>2. ASSUME NEW n \in 1..K, NEW k \in 1..L PROVE longer[L + n] # longer[k]
    BY <1>1, <1>2, <1>3
  <2>3. ASSUME NEW m \in 1..K, NEW n \in 1..K, longer[L + m] = longer[L + n]
        PROVE  m = n
    BY <1>1, <1>3, <2>3
  <2>4. QED
    BY <1>4, <1>7, <2>1, <2>2, <2>3
<1>8. ASSUME NEW i \in 1..(L + K), NEW d \in plan.deps[longer[i]]
      PROVE  \E j \in 1..(i - 1) : longer[j] = d
  <2>1. CASE i \in 1..L
    <3>1. PICK j \in 1..(i - 1) : events[j] = d
      BY <1>3, <1>8, <2>1 DEF EventsCounted, HandedBack
    <3>2. j \in 1..L
      BY <1>2, <2>1, <3>1
    <3>3. QED
      BY <1>3, <3>1, <3>2
  <2>2. ASSUME NEW n \in 1..K, i = L + n PROVE \E j \in 1..(i - 1) : longer[j] = d
    <3>1. longer[i] \in done
      BY <1>1, <1>3, <2>2
    <3>2. d \in completed
      BY <1>8, <3>1
    <3>3. PICK j \in 1..L : events[j] = d
      BY <1>2, <3>2
    <3>4. j \in 1..(i - 1)
      BY <1>1, <1>2, <2>2
    <3>5. QED
      BY <1>3, <3>3, <3>4
  <2>3. QED
    BY <1>4, <2>1, <2>2
<1>9. QED
  BY <1>3, <1>6, <1>7, <1>8 DEF HandedBack

\* Gathering a round keeps the invariant.
LEMMA CollectEnd ==
  ASSUME CoordinatorInv, EndInv, Collect
  PROVE  EndInv'
<1> DEFINE done == {t \in batch : Outcome(t) = "done"}
<1>1. /\ phase = "gathering" /\ batch' = {}
      /\ \A t \in batch : stage[t] \in {"returned", "raised"}
      /\ completed' = completed \cup done
      /\ events' = events \o InPlanOrder(done)
      /\ status' = [t \in Tasks |-> IF t \in batch THEN Outcome(t) ELSE status[t]]
      /\ phase' = IF \A t \in Planned : status'[t] \in {"done", "failed", "blocked"}
                  THEN "synthesizing" ELSE "executing"
      /\ UNCHANGED <<plan, stage, round>>
  BY DEF Collect, Over
<1>2. batch \subseteq Planned /\ Planned \subseteq Tasks /\ batch \cap completed = {}
      /\ completed \subseteq Planned /\ Planned' = Planned
  BY <1>1, PlanIsFinite DEF EndInv, Counted, Planned
<1>3. \A t \in batch : /\ stage[t] = "returned" => Outcome(t) = "done"
                       /\ stage[t] = "raised" => Outcome(t) = "failed"
  BY <1>2 DEF Outcome, CoordinatorInv, StatusTells
<1>4. \A t \in Tasks : stage[t] \notin InFlight
  BY <1>1 DEF CoordinatorInv, OneBatch, InFlight
<1>5. \A t \in Tasks : status'[t] = IF t \in batch THEN Outcome(t) ELSE status[t]
  BY <1>1
<1>6. Statuses'
  <2>1. \A t \in batch : status'[t] # "blocked" /\ stage[t] # "idle"
                         /\ (status'[t] = "failed" => stage[t] = "raised")
    BY <1>1, <1>2, <1>3, <1>5
  <2>2. \A t \in Tasks \ batch : status'[t] = status[t] /\ status[t] # "blocked"
    BY <1>1, <1>5 DEF EndInv, Statuses
  <2>3. QED
    BY <1>1, <2>1, <2>2 DEF EndInv, Statuses
<1>7. Counted'
  <2>1. \A t \in Tasks : stage[t] = "returned" => t \in completed \cup done
    BY <1>3 DEF EndInv, Counted
  <2>2. QED
    BY <1>1, <1>2, <2>1 DEF Counted
<1>8. RoundsCounted'
  <2>1. Entered' = Entered
    BY <1>1 DEF Entered, Planned
  <2>2. QED
    BY <1>1, <2>1 DEF EndInv, RoundsCounted
<1>9. EventsCounted'
  <2>1. done \subseteq Planned /\ done \cap completed = {}
    BY <1>2
  <2>2. \A t \in done : plan.deps[t] \subseteq completed
    BY <1>1, <1>2 DEF CoordinatorInv, DependenciesFirst
  <2>3. PICK longer : longer = events \o InPlanOrder(done)
    OBVIOUS
  <2>4. HandedBack(longer, completed \cup done)
    <3>1. Counted /\ EventsCounted
      BY DEF EndInv
    <3>2. done \in SUBSET Planned
      BY <2>1
    <3> HIDE DEF done
    <3>3. QED
      BY <2>1, <2>2, <2>3, <3>1, <3>2, CollectEvents
  <2>5. events' = longer /\ completed' = completed \cup done /\ plan' = plan
    BY <1>1, <2>3
  <2>6. QED
    BY <2>4, <2>5 DEF EventsCounted, HandedBack
<1>10. SettledRight'
  <2> SUFFICES ASSUME phase' \in {"synthesizing", "returned"}, NEW t \in Planned
               PROVE  /\ status'[t] \in {"done", "failed", "blocked"}
                      /\ status'[t] = "blocked" <=> \E d \in plan.deps[t] : status'[d] # "done"
                      /\ status'[t] = "blocked" => stage[t] = "idle"
    BY <1>1, <1>2 DEF SettledRight
  <2>1. \A u \in Planned : status'[u] \in {"done", "failed", "blocked"}
    BY <1>1
  <2>2. \A u \in Tasks : status'[u] # "blocked"
    BY <1>1, <1>2, <1>3, <1>5 DEF EndInv, Statuses
  <2>3. status'[t] \in {"done", "failed"} /\ t \in Tasks
    BY <1>2, <2>1, <2>2
  <2>4. stage[t] # "idle"
    <3>1. CASE t \in batch
      BY <1>1, <3>1
    <3>2. CASE t \notin batch
      BY <1>5, <2>3, <3>2 DEF EndInv, Statuses
    <3>3. QED
      BY <3>1, <3>2
  <2>5. plan.deps[t] \subseteq completed
    BY <2>3, <2>4 DEF CoordinatorInv, DependenciesFirst
  <2>6. \A d \in completed : status'[d] = "done"
    <3>1. \A d \in completed : d \in Tasks /\ stage[d] = "returned" /\ d \notin batch
      BY <1>2 DEF CoordinatorInv, Typed, DependenciesFirst
    <3>2. QED
      BY <1>5, <3>1 DEF CoordinatorInv, StatusTells
  <2>7. QED
    BY <2>2, <2>3, <2>5, <2>6
<1>11. ResultHonest'
  BY <1>1 DEF ResultHonest
<1>12. QED
  BY <1>6, <1>7, <1>8, <1>9, <1>10, <1>11 DEF EndInv, EndsHonestly

\* The result is made of the tasks' statuses, which settle what is handed back.
LEMMA FinishEnd ==
  ASSUME CoordinatorInv, EndInv, Finish
  PROVE  EndInv'
<1> DEFINE D == With("done")
           F == With("failed") \cup With("blocked")
<1>1. /\ phase = "synthesizing" /\ phase' = "returned"
      /\ UNCHANGED <<plan, batch, completed, events, round, status, stage, stream>>
      /\ result' = [done |-> Len(InPlanOrder(D)), failed |-> Len(InPlanOrder(F)),
                    completed |-> F = {}]
  BY DEF Finish, run
<1>2. /\ Planned \subseteq Tasks /\ IsFiniteSet(Planned) /\ Cardinality(Planned) = plan.size
      /\ plan.size \in Nat
  BY PlanIsFinite
<1>3. batch = {} /\ \A t \in Tasks : stage[t] \notin InFlight
  BY <1>1 DEF CoordinatorInv, OneBatch
<1>4. D \subseteq Planned /\ F \subseteq Planned /\ D \cap F = {} /\ D \cup F = Planned
  <2>1. \A t \in Planned : status[t] \in {"done", "failed", "blocked"}
    BY <1>1 DEF EndInv, EndsHonestly, SettledRight
  <2>2. QED
    BY <2>1 DEF With
<1>5. completed = D
  <2>1. \A t \in completed : t \in D
    BY <1>2 DEF EndInv, Counted, CoordinatorInv, DependenciesFirst, StatusTells, With
  <2>2. \A t \in D : t \in completed
    BY <1>2, <1>3 DEF EndInv, Counted, CoordinatorInv, StatusTells, With, InFlight
  <2>3. QED
    BY <2>1, <2>2
<1>6. /\ result'.done = Cardinality(D) /\ result'.failed = Cardinality(F)
      /\ result'.completed = (F = {})
  <2>1. Len(InPlanOrder(D)) = Cardinality(D) /\ Len(InPlanOrder(F)) = Cardinality(F)
    BY <1>4, PlanOrder
  <2>2. QED
    BY <1>1, <2>1
<1>7. Cardinality(D) + Cardinality(F) = plan.size
  <2>1. IsFiniteSet(D) /\ IsFiniteSet(F)
    BY <1>2, <1>4, FS_Subset
  <2>2. Cardinality(D \cup F) = Cardinality(D) + Cardinality(F) - Cardinality(D \cap F)
    BY <2>1, FS_Union
  <2>3. Cardinality(D \cap F) = 0
    BY <1>4, FS_EmptySet
  <2>4. Cardinality(D) \in Nat /\ Cardinality(F) \in Nat
    BY <2>1, FS_CardinalityType
  <2>5. Cardinality(D \cup F) = plan.size
    BY <1>2, <1>4
  <2> HIDE DEF D, F
  <2>6. QED
    BY <2>2, <2>3, <2>4, <2>5
<1>8. Len(events) = Cardinality(D)
  BY <1>5, EventsAreTasks DEF EndInv
<1>9. Range(events) = D /\ Range(events) \subseteq Range(stream)
  <2>1. Range(events) = D
    BY <1>5 DEF EndInv, EventsCounted, HandedBack
  <2>2. \A t \in completed : t \in Range(stream)
    BY DEF CoordinatorInv, Typed, DependenciesFirst, Written
  <2>3. QED
    BY <1>5, <2>1, <2>2
<1>10. \A i \in 1..Len(events) : plan.deps[events[i]] \subseteq {events[j] : j \in 1..(i - 1)}
  BY DEF EndInv, EventsCounted, HandedBack
<1>11. With("done")' = D /\ Planned' = Planned
  BY <1>1 DEF With, Planned
<1>12. ResultHonest'
  <2>1. result'.completed <=> D = Planned
    BY <1>4, <1>6
  <2>2. result'.done = Len(events) /\ result'.done + result'.failed = plan.size
    BY <1>6, <1>7, <1>8
  <2> HIDE DEF D
  <2>3. QED
    BY <1>1, <1>9, <1>10, <1>11, <2>1, <2>2 DEF ResultHonest
<1>13. SettledRight'
  BY <1>1, <1>11 DEF EndInv, EndsHonestly, SettledRight
<1>14. Statuses' /\ Counted' /\ EventsCounted'
  BY <1>1 DEF EndInv, Statuses, Counted, EventsCounted, HandedBack, Planned
<1>15. RoundsCounted'
  <2>1. Entered' = Entered
    BY <1>1 DEF Entered, Planned
  <2>2. QED
    BY <1>1, <2>1 DEF EndInv, RoundsCounted
<1>16. QED
  BY <1>12, <1>13, <1>14, <1>15 DEF EndInv, EndsHonestly

\* The loop always ends with every task settled for the right reason, never
\* because its rounds are up, and the caller is told what happened: for every
\* plan, cyclic ones included, and whichever tasks raise.
THEOREM EndIsHonest == Spec => []EndsHonestly
<1>1. Spec => []CoordinatorInv
  BY InvInit, InvStep, PTL DEF Spec
<1>2. CoordinatorInv /\ EndInv /\ [Next]_vars => EndInv'
  <2> SUFFICES ASSUME CoordinatorInv, EndInv, [Next]_vars PROVE EndInv'
    OBVIOUS
  <2>1. CASE UNCHANGED vars
    <3>1. UNCHANGED <<phase, plan, status, stage, stream, batch, completed, events, round,
                      result>>
      BY <2>1 DEF vars, loop, run
    <3>2. /\ Planned' = Planned /\ Entered' = Entered
          /\ With("done")' = With("done")
      BY <3>1 DEF Planned, Entered, With
    <3>3. Statuses' /\ Counted' /\ RoundsCounted' /\ EventsCounted'
      BY <3>1, <3>2 DEF EndInv, Statuses, Counted, RoundsCounted, EventsCounted, HandedBack
    <3>4. SettledRight'
      BY <3>1, <3>2 DEF EndInv, EndsHonestly, SettledRight
    <3>5. ResultHonest'
      BY <3>1, <3>2 DEF EndInv, EndsHonestly, ResultHonest
    <3>6. QED
      BY <3>3, <3>4, <3>5 DEF EndInv, EndsHonestly
  <2>2. CASE Next
    BY <2>2, DecomposeEnd, StartBatchEnd, LeaveLoopEnd, CollectEnd, TaskEnd, FinishEnd
    DEF Next
  <2>3. QED
    BY <2>1, <2>2
<1>3. EndInv => EndsHonestly
  BY DEF EndInv
<1>4. QED
  BY <1>1, <1>2, <1>3, EndInvInit, PTL DEF Spec

=============================================================================
