---------------------------- MODULE Coordinator ----------------------------
(***************************************************************************)
(* One call of workspace.coordinate(goal): a language model splits the     *)
(* goal into tasks that depend on each other, each is given to an agent,   *)
(* and the tasks whose dependencies are completed run together under       *)
(* asyncio.gather, round after round, each writing one event to the shared *)
(* stream (src/walrusos/runtime/coordinator.py, sdk/workspace.py).         *)
(*                                                                         *)
(* A task suspends where it sets its agent's status, recalls memory, asks  *)
(* the model for its contribution, stores it and notifies the event mesh,  *)
(* and there the other tasks of the round run.  A model's failure is the   *)
(* text of the contribution; only storing it can raise.                    *)
(***************************************************************************)
EXTENDS Integers, Sequences, FiniteSets, Functions

CONSTANTS
  MaxTasks,     \* bound on the tasks of a plan
  Plans,        \* the plans a language model may answer with
  Agents,
  Capabilities,
  Chosen,       \* the agents the caller names, if any
  Persisted,    \* the agents with a row in the workspace
  Registry,     \* the in-process registry, in the order of registration
  Advertises    \* the capabilities registered for an agent

Tasks == 1..MaxTasks

\* agent_map: the agents of the call.  With none, coordinate() raises.
Roster == IF Chosen # <<>> THEN Chosen ELSE IF Registry # <<>> THEN Registry ELSE Persisted

\* depends_on holds ids of tasks of the plan only: decompose drops other
\* indices.  Nothing keeps a task from depending on a later one or on itself.
Plan == {p \in [size : Tasks, deps : [Tasks -> SUBSET Tasks]] :
           \A t \in Tasks : p.deps[t] \subseteq 1..p.size}

ASSUME PlansAssumption == MaxTasks \in Nat \ {0} /\ Plans \subseteq Plan
ASSUME AgentsAssumption == /\ Roster \in Seq(Agents) /\ Roster # <<>>
                           /\ Registry \in Seq(Agents)
                           /\ Advertises \in [Agents -> SUBSET Capabilities]

VARIABLES
  phase,      \* how far coordinate() has come
  plan,       \* the tasks and their depends_on
  owner,      \* assigned_to
  status,     \* status of each task
  stage,      \* how far its _run_task has come
  read,       \* the dependencies whose results it gathered for its prompt
  batch,      \* the tasks under gather
  completed,  \* completed_ids
  events,     \* all_events, an event named after the task that wrote it
  round,      \* turns of the loop
  stream,     \* the events written to the stream
  working,    \* the agents shown as working
  unheard,    \* history: the tasks whose agent could not be set to idle
  result      \* the fields tasks_completed, tasks_failed and completed

loop == <<phase, batch, completed, events, round>>
run == <<status, stage, read, stream, working, unheard>>
vars == <<plan, owner, loop, run, result>>

Single == [size |-> 1, deps |-> [t \in Tasks |-> {}]]

Init ==
  /\ phase = "planning"
  /\ plan = Single
  /\ owner = [t \in Tasks |-> Roster[1]]
  /\ status = [t \in Tasks |-> "pending"]
  /\ stage = [t \in Tasks |-> "idle"]
  /\ read = [t \in Tasks |-> {}]
  /\ batch = {}
  /\ completed = {}
  /\ events = <<>>
  /\ round = 0
  /\ stream = <<>>
  /\ working = {}
  /\ unheard = {}
  /\ result = [done |-> 0, failed |-> 0, completed |-> FALSE]

-----------------------------------------------------------------------------
Planned == 1..plan.size

With(s) == {t \in Planned : status[t] = s}

\* The tasks of S, lowest first: a plan lists its tasks in that order.
InPlanOrder(S) ==
  [n \in 1..Cardinality(S) |-> CHOOSE t \in S : Cardinality({u \in S : u <= t}) = n]

\* The first registered agent of this call that advertises the capability,
\* or the first agent of the call.
MatchAgent(capability) ==
  LET candidates == SelectSeq(Registry, LAMBDA a : a \in Range(Roster)
                                                   /\ capability \in Advertises[a])
  IN IF candidates = <<>> THEN Roster[1] ELSE candidates[1]

\* decompose, then match_agent for every task.  A model that fails, or whose
\* answer is not a list, leaves a single task.
Decompose ==
  /\ phase = "planning"
  /\ \E p \in Plans \cup {Single}, requires \in [Tasks -> Capabilities] :
       /\ plan' = p
       /\ owner' = [t \in Tasks |-> MatchAgent(requires[t])]
  /\ phase' = "executing"
  /\ UNCHANGED <<batch, completed, events, round, run, result>>

-----------------------------------------------------------------------------
\* Mistake: no turn for the last task of a chain.
MaxRoundsShort == plan.size - 1

MaxRounds == IF plan.size * 3 > 6 THEN plan.size * 3 ELSE 6

\* Mistake: one completed dependency is enough.
ReadyWithOne ==
  {t \in With("pending") : plan.deps[t] = {} \/ plan.deps[t] \cap completed # {}}

Ready == {t \in With("pending") : plan.deps[t] \subseteq completed}

StartBatch ==
  /\ phase = "executing" /\ round < MaxRounds
  /\ Ready # {}
  /\ batch' = Ready
  /\ stage' = [t \in Tasks |-> IF t \in Ready THEN "scheduled" ELSE stage[t]]
  /\ round' = round + 1
  /\ phase' = "gathering"
  /\ UNCHANGED <<plan, owner, completed, events, status, read, stream,
                 working, unheard, result>>

\* The loop ends: nothing is ready, or no turn is left.
LeaveLoop ==
  /\ phase = "executing"
  /\ round < MaxRounds => Ready = {}
  /\ status' = [t \in Tasks |-> IF t \in With("pending") /\ round < MaxRounds
                                THEN "blocked" ELSE status[t]]
  /\ phase' = "synthesizing"
  /\ UNCHANGED <<plan, owner, batch, completed, events, round, stage, read,
                 stream, working, unheard, result>>

\* Mistake: a coroutine that raised never counts as over.
OverReturned(t) == stage[t] = "returned"

\* return_exceptions=True: gather waits for all, those that raise as well.
Over(t) == stage[t] \in {"returned", "raised"}

\* Mistake: a task that raised is tried again in the next round.
OutcomeRetry(t) == IF stage[t] = "raised" THEN "pending" ELSE status[t]

Outcome(t) == IF stage[t] = "raised" THEN "failed" ELSE status[t]

\* gather returns, and the results are taken in the order of the plan.
Collect ==
  /\ phase = "gathering"
  /\ \A t \in batch : Over(t)
  /\ LET done == {t \in batch : Outcome(t) = "done"} IN
       /\ completed' = completed \cup done
       /\ events' = events \o InPlanOrder(done)
  /\ status' = [t \in Tasks |-> IF t \in batch THEN Outcome(t) ELSE status[t]]
  /\ batch' = {}
  /\ phase' = IF \A t \in Planned : status'[t] \in {"done", "failed", "blocked"}
              THEN "synthesizing" ELSE "executing"
  /\ UNCHANGED <<plan, owner, round, stage, read, stream, working, unheard, result>>

-----------------------------------------------------------------------------
(***************************************************************************)
(* _run_task.                                                              *)
(***************************************************************************)
Begin(t) ==
  /\ stage[t] = "scheduled"
  /\ stage' = [stage EXCEPT ![t] = "begun"]
  /\ status' = [status EXCEPT ![t] = "in_progress"]
  /\ UNCHANGED <<plan, owner, loop, read, stream, working, unheard, result>>

\* set_status("working"), whose failure is ignored, and the prompt: the result
\* of every dependency that has one is gathered for it.  Of more than 1000
\* characters of results it holds what its budget of 250 tokens has room for,
\* and may hold none: what is cut off there is not modelled.
Prompt(t) ==
  /\ stage[t] = "begun"
  /\ stage' = [stage EXCEPT ![t] = "prompted"]
  /\ read' = [read EXCEPT ![t] = {d \in plan.deps[t] : status[d] = "done"}]
  /\ working' \in {working, working \cup {owner[t]}}
  /\ UNCHANGED <<plan, owner, loop, status, stream, unheard, result>>

\* _write_event commits the contribution.
Write(t) ==
  /\ stage[t] = "prompted"
  /\ stage' = [stage EXCEPT ![t] = "written"]
  /\ stream' = Append(stream, t)
  /\ UNCHANGED <<plan, owner, loop, status, read, working, unheard, result>>

\* It may raise before it has committed, and after: when the counters are
\* updated, the agent is replayed or the event is read back.
Raise(t) ==
  /\ stage[t] \in {"prompted", "written"}
  /\ stage' = [stage EXCEPT ![t] = "raised"]
  /\ UNCHANGED <<plan, owner, loop, status, read, stream, working, unheard, result>>

\* _write_event returns, and the result of the task can be read.
Report(t) ==
  /\ stage[t] = "written"
  /\ stage' = [stage EXCEPT ![t] = "reporting"]
  /\ status' = [status EXCEPT ![t] = "done"]
  /\ UNCHANGED <<plan, owner, loop, read, stream, working, unheard, result>>

\* Mistake: only the last task of the round sets its agent to idle.
ReturnLast(t) ==
  /\ stage[t] = "reporting"
  /\ stage' = [stage EXCEPT ![t] = "returned"]
  /\ working' = IF \A u \in batch \ {t} : stage[u] \in {"returned", "raised"}
                THEN working \ {owner[t]} ELSE working
  /\ UNCHANGED <<plan, owner, loop, status, read, stream, unheard, result>>

\* set_status("idle"), whose failure is ignored, and the notification.
Return(t) ==
  /\ stage[t] = "reporting"
  /\ stage' = [stage EXCEPT ![t] = "returned"]
  /\ \/ working' = working \ {owner[t]} /\ UNCHANGED unheard
     \/ unheard' = unheard \cup {t} /\ UNCHANGED working
  /\ UNCHANGED <<plan, owner, loop, status, read, stream, result>>

-----------------------------------------------------------------------------
\* synthesize, and the CoordinationResult.
Finish ==
  /\ phase = "synthesizing"
  /\ phase' = "returned"
  /\ LET failed == With("failed") \cup With("blocked") IN
       result' = [done |-> Len(InPlanOrder(With("done"))),
                  failed |-> Len(InPlanOrder(failed)),
                  completed |-> failed = {}]
  /\ UNCHANGED <<plan, owner, batch, completed, events, round, run>>

Step(t) == Begin(t) \/ Prompt(t) \/ Write(t) \/ Raise(t) \/ Report(t) \/ Return(t)

Next == \/ Decompose
        \/ StartBatch
        \/ LeaveLoop
        \/ Collect
        \/ \E t \in Tasks : Step(t)
        \/ Finish

Spec == Init /\ [][Next]_vars

(***************************************************************************)
(* Every await ends: the model's answer after 30 or 60 seconds             *)
(* (runtime/llm.py:80, 117), a blob after the service's retries, an anchor *)
(* after its timeout, the bridge after 2 seconds.                          *)
(***************************************************************************)
FairSpec == Spec /\ WF_vars(Next)

-----------------------------------------------------------------------------
Stage == {"idle", "scheduled", "begun", "prompted", "written", "reporting",
          "returned", "raised"}
Status == {"pending", "in_progress", "done", "failed", "blocked"}

\* The variables have their types.  Every task is given to an agent of the
\* call, so that _run_task finds it (coordinator.py:202-205) and coordinate()
\* blocks no task for want of one.
TypeOK ==
  /\ phase \in {"planning", "executing", "gathering", "synthesizing", "returned"}
  /\ plan \in Plan
  /\ owner \in [Tasks -> Range(Roster)]
  /\ status \in [Tasks -> Status]
  /\ stage \in [Tasks -> Stage]
  /\ read \in [Tasks -> SUBSET Tasks]
  /\ batch \subseteq Planned
  /\ batch # {} <=> phase = "gathering"
  /\ completed \subseteq Planned
  /\ events \in Seq(Tasks)
  /\ round \in 0..MaxRounds
  /\ stream \in Seq(Tasks)
  /\ working \subseteq Agents
  /\ unheard \subseteq Tasks
  /\ result \in [done : 0..MaxTasks, failed : 0..MaxTasks, completed : BOOLEAN]

\* A task that has been given its prompt has gathered the result of every task
\* it depends on (coordinator.py:229-232 skips a dependency without one), and
\* each of those results is in the stream already.
DependenciesRead ==
  \A t \in Tasks : stage[t] \notin {"idle", "scheduled", "begun"} =>
    /\ read[t] = plan.deps[t]
    /\ plan.deps[t] \subseteq Range(stream)

\* No task writes to the stream twice, and an event comes after those of all
\* the tasks its task depends on, however the tasks of a round interleave.
StreamInOrder ==
  \A i \in 1..Len(stream) :
    /\ \A j \in 1..(i - 1) : stream[j] # stream[i]
    /\ plan.deps[stream[i]] \subseteq {stream[j] : j \in 1..(i - 1)}

\* The loop is never cut off by its bound: it ends with every task settled.
\* Those that are blocked never ran, each because of a task that is not done;
\* those that ran had all their dependencies done.
SettledRight ==
  phase \in {"synthesizing", "returned"} =>
    \A t \in Planned :
      /\ status[t] \in {"done", "failed", "blocked"}
      /\ status[t] = "blocked" <=> \E d \in plan.deps[t] : status[d] # "done"
      /\ status[t] = "blocked" => stage[t] = "idle"

\* What the caller is told: the goal is completed just when every task wrote
\* its event and reported it, and the events handed back are those of the
\* tasks that are done, each after the ones it depends on.
ResultHonest ==
  phase = "returned" =>
    /\ result.completed <=> With("done") = Planned
    /\ result.done = Len(events) /\ result.done + result.failed = plan.size
    /\ Range(events) = With("done") /\ Range(events) \subseteq Range(stream)
    /\ \A i \in 1..Len(events) :
         plan.deps[events[i]] \subseteq {events[j] : j \in 1..(i - 1)}

\* How the call ends and what its caller is told of it.
EndsHonestly == SettledRight /\ ResultHonest

\* After the call an agent is shown working only if one of its tasks failed
\* on the way (coordinator.py:289-307 sets it to idle after a success only)
\* or could not set it to idle, even if it had several tasks at a time.
RestedAtEnd ==
  phase = "returned" =>
    \A a \in working :
      \E t \in Planned : owner[t] = a /\ (status[t] = "failed" \/ t \in unheard)

\* coordinate() returns, whatever the plan and whichever tasks fail.
CoordinateReturns == <>(phase = "returned")
=============================================================================
