---------------------------- MODULE Collaboration ----------------------------
(***************************************************************************)
(* The patterns of runtime/collaboration.py over the event mesh: Pipeline, *)
(* Broadcast and Consensus, several at a time on one stream.               *)
(*                                                                         *)
(* A pattern subscribes a callback for one agent (a pipeline: for every    *)
(* agent after the first) that keeps the events of the agents it waits     *)
(* for, takes them one at a time with a timeout, and in the end            *)
(* unsubscribes these agents.                                              *)
(***************************************************************************)
EXTENDS EventMesh

CONSTANTS
  Jobs,
  Kind,      \* of each job: "pipeline", "broadcast" or "vote"
  Members    \* of each job: its agents; a broadcast's source comes first

ASSUME KindAssumption == \A j \in Jobs : Kind[j] \in {"pipeline", "broadcast", "vote"}
ASSUME MembersAssumption == \A j \in Jobs : Members[j] \in Seq(Agents) /\ Len(Members[j]) > 1

VARIABLES
  job,     \* the state of each job
  inbox    \* the queue of each callback that a job subscribes

vars == <<meshVars, job, inbox>>

Size(j) == Len(Members[j])
Waiters(j) == IF Kind[j] = "pipeline" THEN 2 .. Size(j) ELSE {1}
JobOwners == UNION {{<<j, i>> : i \in Waiters(j)} : j \in Jobs}
Fresh == [stage |-> "idle", step |-> 1, start |-> 0, end |-> 0, got |-> <<>>, sent |-> <<>>,
          cut |-> FALSE, result |-> FALSE]

\* Whose events the callback keeps, and how many the job waits for.
Awaited(o) ==
  LET m == Members[o[1]]
  IN CASE Kind[o[1]] = "pipeline" -> {m[o[2] - 1]}
       [] Kind[o[1]] = "broadcast" -> ToSet(Tail(m))
       [] Kind[o[1]] = "vote" -> ToSet(m)
Wanted(j) == IF Kind[j] = "broadcast" THEN Size(j) - 1 ELSE Size(j)

\* The callback that the job waits on now.
Current(j) == <<j, IF Kind[j] = "pipeline" THEN job[j].step ELSE 1>>
------------------------------------------------------------------------------
\* Mistake: a stage of a pipeline subscribes when its turn comes.
StartFirstOnly(j) ==
  /\ job[j] = Fresh
  /\ SubscribeCallbacks(IF Kind[j] = "pipeline" THEN {} ELSE {<<Members[j][1], <<j, 1>>>>})
  /\ job' = [job EXCEPT ![j].stage = IF Kind[j] = "vote" THEN "wait" ELSE "send",
                        ![j].start = Len(published)]
  /\ UNCHANGED inbox

\* Every subscription comes before the first event of the job.
Start(j) ==
  /\ job[j] = Fresh
  /\ SubscribeCallbacks({<<Members[j][i], <<j, i>>>> : i \in Waiters(j)})
  /\ job' = [job EXCEPT ![j].stage = IF Kind[j] = "vote" THEN "wait" ELSE "send",
                        ![j].start = Len(published)]
  /\ UNCHANGED inbox

\* The agent of the step publishes; its publish returns after the posts.
Send(j) ==
  /\ job[j].stage = "send"
  /\ Publish(Members[j][job[j].step], FALSE)
  /\ job' = [job EXCEPT ![j].stage = "sending", ![j].sent = Append(@, Len(published) + 1)]
  /\ UNCHANGED inbox

\* publish raises, for lack of a capability say.
PublishFails(j) ==
  /\ job[j].stage = "send"
  /\ job' = [job EXCEPT ![j].stage = "fail"]
  /\ UNCHANGED <<meshVars, inbox>>

Sent(j) ==
  /\ job[j].stage = "sending"
  /\ posts[Members[j][job[j].step]] = 0
  /\ job' = [job EXCEPT ![j].stage = IF Kind[j] = "broadcast" \/ job[j].step < Size(j)
                                       THEN "wait" ELSE "leave",
                        ![j].step = IF Kind[j] = "pipeline" /\ @ < Size(j) THEN @ + 1 ELSE @]
  /\ UNCHANGED <<meshVars, inbox>>

\* The event is kept when it is of an agent that the job waits for.
Run(t) ==
  LET o == t[1]
      e == t[2]
  IN /\ inbox' = IF published[e].by \in Awaited(o) THEN [inbox EXCEPT ![o] = Append(@, e)] ELSE inbox
     /\ tasks' = tasks \ {t}
     /\ UNCHANGED <<callbacks, places, queueOf, queues, published, posts, watch, polled, taken,
                    since, ops, job>>

\* Mistake: the newest callbacks run first.
RunNewestCallback ==
  \E t \in tasks : (\A u \in tasks : u[2] <= t[2]) /\ Run(t)

\* Scheduled callbacks run in order: those of one event before the next one's.
RunCallback ==
  \E t \in tasks : (\A u \in tasks : t[2] <= u[2]) /\ Run(t)

Take(j) ==
  LET o == Current(j)
  IN /\ job[j].stage = "wait"
     /\ inbox[o] # <<>>
     /\ inbox' = [inbox EXCEPT ![o] = Tail(@)]
     /\ job' = [job EXCEPT ![j].got = Append(@, Head(inbox[o])),
                           ![j].stage = IF Kind[j] = "pipeline" THEN "send"
                                        ELSE IF Len(job[j].got) + 1 = Wanted(j) THEN "leave" ELSE "wait"]
     /\ UNCHANGED meshVars

\* Half a minute and more: whatever was scheduled has run by then.  A
\* pipeline raises, the others go on with what they have.
TimesOut(j) ==
  LET o == Current(j)
  IN /\ job[j].stage = "wait"
     /\ inbox[o] = <<>>
     /\ ~\E t \in tasks : t[1] = o
     /\ job' = [job EXCEPT ![j].stage = IF Kind[j] = "pipeline" THEN "raise" ELSE "leave",
                           ![j].end = Len(published), ![j].cut = o \in taken]
     /\ UNCHANGED <<meshVars, inbox>>

\* The finally clause, and for a vote the count: an answer that cannot be
\* read is no vote, but it is counted in the total.
Leave(j) ==
  /\ job[j].stage \in {"leave", "raise", "fail"}
  /\ Drop({Members[j][i] : i \in Waiters(j)})
  /\ \E unread \in SUBSET ToSet(job[j].got) :
       LET yes == {e \in ToSet(job[j].got) : published[e].yes /\ e \notin unread}
           total == IF job[j].got = <<>> THEN 1 ELSE Len(job[j].got)
       IN job' = [job EXCEPT ![j].stage = CASE @ = "leave" -> "done" [] @ = "raise" -> "raised"
                                                 [] @ = "fail" -> "failed",
                             ![j].result = Kind[j] = "vote" /\ 2 * Cardinality(yes) > total]
  /\ UNCHANGED <<queues, tasks, published, posts, watch, polled, ops, inbox>>

\* An agent writes to the stream for reasons of its own: a vote perhaps, when
\* one is being taken.
Voting == \E j \in Jobs : Kind[j] = "vote" /\ job[j].stage = "wait"

Write(a) ==
  /\ \E yes \in BOOLEAN : (yes => Voting) /\ Publish(a, yes)
  /\ UNCHANGED <<job, inbox>>
------------------------------------------------------------------------------
Init ==
  /\ MeshInit
  /\ job = [j \in Jobs |-> Fresh]
  /\ inbox = [o \in JobOwners |-> <<>>]

Next ==
  \/ \E j \in Jobs : Start(j) \/ Send(j) \/ PublishFails(j) \/ Sent(j) \/ Take(j) \/ TimesOut(j) \/ Leave(j)
  \/ RunCallback
  \/ \E a \in Agents : Write(a)
  \/ MeshStep /\ UNCHANGED <<job, inbox>>
  \/ \E a \in Agents : Unsubscribe(a) /\ UNCHANGED <<job, inbox>>

Spec == Init /\ [][Next]_vars
------------------------------------------------------------------------------
(* Properties. *)

\* The events that a callback waits for, from its job's start to event number n.
Answers(o, n) == {e \in job[o[1]].start + 1 .. n : published[e].by \in Awaited(o)}

Increasing(s) == \A i, k \in DOMAIN s : i < k => s[i] < s[k]

\* What the job has are the first answers, in order, and they are all there
\* were if it has fewer than it wants and nobody took its subscription away.
FirstAnswers(j) ==
  LET got == job[j].got
      all == Answers(<<j, 1>>, Len(published))
  IN /\ Increasing(got) /\ ToSet(got) \subseteq all
     /\ \A e \in all \ ToSet(got), i \in DOMAIN got : got[i] < e
     /\ Len(got) <= Wanted(j)
     /\ Len(got) < Wanted(j) => job[j].cut \/ ToSet(got) = Answers(<<j, 1>>, job[j].end)

\* A vote or a broadcast returns the first answers after its start, as many
\* as it has agents, in order: fewer only when there were no more before a
\* timeout, or when another pattern, a watch or the agent itself took its
\* subscription away.  A vote that says yes has more than half of them.
AnswersComplete ==
  \A j \in Jobs : Kind[j] # "pipeline" /\ job[j].stage \in {"leave", "done"} =>
    LET got == job[j].got
    IN /\ FirstAnswers(j)
       /\ job[j].result => 2 * Cardinality({e \in ToSet(got) : published[e].yes}) > Len(got)

\* A pipeline's stages publish in order, each after it has seen an event of
\* the stage before that is no older than the pipeline; and it times out
\* only when the subscription of the waiting stage was taken away.
InStages(j) ==
  LET s == job[j]
  IN /\ \A i \in DOMAIN s.sent : published[s.sent[i]].by = Members[j][i]
     /\ \A i \in DOMAIN s.got :
          /\ s.start < s.got[i] /\ published[s.got[i]].by = Members[j][i]
          /\ i + 1 \in DOMAIN s.sent => s.got[i] < s.sent[i + 1] /\ s.sent[i] < s.sent[i + 1]
     /\ s.stage \in {"raise", "raised"} => s.cut

PipelineRuns == \A j \in Jobs : Kind[j] = "pipeline" => InStages(j)
==============================================================================
