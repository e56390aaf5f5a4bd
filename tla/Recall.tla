------------------------------- MODULE Recall -------------------------------
(***************************************************************************)
(* What agents are told of a stream: checkpoints that summarise it         *)
(* (engine/summarizer.py), the contexts built of it (engine/context.py),   *)
(* the queries behind latest and its like (engine/search.py), and the      *)
(* autonomous loop that prompts agents with them (runtime/autonomous.py),  *)
(* over the streams of MemoryStream, while others write to them.           *)
(*                                                                         *)
(* A memory's text is its event's id; a summary stands for the events it   *)
(* was made of.                                                            *)
(***************************************************************************)
EXTENDS MemoryStream

CONSTANTS
  Mixes,    \* how many jobs make which operations, and the turns of a run
  Recent    \* how many raw events a context has: 10 in the code

ASSUME RecentAssumption == Recent \in Nat

VARIABLES
  mix,      \* the one this behaviour has
  text,     \* what the event each SDK job writes is, and is made of
  run       \* an autonomous run on one stream

recallVars == <<mix, text, run>>

IdsIn(rows) == {rows[i].id : i \in DOMAIN rows}
Memory == [type |-> "memory", covers |-> {}, seen |-> {}]
Note == [Memory EXCEPT !.type = "summary"]

\* Mistake: whatever is of type "summary" counts as a checkpoint.
HasType(row) == text[row.id[1]].type # "memory"

\* An event of type "summary" with the tag "checkpoint".
IsCheckpoint(row) == text[row.id[1]].type = "checkpoint"

\* The events of a timeline after its last checkpoint.
Since(rows) ==
  LET last == Max({0} \cup {i \in DOMAIN rows : IsCheckpoint(rows[i])})
  IN SubSeq(rows, last + 1, Len(rows))

LastOf(rows, n) == SubSeq(rows, Max({1, Len(rows) - n + 1}), Len(rows))

\* The rows at a set of places, in their order.
RowsAt(rows, places) ==
  [n \in 1 .. Cardinality(places) |->
     rows[CHOOSE i \in places : Cardinality({k \in places : k <= i}) = n]]
------------------------------------------------------------------------------
(* Queries. *)

\* Mistake: the oldest come first.
OldestFirst(s) == Timeline(s)

\* ORDER BY epoch DESC: ties come as they were inserted.
ByEpochDesc(s) ==
  LET PlaceDesc(i) ==
        Cardinality({k \in DOMAIN events[s] : \/ events[s][k].epoch > events[s][i].epoch
                                              \/ events[s][k].epoch = events[s][i].epoch /\ k <= i})
  IN [n \in DOMAIN events[s] |-> events[s][CHOOSE i \in DOMAIN events[s] : PlaceDesc(i) = n]]

\* latest, by_agent, by_type and by_tag: n of the rows wanted, turned around.
Newest(s, wanted, n) ==
  LET rows == ByEpochDesc(s)
  IN LastOf(Reverse(RowsAt(rows, {i \in DOMAIN rows : rows[i] \in wanted})), n)

Latest(s, n) == Newest(s, ToSet(events[s]), n)

\* StreamClient.replay: a window of epochs, the position standing in for a 0.
Window(s, from, upTo) ==
  LET rows == Timeline(s)
      EpochAt(i) == IF rows[i].epoch = 0 THEN i ELSE rows[i].epoch
  IN RowsAt(rows, {i \in DOMAIN rows : EpochAt(i) \in from .. upTo})

\* MemoryEngine.summarize: a digest of the last n events.
Digest(s, n) == LastOf(Timeline(s), n)

IsMemory(row) == text[row.id[1]].type = "memory"
Memories(rows) == RowsAt(rows, {i \in DOMAIN rows : IsMemory(rows[i])})

\* TokenBudget.add, until the first line that is refused; all lines cost the same.
Within(lines, room) == SubSeq(lines, 1, Min({room, Len(lines)}))

\* build_context, "latest": the events that fit, from the oldest of them on, and
\* then turned around.
LatestContext(s, room) == Reverse(Within(Latest(s, 50), room))

\* rank_events, of memories alike in type and importance: those that match the
\* query, then the others.  An event's time is the one it is read at, so the
\* later in the timeline comes first.
Ranked(memories, match) ==
  LET found == {i \in DOMAIN memories : memories[i].id \in match}
  IN Reverse(RowsAt(memories, found)) \o Reverse(RowsAt(memories, DOMAIN memories \ found))

\* The checkpoint of a recall is one of greatest epoch, the first of several:
\* the first of all, since the SDK gives all of them the epoch 0.
RecallCheckpoint(rows) == Within(RowsAt(rows, {i \in DOMAIN rows : IsCheckpoint(rows[i])}), 1)

\* The two memories that it guarantees, by epoch, latest first.
RecallRecent(s) == Within(Memories(ByEpochDesc(s)), 2)

\* build_recall_context: the checkpoint, the ranked memories, the recent ones.
RecallContext(s, match, room) ==
  LET rows == Timeline(s)
      fits == Within(RecallCheckpoint(rows) \o Ranked(Memories(rows), match), room)
      recent == RecallRecent(s)
  IN Within(fits \o RowsAt(recent, {i \in DOMAIN recent : recent[i] \notin ToSet(fits)}), room)

\* build_context, "smart": the last checkpoint's summary and the last few
\* events after it, room for all of them.
SmartContext(s) ==
  LET rows == Timeline(s)
      made == UNION {text[rows[i].id[1]].covers :
                       i \in {k \in DOMAIN rows : /\ IsCheckpoint(rows[k])
                                                  /\ Since(rows) = SubSeq(rows, k + 1, Len(rows))}}
  IN made \cup IdsIn(LastOf(Since(rows), Recent))
------------------------------------------------------------------------------
(* Writers. *)

\* StreamClient.append, of a memory or a summary of one's own.
Remember(j, s) ==
  /\ BeginSdk(j, s)
  /\ \E what \in {Memory, Note} : text' = [text EXCEPT ![j] = what]

\* create_checkpoint, auto_checkpoint as well: the timeline is read, and the
\* summary of what is new in it written like any other event.
Summarise(j, s) ==
  /\ Since(Timeline(s)) # <<>>
  /\ BeginSdk(j, s)
  /\ text' = [text EXCEPT ![j] = [type |-> "checkpoint", covers |-> IdsIn(Since(Timeline(s))),
                                  seen |-> IdsIn(Timeline(s))]]

(* AutonomousRuntime.run. *)

NoRun == [at |-> "off", stream |-> Genesis, turns |-> 0, job |-> "none", made |-> {}, told |-> {}]

StartRun(s) ==
  /\ run.at = "off" /\ mix.turns > 0 /\ s \in known
  /\ run' = [run EXCEPT !.at = "turn", !.stream = s, !.turns = mix.turns]
  /\ UNCHANGED <<vars, text>>

\* The next agent's prompt; a context that cannot be built is left out of it.
Prompt ==
  /\ run.at = "turn"
  /\ \/ run' = [run EXCEPT !.at = "told", !.told = SmartContext(run.stream)]
     \/ run' = [run EXCEPT !.at = "blind", !.told = {}]
  /\ UNCHANGED <<vars, text>>

\* What it answered is written; an agent that may not write raises.
Contribute(j) ==
  /\ run.at \in {"told", "blind"}
  /\ BeginSdk(j, run.stream)
  /\ text' = [text EXCEPT ![j] = Memory]
  /\ run' = [run EXCEPT !.at = "writing", !.job = j, !.turns = @ - 1, !.told = {}]

\* The write is over: the next turn, unless the answer said DONE.
Contributed ==
  /\ run.at = "writing" /\ stage[run.job] = "ok"
  /\ \E at \in (IF run.turns > 0 THEN {"turn", "close"} ELSE {"close"}) :
       run' = [run EXCEPT !.at = at, !.made = @ \cup {<<run.job, 1>>}]
  /\ UNCHANGED <<vars, text>>

RunRaises ==
  /\ \/ run.at \in {"told", "blind"}
     \/ run.at = "writing" /\ stage[run.job] \in {"failed", "lost"}
  /\ run' = [run EXCEPT !.at = "raised"]
  /\ UNCHANGED <<vars, text>>

\* The run's own checkpoint, whose failure is ignored.
CloseRun ==
  /\ run.at = "close"
  /\ run' = [run EXCEPT !.at = "ended"]
  /\ \/ \E j \in Jobs : Summarise(j, run.stream)
     \/ UNCHANGED <<vars, text>>
------------------------------------------------------------------------------
Begun == {j \in Jobs : stage[j] # "idle"}

\* A step of MemoryStream with the jobs and operations of the mix.
InMix ==
  /\ \A j \in Jobs : stage[j] = "idle" /\ stage'[j] # "idle" =>
       job'[j].kind \in mix.kinds /\ Cardinality(Begun) < mix.jobs
  /\ \A e \in Engines : Crash(e) => mix.turns = 0

Rest ==
  /\ Cardinality(Begun) = mix.jobs
  /\ \A j \in Begun : stage[j] \in {"ok", "failed", "lost"}
  /\ UNCHANGED <<vars, text, run>>

RecallInit ==
  /\ Init
  /\ mix \in Mixes
  /\ text = [j \in Jobs |-> Memory]
  /\ run = NoRun

RecallNext ==
  /\ UNCHANGED mix
  /\ \/ Next /\ UNCHANGED <<text, run>>
     \/ mix.turns > 0 /\ \E j \in Jobs, s \in Streams : (Remember(j, s) \/ Summarise(j, s)) /\ UNCHANGED run
     \/ \E s \in Streams : StartRun(s)
     \/ Prompt \/ Contributed \/ RunRaises \/ CloseRun
     \/ \E j \in Jobs : Contribute(j)
     \/ Rest
  /\ InMix

RecallSpec == RecallInit /\ [][RecallNext]_<<vars, recallVars>>
------------------------------------------------------------------------------
(* Properties. *)

Summarises(row) == text[row.id[1]].covers # {}
Checkpoints(s) == {row \in ToSet(events[s]) : Summarises(row)}

\* It was written while a checkpoint that had not seen it was under way.
SlippedBy(s, i) ==
  \E k \in DOMAIN events[s] : /\ i < k /\ Summarises(events[s][k])
                              /\ events[s][i].id \notin text[events[s][k].id[1]].seen

Summarised(s, id) == \E row \in Checkpoints(s) : id \in text[row.id[1]].covers

\* Whatever lies before the last checkpoint of a timeline, where contexts no
\* longer look, is in a summary: of that checkpoint, or of an earlier one.  Only
\* an event written between a checkpoint's reading and its writing may slip by
\* (summarizer.py:44 and 62).
NothingForgotten ==
  \A s \in Streams : \A i \in DOMAIN events[s] :
    LET row == events[s][i]
    IN \/ row \in ToSet(Since(Timeline(s)))
       \/ Summarises(row)
       \/ Summarised(s, row.id)
       \/ SlippedBy(s, i)

\* Each agent of a run is told, with its prompt, what the run has contributed
\* before: as it is, or in the last summary.  It may miss what slipped by a
\* checkpoint that others made, what is in an older summary, and what has more
\* than Recent events after it.
RunIsToldItself ==
  [][run.at = "turn" /\ run'.at = "told" =>
       LET s == run.stream
       IN \A i \in DOMAIN events[s] :
            LET id == events[s][i].id
            IN id \in run.made =>
                 \/ id \in run'.told
                 \/ SlippedBy(s, i)
                 \/ Summarised(s, id) /\ Cardinality(Checkpoints(s)) > 1
                 \/ Len(Since(Timeline(s))) > Recent]_run

\* Where one engine numbered the stream, or only the SDK wrote to it.
InOrder(s) ==
  OneEngine(s) \/ \A i \in DOMAIN events[s] : job[events[s][i].id[1]].kind = "sdk"

\* In a stream that one engine numbered, latest returns the events committed
\* last, in their order, a recall guarantees the last two, and a context has the
\* last 50.  In one where only the SDK wrote as well, a window of epochs holds the
\* events at those positions, a digest is of the last events, and a recall whose
\* query matches nothing has the memories committed last, as many as there is
\* room for.
ReadsNewest ==
  \A s \in Streams : LET rows == events[s] IN
    /\ OneEngine(s) =>
         /\ \A n \in 1 .. Len(rows) + 1 : Latest(s, n) = LastOf(rows, n)
         /\ RecallRecent(s) = Reverse(LastOf(rows, 2))
         /\ LatestContext(s, Len(rows)) = Reverse(LastOf(rows, 50))
    /\ InOrder(s) =>
         /\ \A from \in 1 .. Len(rows) + 1, upTo \in 1 .. Len(rows) + 1 :
              Window(s, from, upTo) = SubSeq(rows, from, Min({upTo, Len(rows)}))
         /\ \A n \in 1 .. Len(rows) + 1 : Digest(s, n) = LastOf(rows, n)
         /\ \A room \in 1 .. Len(rows) + 1 : LET first == RecallCheckpoint(rows) IN
              RecallContext(s, {}, room) =
                first \o Reverse(LastOf(Memories(rows), room - Len(first)))
==============================================================================
