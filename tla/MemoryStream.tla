---------------------------- MODULE MemoryStream ----------------------------
(***************************************************************************)
(* MemoryEngine (src/walrusos/engine/memory.py) over the memory_streams    *)
(* and memory_events tables of SQLiteLedger: appending, forking, merging,  *)
(* checkpoints, snapshots and deletion of streams, by the coroutines of    *)
(* one or more engines, each with its own cache of epoch numbers, together *)
(* with the events the SDK writes to the same tables through the event     *)
(* store.                                                                  *)
(*                                                                         *)
(* A coroutine suspends only while it stores or retrieves a Walrus blob;   *)
(* everything it does between two suspensions is one step.                 *)
(***************************************************************************)
EXTENDS Integers, Sequences, FiniteSets, SequencesExt

CONSTANTS
  Jobs,       \* calls of the engine's operations; each is made at most once
  Engines,    \* MemoryEngine instances over the one database
  EngineOf,   \* the engine a job calls
  Streams,    \* stream ids, those create_stream will draw included
  Registered, \* the streams that exist from the start
  Kinds       \* the operations in use

AllKinds == {"append", "sdk", "fork", "merge", "delete",
             "checkpoint", "resume", "snapshot", "restore"}

ASSUME JobsAssumption == EngineOf \in [Jobs -> Engines]
ASSUME StreamsAssumption == Registered \subseteq Streams
ASSUME KindsAssumption == Kinds \subseteq AllKinds

Genesis == "genesis"    \* the parent of a stream's first event
Blank == "{}"           \* the payload timeline reports for a row that is gone
Cold == -1              \* the stream is not in the engine's epoch cache

VARIABLES
  stage,      \* where each job is
  job,        \* its operation, its stream, and its local variables
  events,     \* table memory_events: each stream's rows, in insertion order
  head,       \* column head_event_id of memory_streams
  counter,    \* column epoch_counter of memory_streams
  cache,      \* MemoryEngine._epochs
  saved,      \* checkpoint and snapshot blobs at Walrus
  known,      \* streams whose id a caller has
  contended   \* history: streams on which two jobs were ever under way at once

vars == <<stage, job, events, head, counter, cache, saved, known, contended>>

Stage == {"idle", "storing", "retrieving", "ok", "failed", "lost"}
Waiting == {"storing", "retrieving"}

(***************************************************************************)
(* An event id is a hash over a random nonce (_event_id), so the k-th      *)
(* event a job writes is simply new: <<j, k>>.                             *)
(***************************************************************************)
EventId == Jobs \X Nat
Parent == EventId \cup {<<Genesis, 0>>}
Content == Jobs \cup {Blank}

\* parents: the ids in a row's parent_id, two of them for a merge.
Event == [id : EventId, parents : SUBSET Parent, epoch : Nat, content : Content]

Blob == [kind : {"checkpoint", "snapshot"}, stream : Streams, epoch : Nat,
         rows : Seq(Event)]

(***************************************************************************)
(* parents is what the job read of heads before it suspended; todo, the    *)
(* payloads it has yet to write (one, but for restore_snapshot); blob, the *)
(* checkpoint or snapshot it is about to store, or has asked for.          *)
(***************************************************************************)
NoBlob == [kind |-> "none"]
Job == [kind : Kinds \cup {"none"}, stream : Streams \cup {Genesis},
        parents : SUBSET Parent, todo : Seq(Content), written : Nat,
        blob : Blob \cup {NoBlob}]

NoJob == [kind |-> "none", stream |-> Genesis, parents |-> {}, todo |-> << >>,
          written |-> 0, blob |-> NoBlob]

Init ==
  /\ stage = [j \in Jobs |-> "idle"]
  /\ job = [j \in Jobs |-> NoJob]
  /\ events = [s \in Streams |-> << >>]
  /\ head = [s \in Streams |-> <<Genesis, 0>>]
  /\ counter = [s \in Streams |-> 0]
  /\ cache = [e \in Engines |-> [s \in Streams |-> Cold]]
  /\ saved = {}
  /\ known = Registered
  /\ contended = {}

IdsOf(s) == {events[s][i].id : i \in DOMAIN events[s]}
AllIds == UNION {IdsOf(s) : s \in Streams}

\* The SDK's events are in the log too, where deletions do not reach.
Logged == {<<j, 1>> : j \in {k \in Jobs : job[k].kind = "sdk" /\ job[k].written = 1}}

\* get_event: a memory event's row, or else a row of the log.
Found == AllIds \cup Logged

\* The place of the i-th row by epoch, ties as inserted.
Place(s, i) ==
  Cardinality({k \in DOMAIN events[s] : \/ events[s][k].epoch < events[s][i].epoch
                                        \/ events[s][k].epoch = events[s][i].epoch /\ k <= i})

\* timeline: list_events orders by epoch, and SQLite leaves ties as inserted.
Timeline(s) ==
  [n \in DOMAIN events[s] |-> events[s][CHOOSE i \in DOMAIN events[s] : Place(s, i) = n]]

Contents(rows) == [i \in DOMAIN rows |-> rows[i].content]

\* Jobs under way that will write to stream s.
Writers(s) == {j \in Jobs : /\ stage[j] \in Waiting
                            /\ job[j].stream = s
                            /\ job[j].todo # << >>}

\* create_stream draws a UUID4 no one has seen.
Unborn(s) == /\ s \notin known
             /\ \A j \in Jobs : job[j].stream # s

-----------------------------------------------------------------------------
\* A job enters the engine and suspends.
Start(j, record, at) ==
  /\ stage[j] = "idle"
  /\ record.kind \in Kinds
  /\ job' = [job EXCEPT ![j] = record]
  /\ stage' = [stage EXCEPT ![j] = at]

\* It is about to write to stream s.
Claim(s) == contended' = IF Writers(s) = {} THEN contended ELSE contended \cup {s}

Writing(j, kind, s, parents) ==
  [kind |-> kind, stream |-> s, parents |-> parents, todo |-> <<j>>,
   written |-> 0, blob |-> NoBlob]

\* append: the head is read before the payload is uploaded.
BeginAppend(j, s) ==
  /\ s \in known
  /\ Start(j, Writing(j, "append", s, {head[s]}), "storing")
  /\ Claim(s)
  /\ UNCHANGED <<events, head, counter, cache, saved, known>>

\* EventStoreEngine.append of a MemoryAppended payload: the SDK puts neither
\* parent_id nor epoch in it, so the row's parent is "genesis".
BeginSdk(j, s) ==
  /\ s \in known
  /\ Start(j, Writing(j, "sdk", s, {<<Genesis, 0>>}), "storing")
  /\ Claim(s)
  /\ UNCHANGED <<events, head, counter, cache, saved, known>>

\* Mistake: a merge with the source's head as its only parent.
MergeDropsTarget(j, target, source) ==
  /\ {target, source} \subseteq known
  /\ Start(j, Writing(j, "merge", target, {head[source]}), "storing")
  /\ Claim(target)
  /\ UNCHANGED <<events, head, counter, cache, saved, known>>

\* merge: both heads are read before the payload is uploaded.
BeginMerge(j, target, source) ==
  /\ {target, source} \subseteq known
  /\ Start(j, Writing(j, "merge", target, {head[target], head[source]}), "storing")
  /\ Claim(target)
  /\ UNCHANGED <<events, head, counter, cache, saved, known>>

\* fork: the source event must exist; the new stream is created, then its
\* "system" event is appended to it.
BeginFork(j, from, new) ==
  /\ from \in Found
  /\ Unborn(new)
  /\ Start(j, Writing(j, "fork", new, {head[new]}), "storing")
  /\ Claim(new)
  /\ UNCHANGED <<events, head, counter, cache, saved, known>>

\* checkpoint: head and cached epoch, not the persisted one.
BeginCheckpoint(j, s) ==
  LET cached == cache[EngineOf[j]][s]
      blob == [kind |-> "checkpoint", stream |-> s, rows |-> << >>,
               epoch |-> IF cached = Cold THEN 0 ELSE cached] IN
  /\ s \in known
  /\ Start(j, [NoJob EXCEPT !.kind = "checkpoint", !.stream = s, !.blob = blob], "storing")
  /\ UNCHANGED <<events, head, counter, cache, saved, known, contended>>

\* snapshot: the rows are listed at once, then their payloads are retrieved.
BeginSnapshot(j, s) ==
  LET blob == [kind |-> "snapshot", stream |-> s, epoch |-> 0,
               rows |-> Timeline(s)] IN
  /\ s \in known
  /\ Start(j, [NoJob EXCEPT !.kind = "snapshot", !.stream = s, !.blob = blob], "storing")
  /\ UNCHANGED <<events, head, counter, cache, saved, known, contended>>

\* resume and restore_snapshot begin by retrieving their blob.
BeginRetrieve(j, kind, s, blob) ==
  /\ s \in known
  /\ kind = "restore" => blob.kind = "snapshot" /\ s = blob.stream
  /\ Start(j, [NoJob EXCEPT !.kind = kind, !.stream = s, !.blob = blob], "retrieving")
  /\ UNCHANGED <<events, head, counter, cache, saved, known, contended>>

\* ledger.delete_stream: the rows and the stream's record, in one commit.
Emptied(s) ==
  /\ events' = [events EXCEPT ![s] = << >>]
  /\ head' = [head EXCEPT ![s] = <<Genesis, 0>>]
  /\ counter' = [counter EXCEPT ![s] = 0]

\* delete_stream never suspends: blobs, rows, stream record, cached epoch.
Delete(j, s) ==
  /\ stage[j] = "idle"
  /\ "delete" \in Kinds
  /\ s \in known
  /\ stage' = [stage EXCEPT ![j] = "ok"]
  /\ job' = [job EXCEPT ![j] = [NoJob EXCEPT !.kind = "delete", !.stream = s]]
  /\ Emptied(s)
  /\ cache' = [cache EXCEPT ![EngineOf[j]][s] = Cold]
  /\ Claim(s)
  /\ UNCHANGED <<saved, known>>

-----------------------------------------------------------------------------
\* Mistake: a cold cache starts from zero.
EpochFromCacheOnly(e, s) == 1 + (IF cache[e][s] = Cold THEN 0 ELSE cache[e][s])

\* _next_epoch: the cached epoch, seeded from the ledger when cold, plus one.
NextEpoch(e, s) == 1 + (IF cache[e][s] = Cold THEN counter[s] ELSE cache[e][s])

\* The row a job inserts.
RowOf(j, epoch) == [id |-> <<j, job[j].written + 1>>, parents |-> job[j].parents,
                    epoch |-> epoch, content |-> Head(job[j].todo)]

\* ledger.append_event: the row, the head and the counter in one commit.
Insert(s, row) ==
  /\ events' = [events EXCEPT ![s] = Append(@, row)]
  /\ head' = [head EXCEPT ![s] = row.id]
  /\ counter' = [counter EXCEPT ![s] = row.epoch]

\* The upload returned: take an epoch and insert the row.  The event store
\* takes none ("payload_dict.get('epoch') or 0").  restore_snapshot goes on
\* with its next payload, reading the head again; any other job returns, and
\* the caller of fork gets the new stream's id.
Write(j) ==
  LET s == job[j].stream
      e == EngineOf[j]
      epoch == IF job[j].kind = "sdk" THEN 0 ELSE NextEpoch(e, s)
      row == RowOf(j, epoch)
      rest == Tail(job[j].todo) IN
  /\ stage[j] = "storing"
  /\ job[j].todo # << >>
  /\ Insert(s, row)
  /\ cache' = IF job[j].kind = "sdk" THEN cache ELSE [cache EXCEPT ![e][s] = epoch]
  /\ job' = [job EXCEPT ![j].todo = rest, ![j].written = @ + 1, ![j].parents = {row.id}]
  /\ stage' = [stage EXCEPT ![j] = IF rest = << >> THEN "ok" ELSE "storing"]
  /\ known' = IF rest = << >> THEN known \cup {s} ELSE known
  /\ UNCHANGED <<saved, contended>>

\* The payloads of a snapshot's rows are read one by one: once the stream is
\* deleted, those not read yet come out blank, unless the log has them.
Hydrations(rows) ==
  LET gone == \E i \in DOMAIN rows : rows[i].id \notin Found
      upTo(n) == [i \in DOMAIN rows |->
                    IF i <= n \/ rows[i].id \in Found THEN rows[i]
                    ELSE [rows[i] EXCEPT !.content = Blank]]
  IN  IF gone THEN {upTo(n) : n \in 0..Len(rows)} ELSE {rows}

\* The blob of a checkpoint or snapshot is stored and its id returned.
Save(j) ==
  /\ stage[j] = "storing"
  /\ job[j].kind \in {"checkpoint", "snapshot"}
  /\ \E rows \in Hydrations(job[j].blob.rows) :
       saved' = saved \cup {[job[j].blob EXCEPT !.rows = rows]}
  /\ stage' = [stage EXCEPT ![j] = "ok"]
  /\ UNCHANGED <<job, events, head, counter, cache, known, contended>>

\* resume takes the blob's epoch, which a snapshot does not have, as the
\* stream's, whatever the stream's own counter says.
Resume(j) ==
  /\ stage[j] = "retrieving"
  /\ job[j].kind = "resume"
  /\ cache' = [cache EXCEPT ![EngineOf[j]][job[j].stream] = job[j].blob.epoch]
  /\ stage' = [stage EXCEPT ![j] = "ok"]
  /\ UNCHANGED <<job, events, head, counter, saved, known, contended>>

\* Mistake: the snapshot is restored newest first.
RestoreNewestFirst(j, new) ==
  /\ stage[j] = "retrieving"
  /\ job[j].kind = "restore"
  /\ Unborn(new)
  /\ LET contents == Reverse(Contents(job[j].blob.rows)) IN
       /\ job' = [job EXCEPT ![j].stream = new, ![j].todo = contents,
                             ![j].parents = {head[new]}]
       /\ stage' = [stage EXCEPT ![j] = IF contents = << >> THEN "ok" ELSE "storing"]
       /\ known' = IF contents = << >> THEN known \cup {new} ELSE known
  /\ UNCHANGED <<events, head, counter, cache, saved, contended>>

\* restore_snapshot creates a stream and starts to append to it.
Restore(j, new) ==
  /\ stage[j] = "retrieving"
  /\ job[j].kind = "restore"
  /\ Unborn(new)
  /\ LET contents == Contents(job[j].blob.rows) IN
       /\ job' = [job EXCEPT ![j].stream = new, ![j].todo = contents,
                             ![j].parents = {head[new]}]
       /\ stage' = [stage EXCEPT ![j] = IF contents = << >> THEN "ok" ELSE "storing"]
       /\ known' = IF contents = << >> THEN known \cup {new} ELSE known
  /\ UNCHANGED <<events, head, counter, cache, saved, contended>>

\* Walrus gives up after its retries; the exception reaches the caller.
WalrusFails(j) ==
  /\ stage[j] \in Waiting
  /\ stage' = [stage EXCEPT ![j] = "failed"]
  /\ UNCHANGED <<job, events, head, counter, cache, saved, known, contended>>

\* The process of an engine dies: its jobs and its cache are gone.
Crash(e) ==
  /\ \/ \E j \in Jobs : EngineOf[j] = e /\ stage[j] \in Waiting
     \/ \E s \in Streams : cache[e][s] # Cold
  /\ stage' = [j \in Jobs |-> IF EngineOf[j] = e /\ stage[j] \in Waiting
                              THEN "lost" ELSE stage[j]]
  /\ cache' = [cache EXCEPT ![e] = [s \in Streams |-> Cold]]
  /\ UNCHANGED <<job, events, head, counter, saved, known, contended>>

Done == /\ \A j \in Jobs : stage[j] \in {"ok", "failed", "lost"}
        /\ UNCHANGED vars

\* What a stream client asks of its engine: fork, merge, resume and snapshot are
\* one call each, and checkpoint is a summary (Recall) and then the engine's.
Begin(j) ==
  \/ \E s \in Streams : \/ BeginAppend(j, s)
                        \/ BeginSdk(j, s)
                        \/ BeginCheckpoint(j, s)
                        \/ BeginSnapshot(j, s)
                        \/ Delete(j, s)
  \/ \E s, t \in Streams : s # t /\ BeginMerge(j, s, t)
  \/ \E from \in Found, s \in Streams : BeginFork(j, from, s)
  \/ \E s \in Streams, blob \in saved : \/ BeginRetrieve(j, "resume", s, blob)
                                        \/ BeginRetrieve(j, "restore", s, blob)

Next == \/ \E j \in Jobs : \/ Begin(j)
                           \/ Write(j)
                           \/ Save(j)
                           \/ Resume(j)
                           \/ \E s \in Streams : Restore(j, s)
                           \/ WalrusFails(j)
        \/ \E e \in Engines : Crash(e)
        \/ Done

Spec == Init /\ [][Next]_vars
-----------------------------------------------------------------------------
(***************************************************************************)
(* Properties                                                              *)
(***************************************************************************)

\* Type invariant.  The record of a stream agrees with the stream's rows:
\* its head and its counter are those of the row inserted last.
TypeOK ==
  /\ stage \in [Jobs -> Stage]
  /\ job \in [Jobs -> Job]
  /\ events \in [Streams -> Seq(Event)]
  /\ head \in [Streams -> Parent]
  /\ counter \in [Streams -> Nat]
  /\ cache \in [Engines -> [Streams -> Nat \cup {Cold}]]
  /\ saved \subseteq Blob
  /\ known \subseteq Streams
  /\ contended \subseteq Streams
  /\ \A s \in Streams :
       IF events[s] = << >> THEN head[s] = <<Genesis, 0>> /\ counter[s] = 0
       ELSE head[s] = Last(events[s]).id /\ counter[s] = Last(events[s]).epoch

\* A stream on which no two writers (or a writer and a deletion) were ever
\* under way at once is one chain: each event the engine wrote has the event
\* before it among its parents, whatever failed, crashed or was deleted.  An
\* event of the SDK is exempt, its parent is always "genesis".
UncontendedIsChain ==
  \A s \in Streams \ contended : \A i \in DOMAIN events[s] :
    LET row == events[s][i] IN
    \/ job[row.id[1]].kind = "sdk"
    \/ (IF i = 1 THEN <<Genesis, 0>> ELSE events[s][i - 1].id) \in row.parents

Deleted(s) == \E j \in Jobs : job[j].kind = "delete" /\ job[j].stream = s

\* An event never names a parent that was not committed: what a parent_id
\* names is in the table, unless the stream it was in has been deleted.
ParentsExist ==
  \A s \in Streams : \A i \in DOMAIN events[s] : \A p \in events[s][i].parents :
    p = <<Genesis, 0>> \/ p \in AllIds \/ Deleted(job[p[1]].stream)

\* What a stream's record, its rows and their parents say of one another.
StreamSound == TypeOK /\ UncontendedIsChain /\ ParentsExist

\* Streams numbered by one engine: the SDK has not written to them, no
\* checkpoint was resumed on them, and no second engine changed them.
OneEngine(s) ==
  \E e \in Engines : \A j \in Jobs :
    job[j].stream = s /\ job[j].kind \notin {"checkpoint", "snapshot"}
      => EngineOf[j] = e /\ job[j].kind \notin {"sdk", "resume"}

\* Epochs number such a stream's events from 1, in the order they were
\* committed, with neither gap nor repetition: concurrent appends, failed
\* uploads, deletion and restarts of the process included.
EpochIsPosition ==
  \A s \in Streams : OneEngine(s) =>
    \A i \in DOMAIN events[s] : events[s][i].epoch = i

\* A restored stream reads like the stream in the snapshot: what the restore
\* has written is, in timeline order, the snapshot's beginning, and all of it
\* once restore_snapshot returned; and if one engine numbered the original,
\* what was snapshotted is still the beginning of its timeline.
RestoreIsCopy ==
  \A j \in Jobs :
    LET s == job[j].stream
        blob == job[j].blob
        rows == Timeline(s)
        copied == {n \in DOMAIN rows : rows[n].id[1] = j}
    IN  job[j].kind = "restore" /\ s # blob.stream /\ ~Deleted(s) =>
          /\ {rows[n].id[2] : n \in copied} = 1 .. job[j].written
          /\ \A n \in copied : rows[n].content = blob.rows[rows[n].id[2]].content
          /\ \A m, n \in copied : m < n => rows[m].id[2] < rows[n].id[2]
          /\ stage[j] = "ok" => job[j].written = Len(blob.rows)
          /\ OneEngine(blob.stream) /\ ~Deleted(blob.stream)
               => IsPrefix(Contents(blob.rows), Contents(Timeline(blob.stream)))
==============================================================================
