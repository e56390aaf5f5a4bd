------------------------------ MODULE EventLog ------------------------------
(***************************************************************************)
(* EventStoreEngine.append (src/walrusos/engine/event_store.py): the write *)
(* path of every WalrusOS operation, run by several coroutines of several  *)
(* processes over one SQLite file.                                         *)
(*                                                                         *)
(* A call suspends at exactly two places, the upload of its payload to     *)
(* Walrus and the anchoring of its event on Sui.  What it reads from       *)
(* SQLite it reads between the two; what it writes it writes after the     *)
(* second.  SQLite calls never yield to the event loop, but each commits   *)
(* on its own, so a process can die between two of them.                   *)
(***************************************************************************)
EXTENDS Integers, Sequences

CONSTANTS
  Calls,           \* calls of append; each is made at most once
  Processes,       \* operating system processes sharing the database
  ProcessOf,       \* the process a call runs in
  Workspaces,
  Payloads,        \* payload_dict values, each with its event type
  MemoryPayloads,  \* those whose event type is MemoryAppended
  Streams,
  StreamOf         \* the stream_id field of a MemoryAppended payload

ASSUME CallsAssumption == ProcessOf \in [Calls -> Processes]
ASSUME PayloadsAssumption == /\ MemoryPayloads \subseteq Payloads
                             /\ StreamOf \in [MemoryPayloads -> Streams]

(***************************************************************************)
(* SHA-256 is taken to be injective, so a hash is represented by what it   *)
(* was computed from: the payloads of the event and of its predecessors.   *)
(* The empty chain is the previous_hash None of a workspace's first event. *)
(***************************************************************************)
Hash == Seq(Payloads)
NoHash == << >>
EventHash(payload, previous) == Append(previous, payload)

VARIABLES
  stage,     \* where each call is
  args,      \* what it was called with: workspace_id and payload_dict
  link,      \* what it read before building its ProtocolEvent
  tx,        \* its anchor transaction on Sui: "none", "sent" or "landed"
  blobs,     \* payloads Walrus has stored
  rows,      \* table protocol_events
  memory,    \* table memory_events
  head,      \* column head_event_id of memory_streams; NoHash is "genesis"
  clock      \* what datetime.now() returns next

vars == <<stage, args, link, tx, blobs, rows, memory, head, clock>>

Stage == {"idle",
          "storing", "anchoring",      \* suspended in one of the two awaits
          "indexing",                  \* running, between two commits
          "ok", "failed", "lost"}      \* returned, raised, died with its process

Args == [ws : Workspaces, payload : Payloads]

(***************************************************************************)
(* seen is not in the code: it records, for the properties, which events   *)
(* were in the table when previous_hash was read.                          *)
(***************************************************************************)
Link == [prev : Hash, ts : Nat, seen : SUBSET Hash]

Row == [id : Hash, ws : Workspaces, payload : Payloads, prev : Hash, ts : Nat,
        digest : BOOLEAN, seen : SUBSET Hash, by : Calls]

MemoryRow == [id : Hash, stream : Streams, ts : Nat]

Init ==
  /\ stage = [c \in Calls |-> "idle"]
  /\ args \in [Calls -> Args]
  /\ link = [c \in Calls |-> [prev |-> NoHash, ts |-> 0, seen |-> {}]]
  /\ tx = [c \in Calls |-> "none"]
  /\ blobs = {}
  /\ rows = {}
  /\ memory = {}
  /\ head = [s \in Streams |-> NoHash]
  /\ clock = 1

EventId(c) == EventHash(args[c].payload, link[c].prev)

\* The row append_protocol_event inserts for call c.
RowOf(c, digest) ==
  [id |-> EventId(c), ws |-> args[c].ws, payload |-> args[c].payload,
   prev |-> link[c].prev, ts |-> link[c].ts, digest |-> digest,
   seen |-> link[c].seen, by |-> c]

RowsIn(ws) == {r \in rows : r.ws = ws}

Ids(table) == {r.id : r \in table}

\* Mistakes in the query: no WHERE workspace_id; oldest row first.
LatestOfAnyWorkspace(h, ws) ==
  IF rows = {} THEN h = NoHash
  ELSE \E r \in rows : h = r.id /\ \A q \in rows : q.ts <= r.ts

OldestEventHash(h, ws) ==
  IF RowsIn(ws) = {} THEN h = NoHash
  ELSE \E r \in RowsIn(ws) : h = r.id /\ \A q \in RowsIn(ws) : r.ts <= q.ts

(***************************************************************************)
(* get_latest_event_hash: ORDER BY timestamp DESC LIMIT 1.                 *)
(***************************************************************************)
IsLatestEventHash(h, ws) ==
  IF RowsIn(ws) = {}
  THEN h = NoHash
  ELSE \E r \in RowsIn(ws) : /\ h = r.id
                             /\ \A q \in RowsIn(ws) : q.ts <= r.ts

\* The event loop runs one coroutine at a time: no other call of c's process
\* is between two commits.
HasLoop(c) ==
  \A d \in Calls \ {c} : ProcessOf[d] = ProcessOf[c] => stage[d] # "indexing"

Goto(c, s) == stage' = [stage EXCEPT ![c] = s]

-----------------------------------------------------------------------------

\* append is entered and suspends in storage.store_blob.
Begin(c) ==
  /\ stage[c] = "idle"
  /\ HasLoop(c)
  /\ Goto(c, "storing")
  /\ UNCHANGED <<args, link, tx, blobs, rows, memory, head, clock>>

\* store_blob raises after its last retry; append raises with it.
StoreFails(c) ==
  /\ stage[c] = "storing"
  /\ HasLoop(c)
  /\ Goto(c, "failed")
  /\ UNCHANGED <<args, link, tx, blobs, rows, memory, head, clock>>

\* store_blob returns: the previous hash is read, the event is built and
\* stamped, and the call suspends in anchor_protocol_event.
Prepare(c) ==
  /\ stage[c] = "storing"
  /\ HasLoop(c)
  /\ \E h \in Ids(rows) \cup {NoHash} :
       /\ IsLatestEventHash(h, args[c].ws)
       /\ link' = [link EXCEPT ![c] = [prev |-> h, ts |-> clock, seen |-> Ids(rows)]]
  /\ blobs' = blobs \cup {args[c].payload}
  /\ tx' = [tx EXCEPT ![c] = "sent"]
  /\ clock' = clock + 1
  /\ Goto(c, "anchoring")
  /\ UNCHANGED <<args, rows, memory, head>>

\* Sui executes the anchor transaction, whether or not anyone still waits.
AnchorLands(c) ==
  /\ tx[c] = "sent"
  /\ tx' = [tx EXCEPT ![c] = "landed"]
  /\ UNCHANGED <<stage, args, link, blobs, rows, memory, head, clock>>

\* Mistakes: a digest without a result; no timeout on the CLI.
AssumedDigest(c) == BOOLEAN
DigestOrNothing(c) == IF tx[c] = "landed" THEN {TRUE} ELSE {}

\* anchor_protocol_event returns a digest, or None: no wallet, a rejected
\* transaction, a CLI timeout (even of a transaction that landed).
AnchorResult(c) == {FALSE} \cup (IF tx[c] = "landed" THEN {TRUE} ELSE {})

\* Mistakes: INSERT OR REPLACE; every event, or none, goes on to be indexed.
CommitReplaces(c) ==
  /\ stage[c] = "anchoring"
  /\ HasLoop(c)
  /\ rows' = {r \in rows : r.id # EventId(c)} \cup {RowOf(c, FALSE)}
  /\ Goto(c, IF args[c].payload \in MemoryPayloads THEN "indexing" ELSE "ok")
  /\ UNCHANGED <<args, link, tx, blobs, memory, head, clock>>

\* Mistake: the memory is not indexed.
CommitIndexesNone(c) ==
  /\ stage[c] = "anchoring"
  /\ HasLoop(c)
  /\ EventId(c) \notin Ids(rows)
  /\ rows' = rows \cup {RowOf(c, FALSE)}
  /\ Goto(c, "ok")
  /\ UNCHANGED <<args, link, tx, blobs, memory, head, clock>>

\* append_protocol_event commits the row of the event.  A MemoryAppended
\* event goes on to index its memory, any other is returned.
Commit(c) ==
  /\ stage[c] = "anchoring"
  /\ HasLoop(c)
  /\ EventId(c) \notin Ids(rows)
  /\ \E digest \in AnchorResult(c) : rows' = rows \cup {RowOf(c, digest)}
  /\ Goto(c, IF args[c].payload \in MemoryPayloads THEN "indexing" ELSE "ok")
  /\ UNCHANGED <<args, link, tx, blobs, memory, head, clock>>

\* The primary key event_id is taken: the INSERT raises IntegrityError.
CommitRefused(c) ==
  /\ stage[c] = "anchoring"
  /\ HasLoop(c)
  /\ EventId(c) \in Ids(rows)
  /\ Goto(c, "failed")
  /\ UNCHANGED <<args, link, tx, blobs, rows, memory, head, clock>>

\* ledger.append_event commits the memory_events row and moves the head.
Index(c) ==
  LET stream == StreamOf[args[c].payload] IN
  /\ stage[c] = "indexing"
  /\ memory' = memory \cup {[id |-> EventId(c), stream |-> stream, ts |-> link[c].ts]}
  /\ head' = [head EXCEPT ![stream] = EventId(c)]
  /\ Goto(c, "ok")
  /\ UNCHANGED <<args, link, tx, blobs, rows, clock>>

\* A process dies with every call it is running.
Crash(p) ==
  LET dying == {c \in Calls : /\ ProcessOf[c] = p
                              /\ stage[c] \in {"storing", "anchoring", "indexing"}} IN
  /\ dying # {}
  /\ stage' = [c \in Calls |-> IF c \in dying THEN "lost" ELSE stage[c]]
  /\ UNCHANGED <<args, link, tx, blobs, rows, memory, head, clock>>

\* Every call has ended and no transaction is under way.
Done == /\ \A c \in Calls : stage[c] \in {"ok", "failed", "lost"}
        /\ UNCHANGED vars

Step(c) == \/ Begin(c)
           \/ StoreFails(c)
           \/ Prepare(c)
           \/ AnchorLands(c)
           \/ Commit(c)
           \/ CommitRefused(c)
           \/ Index(c)

Next == \/ \E c \in Calls : Step(c)
        \/ \E p \in Processes : Crash(p)
        \/ Done

Spec == Init /\ [][Next]_vars

(***************************************************************************)
(* Every await returns: httpx gives up after its timeouts and retries      *)
(* (walrus.py:281), the Sui CLI after 60 s (sui_real.py:177); a coroutine  *)
(* that can run is run by its event loop.                                  *)
(***************************************************************************)
Fairness == \A c \in Calls : /\ WF_vars(StoreFails(c) \/ Prepare(c))
                             /\ WF_vars(Commit(c) \/ CommitRefused(c))
                             /\ WF_vars(Index(c))

FairSpec == Spec /\ Fairness
-----------------------------------------------------------------------------
(***************************************************************************)
(* Properties                                                              *)
(***************************************************************************)

\* Type invariant; only a memory payload has a stream to be indexed in.
TypeOK ==
  /\ stage \in [Calls -> Stage]
  /\ args \in [Calls -> Args]
  /\ link \in [Calls -> Link]
  /\ tx \in [Calls -> {"none", "sent", "landed"}]
  /\ blobs \subseteq Payloads
  /\ rows \subseteq Row
  /\ memory \subseteq MemoryRow
  /\ head \in [Streams -> Hash]
  /\ clock \in Nat
  /\ \A c \in Calls : stage[c] = "indexing" => args[c].payload \in MemoryPayloads

\* The hash chain has no hole, whatever crashed or was retried: the event a
\* row's previous_hash names is in the table, in the same workspace, and older,
\* so that a replay in timestamp order meets every event after its predecessor.
IsParent(q, r) == q.id = r.prev /\ q.ws = r.ws /\ q.ts < r.ts

LinksClosed == \A r \in rows : r.prev = NoHash \/ \E q \in rows : IsParent(q, r)

\* The chain of a workspace forks only where two appends overlap: an event
\* never takes the predecessor of one that was already committed when it
\* read the latest hash.
ForkOnlyByOverlap ==
  \A q, r \in rows : q.ws = r.ws /\ q.id \in r.seen => q.prev # r.prev

\* Two events of one id never both succeed, and the call that returned is the
\* one whose event is in the table: a collision fails the later call and
\* leaves the row of the earlier one alone.
OneRowPerCall ==
  /\ \A q, r \in rows : q.id = r.id => q = r
  /\ \A c \in Calls : stage[c] \in {"indexing", "ok"} => \E r \in rows : r.by = c
  /\ \A c \in Calls : stage[c] \in {"idle", "storing", "anchoring", "failed"}
                        => \A r \in rows : r.by # c

\* A row carries a transaction digest only if its event is on Sui, and every
\* event on Sui or in the table can be hydrated from Walrus.
AnchorIsBacked ==
  /\ \A r \in rows : r.digest => tx[r.by] = "landed"
  /\ \A r \in rows : r.payload \in blobs
  /\ \A c \in Calls : tx[c] # "none" => args[c].payload \in blobs

\* What a successful append stands for, whatever fails, lands late or collides:
\* a row of its own, on Walrus, and on Sui if it says so.
AppendDelivers == OneRowPerCall /\ AnchorIsBacked

\* The stream tables follow the event log: a memory row and a head name a
\* committed MemoryAppended event, and one of those is missing from its stream
\* only while its call is between the two commits, or if it died there.
MemoryFollowsLog ==
  /\ \A m \in memory : \E r \in rows :
        m.id = r.id /\ r.payload \in MemoryPayloads /\ m.stream = StreamOf[r.payload]
  /\ \A s \in Streams : \/ head[s] = NoHash /\ \A m \in memory : m.stream # s
                        \/ \E m \in memory : m.stream = s /\ m.id = head[s]
  /\ \A r \in rows : r.payload \in MemoryPayloads /\ r.id \notin Ids(memory)
                        => stage[r.by] \in {"indexing", "lost"}

\* What append promises its callers: it implements the append-only log.
Log == INSTANCE AppendOnlyLog WITH Event <- Row, log <- rows
LogSpec == Log!Spec

\* Every append that is entered returns, raises, or dies with its process.
EveryCallEnds == \A c \in Calls : stage[c] = "storing" ~> stage[c] \in {"ok", "failed", "lost"}
============================================================================
