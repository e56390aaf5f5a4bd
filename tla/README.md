# WalrusOS in TLA+

WalrusOS is a memory layer for AI agents: every operation of an agent becomes a
signed, hash-linked *protocol event* whose payload is stored on Walrus, whose
hash is anchored on Sui, and which is committed to a local SQLite file that
several processes (SDK programs, the `walrusos` command line, the MCP server,
the dashboard bridge) open at the same time. These modules model that system
from its source in `src/`, TLC checks them on small instances, and TLAPS proves
the theorems listed below for every instance.

## 1. The system

| Component (source under `src/walrusos` unless said otherwise) | State it keeps | Operations | Interacts with |
|---|---|---|---|
| Event store, `engine/event_store.py` | none of its own | `append`, `load_agent_events`, stream queries | Walrus (store), Sui (anchor), the ledger |
| SQLite ledger, `adapters/sqlite_ledger.py` | `protocol_events`, `memory_events`, `memory_streams`, `agent_identities`, `agent_keys`, tasks, capabilities, stream objects | one short transaction per call | every engine, by direct call |
| Memory engine, `engine/memory.py` | a cache of epoch numbers per stream | append, merge, fork, checkpoint, resume, snapshot, restore, delete, timeline | ledger, Walrus |
| Recall: `engine/context.py`, `search.py`, `ranking.py`, `summarizer.py`, `token_budget.py` | none | build a context, query, summarise | memory engine, SDK streams |
| Agent client, `sdk/agent.py` | identity, key pair, pending tasks, session at the bridge | construct, write, pause, resume, terminate, go online | event store, ledger, projections, bridge |
| Projections, `core/projections/engine.py` | none | fold events into an identity | agent client, replay |
| Coordinator, `runtime/coordinator.py`, `sdk/workspace.py` | tasks of one goal | decompose, match, execute, synthesize | agents, registry, language model |
| Autonomous loop, `runtime/autonomous.py` | the turns of one run | `run` | recall, agents, language model |
| Recovery, `engine/recovery.py` | none | `recover` | Sui (read headers), Walrus (retrieve), ledger |
| Replay and time travel, `engine/replay.py`, `engine/time_travel.py` | capability and key trackers of one replay | `replay`, comparisons | ledger |
| Event mesh, `runtime/event_bus.py` | subscriptions, queues | subscribe, publish, emit, poll, watch | writers, dashboard bridge |
| Collaboration, `runtime/collaboration.py` | queues of one pattern | pipeline, broadcast, vote | event mesh, agents |
| Presence, registry, `runtime/presence.py`, `registry.py` | sessions, subscribers, registered agents | register, heartbeat, unregister, broadcast | bridge |
| Bridge, `src/dashboard/walrusos_bridge.py`, pages in `src/dashboard/app` | presence and registry; each connection's position in the streams | sessions, websocket, memory pages, activity, tasks | ledger, agents, MCP servers |
| Tasks, `sdk/task.py` | a copy of the task's row | start, submit, complete, fail, subtasks | ledger |
| MCP server, `mcp/server.py` | its session, one workspace | session, tools | bridge, SDK, ledger |
| Walrus adapters and key store, `adapters/walrus*.py`, `key_store.py` | active key, retired keys, manifests | store (in chunks), retrieve, rotate, shred | Walrus, ledger |
| Sui adapters, `adapters/sui.py`, `sui_real.py` | mapping from streams to objects, capabilities | anchor, object transactions, event queries | the Sui command line and RPC |
| Live SDK, `sdk/live.py` | a SQLite file of its own: names, capabilities, events | get or create, grant, publish, read | `sui_real.py`, `walrus_real.py` |
| Contracts, `src/move/walrusos/sources/*.move` | identities, capabilities, streams, anchors | register, delegate, revoke, append, anchor | Sui adapters, any wallet |
| Integrations, `integrations/` | a vector index in the process | sync a conversation, add, clear, checkpoint, document | SDK streams |
| Command line, `cli/` | none | one call each | the components above |

What makes it hard:

- **Suspensions.** The code is `asyncio`. A coroutine gives up control only at a
  real suspension: storing or retrieving a blob, anchoring an event (a thread
  runs the Sui command), a post to the bridge, a queue, a language model, a
  message to a page. The ledger's methods are `async` but never suspend. State
  read before one of the real suspensions and used after it is where the engines
  can go wrong.
- **Several processes, one file.** SQLite serialises commits, not the code
  around them: a SELECT takes no lock (pysqlite opens the transaction at the
  first write), so a read and the write based on it can be separated by another
  process.
- **Partial success.** One append is an upload, a transaction on Sui and two
  local commits. Each can fail or outlive its caller, and a process can die
  between any two.
- **Several sources of truth.** The agent's row, the events in the log and each
  client's copy say what its status is; `memory_events` and `protocol_events`
  say what a stream holds; the chain says what the table should hold; a page,
  a feed, a vector index and a summary are copies that are brought up to date
  later, or never.
- **What lives in memory only.** The bridge forgets who is online at a restart,
  an engine its epochs, a document store its index.

What makes each component correct, in a sentence:

- *event store*: the chain of a workspace has no hole and forks only where
  appends overlapped; an event id is never overwritten; a digest is never claimed
  for an event Sui does not have; the stream tables follow the log; append ends.
- *its readers*: a replay of a moment is final once nothing that overlapped it is
  left; pages and the activity feed miss nothing that is committed meanwhile.
- *memory engine*: uncontended writers make one chain; no parent that never
  existed; epochs number a stream as it was written; a restored stream reads like
  its snapshot.
- *recall*: what leaves the contexts is in a summary; a query for the newest
  events returns them; a run is told what it has done.
- *agent client*: row and log agree on the status; a client stops writing once it
  has seen a pause; a memory is signed with the key that it names; counters count.
- *coordinator*: prompts are complete, the stream is in dependency order, every
  task is settled for the right reason, the result is honest, the call returns.
- *recovery*: nothing is lost silently, rows are never damaged, a run aborts
  only for a reason, the chain stays closed.
- *event mesh and collaboration*: one who polls gets every event, in order, until
  something takes its subscription away; a vote counts the first answers; the
  stages of a pipeline follow each other.
- *presence*: who is online will be listed; a page shows what the store has; who
  can be discovered is online.
- *tasks*: subtasks and their parents agree, what is done says when, and one task
  is claimed once.
- *feed*: each newest event goes out to every connection.
- *blobs and keys*: what was stored can be read after a restart, whole, and its
  key can be found.
- *contracts*: epochs have no gap, nothing follows an end, whoever signs had a
  capability that was not revoked.
- *Sui adapters and live SDK*: no row tells of what the chain does not have; two
  processes do not go on with two objects for one name; what was published is read.
- *integrations*: a synced conversation has each message once; a deleted document
  leaves the index; what was cleared stays so.

## 2. The modules

| Module | Models | Checked by | Proofs |
|---|---|---|---|
| `AppendOnlyLog` | what `append` promises: a log that only grows, each event after its predecessor | as `LogSpec` | `EventLogProofs` |
| `EventLog` | `EventStoreEngine.append` in several processes | `event_log`, `event_log_live` | `EventLogProofs` |
| `Replay` | extends `EventLog`: `ReplayEngine`, the bridge's pages of memories, its activity feed | `event_log` | `EventLogProofs` |
| `MemoryStream` | `MemoryEngine` and the two stream tables | `memory_stream`, `bridge` | `MemoryStreamProofs` |
| `Recall` | extends `MemoryStream`: checkpoints, contexts, queries, the autonomous loop | `memory_stream` | `MemoryStreamProofs` |
| `AgentLifecycle` | `AgentClient`, the agent's row, key, counter and events | `agent_lifecycle` | `AgentLifecycleProofs` |
| `Coordinator` | `Workspace.coordinate` and `Coordinator` | `coordinator` | `CoordinatorProofs` |
| `Recovery` | `EventLog` composed with `DisasterRecoveryEngine.recover` and `sync_events_from_network` | `recovery`, `recovery_everything` | `EventLogProofs` |
| `BlobStore` | `WalrusAdapter` over a `KeyStore`, in several processes | `blob_store` | `BlobStoreProofs` |
| `Contracts` | the Move package, called by any wallet | `chain` | `LiveClientProofs` |
| `StreamObjects` | extends `Contracts`: `SuiLedgerAdapter` and its rows | `chain` | `LiveClientProofs` |
| `LiveClient` | extends `StreamObjects`: the live SDK over `RealSuiClient` and the real Walrus client | `chain` | `LiveClientProofs` |
| `EventMesh` | `EventMesh` of `event_bus.py`, one stream | `mesh` | `CollaborationProofs` |
| `Collaboration` | extends `EventMesh`: pipelines, broadcasts and votes | `mesh` | `CollaborationProofs` |
| `Budget` | how much one behaviour may do, and of what | with its users | |
| `Presence` | sessions at the bridge: agents, MCP servers, presence store, registry, pages | `bridge` | `BridgeProofs` |
| `TaskBoard` | the task table, task clients, the bridge's two writes, the MCP tools | `bridge`, `task_claim` | `BridgeProofs` |
| `EventFeed` | extends `MemoryStream`: the connections to `/ws/events` that poll the tables | `bridge` | `BridgeProofs` |
| `Stores` | what frameworks keep on a stream | `bridge` | `BridgeProofs` |
| `Bridge` | the four above next to each other | `bridge`, `task_claim` | `BridgeProofs` |

Each `...MC` module gives the constants of its namesake values for TLC.
Definitions headed by "Mistake:" are not part of any specification: each is a
definition of the model as a plausible bug would have it, and the property it is
paired with in `PROJECT.json` fails when it takes the definition's place.

### EventLog

A *call* is one invocation of `append`; `stage` is where it is: `storing` and
`anchoring` are its two suspensions, `indexing` the gap between its two commits.
`Prepare` is everything from the return of `store_blob` (line 63) to the call of
`anchor_protocol_event` (line 88): it reads the latest hash, builds and stamps the
event. `Commit` is `append_protocol_event`, `CommitRefused` its
IntegrityError, `Index` is `ledger.append_event`, `Crash` kills every call of a
process. `tx` is the fate of the anchor transaction, which may land at any later
moment (`AnchorLands`), also after the call gave it up.

A hash is the sequence of payloads it was computed from: SHA-256 is taken to be
injective, and two calls with one payload and one predecessor have one id, as in
the code (the timestamp is not part of the hash). Timestamps come from one
monotone clock.

### Replay

Reads the `rows` of `EventLog` while calls go on. A replay fetches the events of a
workspace in the order of their timestamps, keeps track of grants and
revocations, and passes over the events of an agent that is not allowed to
write; `Change` gives the payloads that grant and revoke. `MemoryPage` and
`Activity` are the bridge's `get_memory_events` and `get_activity`. Events are
stamped two awaits before they are committed, and that is what can disturb a
reader: `ReplayStays`, `PagesMissNothing` and `ActivityShowsNew` say how far.
Signatures verify here; the log was written with them.

### MemoryStream

A *job* is one call of the engine (or of the SDK, whose events go to the same
tables through the event store, with parent `genesis` and epoch 0). `Begin...` is
everything up to the first suspension, `Write`, `Save`, `Resume`, `Restore` what
follows. `cache` is `MemoryEngine._epochs`, `counter` the persisted
`epoch_counter`; they are seeded from each other as in `_next_epoch`. Deleting
never suspends, because deleting a Walrus blob is a local operation.
`contended` is history: streams on which two writers ever overlapped.
`Timeline` is the stream's rows by epoch and, where epochs tie, as they were
inserted, written as what comes at each place (`Place`) and not as the loop of
a sort.

### Recall

Adds to the jobs of `MemoryStream` what their events are (`text`): a memory, a
note of type "summary", or a checkpoint and what it covers. `Summarise` is
`create_checkpoint`: it reads the timeline when it begins and writes when the
append underneath does. `Latest`, `Window`, `Digest`, `LatestContext`,
`RecallContext` and `SmartContext` are the queries and the strategies of
`build_context` as orders over a stream's rows: ties of the epoch come as they
were inserted, a score is whether a memory matches the query, recency says
nothing but which was read later (`models/memory.py:75` gives an event the time
it is read at). An autonomous run is `StartRun`, then a turn of `Prompt`,
`Contribute` and `Contributed` for each agent, and `CloseRun`. `mix` draws either
any jobs of the engine, or a run among appends, SDK appends and checkpoints.

### AgentLifecycle

`workspace.agent(name)` builds a new client at each call, so several clients, in
one process or two, speak for one agent. `Construct` is `AgentClient.__init__`
(the first one makes the row and starts the registration task), `SetStatus` the
synchronous part of pause, resume and terminate, whose event is appended by a
task; `WriteNow`, `WriteWaits`/`Gathered` and `WriteReplays` are the branches of
`_ensure_initialized`; `Prepare`, `Commit...` and `Fail` are the append of
`EventLog`, reduced to one agent; `ReadCounter` and `Finish` are
`increment_agent_counters` and the replay that ends a write. `torn` is history: the
registration met a failure, another first constructor, or a client that took
the row before its key was stored and registered the agent with a key of its own.
`muddled` is history too: status changes that overlapped, or one that failed.

### Coordinator

One call of `coordinate`: `Decompose` draws any plan the language model could
answer with and matches an agent to each task; what is listed of a set of tasks
is in the order of the plan (`InPlanOrder`); `StartBatch`, `Collect` and
`LeaveLoop` are the loop of `execute`; `Begin` to `Return` are `_run_task`, cut at
its suspensions. A task may raise before or after its event is committed, and may
fail to set its agent idle. Left out: the text of prompts, the token budget that
may shorten them, and cancellation of the whole call (`CancelledError` is not an
`Exception`, so line 189 would count such a task neither done nor failed).

### Recovery

Extends `EventLog`: appends go on while `recover()` runs, in another process.
`chain` is the order in which anchors landed; `Disaster` loses the SQLite file
and, in it, the key store (`client.py:140,148`), so payloads may come back
unreadable (`sealed`). `Sync` reads the headers; `Insert`, `InsertRefused` and
`DropUnverified` are one turn of the loop each; `Die` ends the process between
two. A recovered row has an empty timestamp, modelled as 0 with the timestamps of
appends positive. The branch that re-indexes memories is not modelled because it
cannot be reached: a memory that has its payload has a public key in it, and is
dropped by the verification before (see the findings).

### BlobStore

`keys` is the table `key_store` in the order of its rows, a key being its place;
a blob has the key id in its header (`kid`) and the key it was really encrypted
with (`dek`), which are two fields because `rotate_key` takes them from two reads.
`Start` to `Load` are the constructor of the adapter, cut at its accesses to the
shared files: `FindSecret`, `OpenSecret` and `FillSecret` make `.machine_secret`,
which is empty in between, `InsertKey` commits. `BeginRotate`, `Rotate` and
`EndRotate` are `rotate_key`, cut in the same way; `Shred` is `shred_key`. A call of
`store_blob` is `BeginStore`, a `PutPart` for each chunk but the manifest, `PutLast`;
one of `retrieve_blob` is `BeginRetrieve`, `FetchManifest` if the table has not the
list, a `Fetch` for each part. A chunk is encrypted when its upload begins, so
what a rotation in between changes is the next one. `contested` is history: two
processes were making a key at the same time, for which the comment at
`key_store.py:203` says the store is not meant. Then two keys may be active, and
`rotate_key` pairs the id of one with the other (`walrus.py:534-539`).

Assumed: the password comes from the machine secret (with one from the
environment there is no file to race over), the adapter has a key store, SELECT
without ORDER BY returns the row inserted first, and two processes that save one
manifest do not collide between a read and an insert (the loser's call raises, as
in `Raise`). `SaveManifest` is the one write of a manifest by both callers of it; where
there is no table to write to the list lives in the process, and `HasManifest` is
whether a retrieval finds it.

### Contracts, StreamObjects, LiveClient

`objects` is every object ever made, an object's id being its place, and
`emitted` every event with its sender, in the order of the transactions. Each
public function of the package is an operator whose guard is its asserts
together with the rule of Sui that an owned object is passed by its owner; a
transaction that aborts leaves no trace. `WalletCall` is what any wallet may do
with the package, with WalrusOS or without.

`StreamObjects` is `SuiLedgerAdapter`: `create_stream` is `CommitRow`,
`SendStream`, `SaveMapping`, `SaveCapability`, with `FailStream` (an error that is
swallowed, or death) before each; `AdapterCall` is the methods that are one
transaction. `torn` is history: streams whose creator failed between the
mapping and the capability. `PermissionsPage` is what the dashboard shows of each
capability's row.

`LiveClient` is the live SDK, synchronous code in several processes on a file
of its own. A `call` looks into the file, sends, and inserts, in separate steps;
`Timeout` gives up a transaction that may `Land` later, `Fail` ends a call
anywhere, `UploadAgain` is a retry after an answer that was lost, `Expire` takes
a blob away. `QueryEventsByWorkspace` and `QueryAnchoredEvents` return one page of
`Page` events, as the code does; `FoundOnChain` says what such a query finds, of a
page that is large enough: everything of the workspace, and nothing of another
unless a wallet anchored that very blob. A `Read` selects its rows at once and
downloads them one by one, the `Oldest` first. `handles` and `returned` are history:
what callers were given.

### EventMesh, Collaboration

One stream of one process. `_stream_subs` is in two parts: `callbacks`, which are
subscribed once each, and `places`, how often each agent is listed without one. The
order of the list is left out: it decides only which callback is scheduled first for
one event, and `RunCallback` allows any order among those of the oldest event. `queueOf` maps an agent to its queue *object*, since a watch keeps the object
that it started with. `Publish` is `publish_event` up to its first post, `Posted`
the posts' return; a callback is scheduled and runs later (`RunCallback`). A
job of `Collaboration` subscribes, publishes, waits and in the end unsubscribes
*all* its agent's subscriptions (`Drop`), whoever made them; `taken` is history,
and by it a job that timed out knows whether it was cut off. `Write` is an agent's own
writing, a vote perhaps.

### Presence, TaskBoard, EventFeed, Stores, Bridge

`Presence`: `calls` are the requests at the bridge, sent, or broadcasting a
message to one page after another (`todo`, `Broadcast`), or about to answer; `With`
and `Without` are a list of sessions with one more or one less. The event loop
runs a request until it waits for a page (`Idle`). Clients give up after five
seconds (`GiveUp`), and what they sent is handled all the same. A heartbeat that finds
no session makes one (`Heartbeat`), which is how a restart of the bridge heals. `page`
is what each page shows and an outstanding list; `stale` is history: a list was
shown over newer messages. `Coming` is what a page will be told of an agent by the messages on their
way to it, by which the properties compare a page (`Session`) with the store. A
client is an `AgentClient` or, in `left.servers`,
an MCP server, which begins its session at its first tool call, reports each
one, and starts no loop if it was not answered.

`TaskBoard`: `rows` is the table, `copy` each task client's record, which it writes
back whole, `child` the subtask saved and not yet listed, `tool` the claim or
completion an MCP server is in. `undated` is history: tasks made done by a call
that dates nothing.

`EventFeed`: writers go on meanwhile (`MemoryGrows`). A poll reads the streams'
counters, then the rows above what it saw last (`Above`), sends them one by one, and takes the counter it read for what it saw; `news`
is history: events that were above every earlier one of their stream.

`Stores`: `stored` is the stream, a row at a time; a call reads it, decides what to
append, and appends it row by row; a sync appends, in their order (`Ascending`), the
messages that are `Absent` and `New`, none that an earlier one equals. A document's text then goes into the `index` of
the process, which a restart empties. `clash` is history: what two calls were
about at a time.

`Bridge` puts them next to each other. They share nothing but `left`, the share of
operations that a behaviour is given, so one run checks each of them by itself.

## 3. The runs

| Run | Instance and bounds | Why that is enough |
|---|---|---|
| `event_log` | 3 calls, 2 processes, 2 workspaces, 3 payloads (a memory, a grant, a revocation); replays of every moment, pages of one, feeds of one or two | the chain properties relate two rows and the read of a third call; two equal payloads collide, two workspaces can be confused, one process can die without the other; a grant and its revocation may be committed in either order |
| `event_log_live` | 2 calls, 2 processes, 1 workspace | calls wait for each other only through the event loop of a shared process |
| `memory_stream` | 4 jobs of any of 9 kinds, 2 engines, 2 streams; or a run of 2 turns with 2 more SDK appends or checkpoints, or with 1 of these or an engine's append; contexts of `Recent` = 1 | snapshot, restore and an append before and after; two appends, a deletion and a merge; a checkpoint of the run's and one of another writer's |
| `agent_lifecycle` | 3 operations of write, pause, resume, 2 clients in 2 processes, registration as a fourth task, `MaxFaults` = 1 | a pause, a write that waits and one that is stale; `terminated` behaves as `paused` but for its name; two first constructors. Not enough for a registration that is overtaken *and* seen by a later client, which takes three clients: the proof found it, and holds for any number |
| `coordinator` | every plan of 1 or 2 tasks, 8 shapes of 3; 3 agents, 2 capabilities | chain, fork, join, triangle, backwards chain, cycles with a task behind and one beside |
| `recovery` | 3 calls (two equal status changes and a memory), 1 disaster, 2 runs | two events that collide, one that is dropped, one run that dies and one that goes over its rows; the bounds are `MaxRuns`, `MaxDisasters` and the constraint `TwoStatusChanges` |
| `blob_store` | 2 processes, one without a table of manifests, 2 calls (2 chunks, 1 chunk), 2 starts, rotations up to 3 keys | each call stores or retrieves; a stale adapter needs two processes and a rotation, a restart needs a second start; a key may be retired twice |
| `chain` | 2 processes of the live SDK, 2 tasks of the adapter, 2 wallets; 4 calls, or 3 transactions, or 3 calls and 1 transaction; `MaxU64` = 2, `Page` = 1; the chain empty or with one workspace, agent and stream | two getters of one name and a publish; a publish that lands late and a read; a grant, its revocation and an append; counters that are full, a page that is too small |
| `mesh` | 2 agents, a vote, a pipeline and a broadcast of which any two run, 3 events, 2 operations, 1 watch, posts to the bridge | two patterns that share an agent, or a pattern and a watch or a subscription; three events are one more than any pattern waits for |
| `bridge` | 13 shares: presence with 4 operations of two clients, 3 with pages, 3 of two MCP servers; 4 operations on the board by 2 task clients, 2 servers and the bridge, 2 tasks; a connection with 3 writers of append, SDK append and delete on one stream; 7 stores with 4 calls of 2 tasks each (pydantic_ai, whose sync is openai's, 3); `MaxCalls` = 2 | a start, an end and a restart that overlap; a subtask and a stale copy; two writers during a poll; two syncs and a restart of a conversation in which a message occurs twice |

`event_log`, `event_log_live`, `memory_stream` and `agent_lifecycle` check deadlock:
each has a step that is enabled only when every operation has ended (`Done`, `Rest`), so a call
that can neither go on nor fail is reported. The others stop when their bounded
work is done, and are checked without.

Two further runs show a sentence of the documentation or of a tool's description
that the code does not keep: `recovery_everything` (no memory survives a wipe,
because the header on the chain carries the constant `cli-unsigned` for a
signature) and `task_claim` (two MCP servers claim one task, since listing,
reading and saving are three transactions).

### Disagreements noticed and not made into runs

Between code and documentation:

- A paused agent can publish (`docs/api_reference.md:93`): a write that waits for
  the registration replaces the identity by a replay (`agent.py:97`).
- A terminated agent can be resumed (`docs/api_reference.md:124`); `_set_status`
  does not look at the status it replaces.
- A registration made again signs with the old private key (`docs/concepts.md:41`,
  `agent.py:113`, `sqlite_ledger.py:733`).
- Concurrent appends leave an event on no chain from the head (`SPEC.md:289`,
  `memory.py:142,158`); the head is not always the most recent event
  (`docs/architecture.md:118`); `timeline` is ordered by epoch, not by time
  (`memory.py:281`); memory events of the engine are never anchored
  (`docs/concepts.md:231`).
- Increments of a counter are not atomic between processes (`sqlite_ledger.py:658`).
- A shredded blob can still be read (`docs/faq.md:128`; `walrus.py:505,271`), and
  `shred_key` does not retire the key's record (`walrus.py:494`).
- A failed anchor is not retried on reconnect (`docs/recovery.md:244`); after a
  recovery the chain continues from the oldest recovered event, not the last
  (`docs/recovery.md:140`), because all recovered rows tie at the empty timestamp.
- Queries of anchored events return the first page only, and the capability of an
  expired grant still passes on chain (`memory.move:162`, epoch 0); a revocation on
  chain does not reach the rows (`SPEC.md:783`); a second, wider grant in the live SDK is
  not seen, since the first row is read (`live.py:271`).
- `watch` receives nothing where the agent has a callback on the stream, against its
  docstring (`event_bus.py:194`).
- `list_permissions` looks the owner of a Sui object up among stream ids, so that
  the agent is never found (`walrusos_bridge.py:356`), and names bits 4 and 8 admin
  and publish, where `identity.move` has `CAP_FORK` and `CAP_MERGE`; nothing posts to the bridge's
  coordination endpoints; its websocket never shows SDK events, whose epoch is 0
  (line 1416).
- `StreamClient.get` raises where its docstring says None;
  `increment_agent_counters` says "Atomically".

Of the code alone: a client that is built from the agent's row before the first
constructor has stored its key (`agent.py:113-131`), and whose first write finds no
registration in the log yet, registers the agent with a key of its own
(`agent.py:168-171`), which is then the stored one, so that a later client signs
with another private key than the public key it names; `time_travel.py` cannot be imported (line 143);
`workspace.checkpoint` and the MCP tool `workspace_sync` always raise;
`migrate_v0_to_events` fails if two workspaces have one name; the signed anchor of
`SuiIdentityAdapter` passes an argument too many; `latest(n)` returns the *oldest*
events of a stream that only the SDK wrote to (`search.py:68`), the checkpoint
of a recall is the oldest for the same reason (`context.py:173`), and an automatic checkpoint is made
only at exact multiples (`summarizer.py:70`); a session's callback stays with the
presence store after its page is gone; `sync_messages` drops a message that is
rightly said twice; tombstones of `llamaindex` and `openai` are read by nobody;
a page of memories may be empty although more match, since the stream is filtered
after the limit (`walrusos_bridge.py:873`); a list that arrives late overwrites newer
messages on the presence page.

## 4. Fairness

`EventLog!FairSpec` assumes weak fairness of the return of each of a call's
suspensions: httpx has timeouts and the adapter a bounded number of retries
(`walrus.py:281`), the Sui command is given up after 60 s (`sui_real.py:177`), and a
coroutine that can run is run. That the transaction lands is *not* assumed, nor
that a process survives. `Coordinator!FairSpec` assumes weak fairness of the whole
call: each await in it ends (language model 30 or 60 s, `llm.py:80,117`; bridge
2 s; the two services as above). `Presence!PresenceFair` assumes that the bridge's
event loop serves every request and every message, the oldest first, and that
the heartbeat loop of a client that is online goes on (`KeepAlive`; `agent.py` and
`mcp/server.py` sleep ten seconds and catch what a heartbeat raises). Not assumed: that a
client is answered in time, that it stays online, or that the bridge is not
restarted; restarts are bounded by the share. No other run states liveness.

## 5. What is proved

`EventLogProofs`, for any sets of calls, processes, workspaces, payloads and
streams, under the assumptions `CallsAssumption` and `PayloadsAssumption`
(the functions among the constants are functions), and of `Replay` under
`ChangeAssumption` too:

1. `TypeCorrect`: `TypeOK` is inductive.
2. `OneRowPerCallHolds`: inductive with `TypeOK`; only `Commit` adds a row, and its
   guard keeps ids apart.
3. `LinksClosedHolds`, `ForkOnlyByOverlapHolds`: neither is inductive, since a call
   holds a link it has not yet committed. `ChainInv` says the same of every row and
   of every link in flight: it names no predecessor and has seen no row of its
   workspace, or its predecessor is in the table, of its workspace, older than it,
   and no older than any row it saw; and it was stamped, and saw what it saw, in
   the past. Rows are never removed and a new row's id is fresh, so what held when
   the link was made holds when it is committed (`LinkedStays`).
4. `AnchorIsBackedHolds`: with `AnchorInv`, which adds when a call's transaction is
   sent: not before the upload returned, and by the time it is anchoring.
5. `MemoryFollowsLogHolds`: with `MemoryInv`, which adds that a row has the id and
   the payload of the call that wrote it, on which `Index` relies.
6. `ImplementsLog`: initial states map to initial states; each step adds at most one
   row, after its predecessor, or stutters.
7. `ReadersStaySound`, the action property about readers, at any moment, offset and
   limit. It needs `StampInv`: there are finitely many rows, events committed or in
   flight have timestamps of their own, and each is later than the events its writer
   had seen. So a commit adds one row (`CommitAdds`), later than whatever its writer
   saw and at no other row's time. An order by timestamp is what comes at each place,
   and a row's place is how many rows are no later than it, or no earlier (`Ranks`,
   `SortedRanks`). A replay of a moment before all calls in flight has its rows at
   their places still and, before each, the same grants, whatever a fold over them
   computes (`ReplayStaysHolds`); a memory's place from the latest never falls, so it
   is not moved onto a page already read (`PagesMissNothingHolds`); and only what the
   new event had not seen can be ahead of it in the feed (`ActivityShowsNewHolds`).

`CoordinatorProofs`, for any plans, agents and capabilities, under
`PlansAssumption` and `AgentsAssumption`: `CoordinatorInv` says, besides types,
that nothing has happened before there is a plan (`NothingYet`), that only tasks
of the batch under gather are in flight (`OneBatch`), what a task's status says
of its coroutine (`StatusTells`), that a task leaves `idle` only with its
dependencies completed and a completed task has returned (`DependenciesFirst`),
that a prompted task has read all of them (`ReadAll`), and that a task is in the
stream just when it has written (`Written`). `PromptsComplete` and
`StreamOrdered` follow from it. `AgentsRest` adds `RestInv`: an agent shown as
working has a task that is not at its end, that raised, or that could not set it
to idle. `EndIsHonest` adds `EndInv`: what a status says once a task is no longer in
the batch (`Statuses`), what the counts are of (`Counted`), that the events list
the done tasks once each (`EventsCounted`), and that each round has started a task
that had not been started (`RoundsCounted`), so that there are no more rounds than
tasks, and the loop never leaves for its bound of rounds with a task that could run.

`BlobStoreProofs`, for any processes, calls, sizes of payloads and bounds, under
`ProcessesAssumption`, `PartsAssumption` and `BoundsAssumption`. Two inductive
invariants, one on top of the other:

- `Inv` holds whatever the processes race over. `KeyTypes` adds to the types what
  where a process is says of what it is about to use: that there is a key to load,
  a secret to wrap with, a key to retire. `HeadersNamed`: a header names a key of
  the table, of which no row is ever taken away (`KeysStay`). `PayloadInv`: a
  manifest lists all parts of its payload in order, a row of `blob_manifests` is
  the manifest's list, and each call has stored, or fetched, the first parts and
  holds the ids of the others (`Storing`, `Fetching`). `TypeCorrect` and
  `PayloadsWhole` follow. That there is a *first* active key is by well-founded
  induction on the naturals (`FirstActiveIsActive`).
- `KeyInv` holds until `contested`: one process at most is making a key, the first
  key is made only if there is none, what it is wrapped with is what the secret
  file will give (`OneMaker`), the key to be retired is the active one, and so
  there is one active key and all open (`OneActive`), and the adapter's id and DEK,
  and every header and its blob, are of one key (`HeadersTrue`).
  `KeysAlwaysOpen` and, with `HeadersNamed`, `BlobsAlwaysResolvable` follow.

`MemoryStreamProofs`, for any jobs, engines and streams, under `JobsAssumption`,
`StreamsAssumption` and `KindsAssumption`, and of `Recall` under
`RecentAssumption` too. `RecallIsStream` is a refinement: every behaviour of `Recall`
is one of `MemoryStream`, so that what follows from `StreamInv` holds with
checkpoints, contexts and runs as well. `StreamInv` says what a job holds at each
stage (`JobsSound`); that a parent named by a row, a job or a snapshot was committed
(`ParentsStand`); of a stream that one engine numbers, that its rows' epochs, its
counter and the engine's cache agree (`CachesSound`, `EpochsSound`), and that one
writer makes one chain (`OneWriter`); how far a restore has copied (`RestoresSound`)
and what a snapshot holds (`SnapshotsSound`).

- `StreamsSound`, `EpochsArePositions` and `RestoresAreCopies` follow. The timeline
  is the rows at their `Place`s; that places are a permutation is by counting
  (`Places`), and that a restored stream's epochs put its rows in the order of the
  snapshot by `CopiedInOrder`.
- `NothingIsEverForgotten`: `SeenKept` says of each checkpoint, written or still to
  be, that what it covers is in it or stays in every context without it; a
  checkpoint reads the timeline before it writes, and what is written meanwhile
  comes after it.
- `RunsAreToldThemselves`, an action property: what a prompt was built from
  (`RunSound`) holds the run's own turns, however many other writers there are,
  since a context keeps the newest `Recent` and those are read when it is built.
- `ReadsAreNewest`: where one engine numbered a stream its epochs are its positions,
  and where only the SDK wrote they are all 0 and the order is that of insertion
  (`InOrderRows`), so a timeline is the rows. Whatever is read picks rows by place:
  `RowsAtPlaces` says by counting what stands at each, `RowsAtInterval` that a window
  is a part of the rows, `OrderedDown` that the query by epoch turns them around. A
  recall's memories are those of the rows because the engine's own events are never
  summaries (`TextsSound`), and a budget cuts only at the end (`WithinRows`,
  `FirstTurned`).

`AgentLifecycleProofs`, for any clients, operations and processes, under
`OpsAssumption`. `Sound` is inductive by itself: what a task appends at each stage
(`Staged`), that there is a row as soon as anybody has seen one (`RowFirst`), and
that the log's events have times apart (`Stamped`). Upon it rest

- `KeyedSound`, unless the registration was torn: one key pair is made while there
  is no row, and it is the row's that is stored and signs (`SignaturesVerify`);
- `ToldSound`: a client that was told of a stop has a view that says so, or waits
  for a status event of its own, and the log still says it
  (`StaleUntilRefreshHolds`). The latest event of a set is by well-founded
  induction on its time;
- `CountSound`: the counter is at most the number of writes that have returned, and
  equal to it when one process alone wrote;
- `Agreement`: of changes under way and registrations with the row, from which,
  with the two before, `RecordsAlwaysAgree`.

The proof of `KeyedSound` failed at first, for a good reason: a later client that
takes the row before its key is stored registers the agent with a key of its own
(section 3). TLC's instance has too few clients to show a signature that then fails;
`torn` covers the case.

The second half of `EventLogProofs` is about `Recovery`, for any calls, processes,
workspaces, runs and losses, under
`KeyedAssumption` and `BoundsAssumption`. `OneRowPerCall` and `ChainInv` of
its first half do *not* survive here: a row that was recovered stands for a call
that may have failed, and what an append had seen of the table may be gone. What is
left of them is `RecoveryInv`: when a transaction is sent and what it carries
(`SentSound`), that the chain and what a run read of it list what landed once
(`HeadersSound`), that what a run has passed and not dropped is in the table
(`PassedSound`, `AloneSound`), that what refused it is there too (`RefusedSound`), and
that every predecessor named by a row or an event in flight is there and older
(`ParentsSound`). `RecoveryIsSound`, `AbortsAreTwins` and `RecoveredLinksClosed`
follow, and `RowsAreKept`, an action property: no step of a run changes or takes away
a row.

`LiveClientProofs`, of the contracts, the adapter and the live SDK together, for any
wallets, processes, clients and names, under `WalletsAssumption`,
`WalletAssumption`, `PageAssumption`, and the assumptions on what can be granted
and on `MaxU64`. Two inductive invariants:

- `ChainInv`, of the objects and events: types by kind (`ChainTypes`), that each
  event tells of objects there are (`EventsTrue`), that a stream has its creation
  (`StreamsMade`) and an agent counts its capabilities (`CapabilitiesCounted`), with
  the three parts of `ChainSound`. That epochs have no gap needs the cardinality of
  the set of appends to one stream. `ChainStaysSound` follows, whoever calls.
- `RowsInv` on top of it, of the rows and calls: what a call carries at each step is
  on the chain once it is to be inserted (`CallsSound`, `TablesSound`), ids of
  publishes are apart and none has returned that is not inserted (`IdsSound`), a read
  has got a beginning of what it selected, in order (`ReadsSound`), and the adapter's
  creators and rows (`ObjectRowsSound`). `RowsStayBacked`, `HandlesAgree`,
  `ReadsArePublished` and `LocksAreTorn` follow.

`BridgeProofs`, for any clients, servers, tasks, agents, pages, requests,
connections, streams, callers and conversations. Four invariants, since the parts
share nothing:

- `BoardInv`: the table's ids have no gap, and each row, each client's copy, each
  subtask on its way and each tool's record is one that `BoardSound` allows of the row
  it may replace (`RowsSound`, `CopiesSound`, `ChildrenSaved`, `ToolsSound`).
- `PresenceInv`: a request holds one message that it has still to send to some pages
  (`PresenceTypes`, `Queued`), a page that subscribes while a message is on its way is
  among them, or reads the store after it (`JoinsFollowed`), who is discovered is
  online, and each page shows of each agent what the store has, or will by the
  messages on their way (`PagesSound`). A message leaves the list that it is told
  from, so the last one that says something of an agent is the same before and
  after (`MessagesMove`, `QueueMoves`).
- `FeedInv`, on top of `StreamInv`: the rows between what a connection saw and the
  counter that it read are sent, or in what the poll has still to send
  (`ConnectionSound`), whatever is written meanwhile.
- `StoresInv`: a sync has appended, or has still to append, each message that it was
  given (`SyncSound`); unless syncs overlapped, the stored turns are a beginning of
  the conversation and will be when it has appended the rest (`TurnsSound`,
  `AheadSound`); `DocumentsSound` and `MarksSound` say the same of the index and of
  clears and checkpoints. `ChatAssumption`: the conversation is a sequence. That the
  missing messages are appended in their order is by counting (`Ordered`).

`CollaborationProofs`, for any agents, watches and jobs, pipelines of any length and
any number of events, under `KindAssumption` and `MembersAssumption`. Two invariants,
which are kept together:

- `MeshInv`, of the queues: no two agents share a queue object and no watch reads that
  of another agent (`QueuesApart`, which a queue made once too often would break), a
  queue holds published events in order (`QueuesSound`), and what was published since
  an agent subscribed is in its queue or was given to it (`PollsSound`). That a queue
  may be an old one, which a watch still holds after its agent unsubscribed and
  subscribed again, is why the watches are part of it. `PollsLoseNothing` follows.
- `JobInv`, of the patterns: a callback is subscribed once, by its own job, and never
  again after it was taken off (`CallbacksOnce`); what its job took, what is in its inbox
  and what its scheduled tasks will bring are, in this order, all the answers up to
  some event, the newest as long as it is subscribed (`HearsOf`). On this rest how far
  a vote or a broadcast (`TakesOf`) and a pipeline (`StepsOf`) are: a timeout finds
  inbox and tasks empty, so there were no more answers, or the subscription was taken
  away; and a pipeline's waiting stage has been subscribed since before its
  predecessor's event, so the second is all that is left.
  `AnswersAreComplete` and `PipelinesRun` follow.

Types (`TypeOK`) are proved of `EventLog` and `BlobStore`, as part of `SoundAlways`
of `AgentLifecycle`, and inside the other invariants, and are not a property of a
run. `OneRowPerCallHolds` and `AnchorIsBackedHolds` are the two halves of
`AppendDelivers`, which `AppendDeliversHolds` puts together.

Model-checked only: liveness (`EveryCallEnds`, `CoordinateReturns`,
`OnlineIsPresent`), which is out of the provers' reach, as `ENABLED` is. Every
safety property of a passing run is proved.

## 6. Plan

Modelled, in this order: `EventLog` and its refinement, `MemoryStream`,
`AgentLifecycle`, `Coordinator`, `Recovery`, `BlobStore`; then `Contracts` with
`StreamObjects` and `LiveClient`, `EventMesh` with `Collaboration`, `Presence`,
`TaskBoard`, `EventFeed`, `Stores`, and the readers `Replay` and `Recall`.

Proved, in this order: the core's chain and anchors, the coordinator, blobs and
lifecycle; then recovery, streams and contexts, the chain and the bridge; last what
readers are shown, of the log and of the streams. What is left to model is in
section 7. What is left to prove, liveness, takes a prover that knows of fairness.

## 7. Not modelled

- *Test doubles*: the in-memory ledger, store and wallet adapters.
- *Scores*: the floating-point part of ranking and the vector search, whose results
  any order would do for; what a text costs in tokens (a line costs one here).
- *Language models*: what they answer is drawn at random where it matters (plans,
  votes, DONE), and left out elsewhere.
- *Time travel*: the module raises at import, so it has no behaviour.
- *Topic subscriptions* of the event bus, which share no state with the streams'.
- *Read-only endpoints and tools* that list one table, the pages' layout, the
  command line (each command is one call of what is modelled, from one more
  process), `connect.py`, configuration, scripts, examples and benchmarks.
- *Migration* of old files, which runs once before anything else, and the
  workspace rows and object ids of the Sui adapter.
- *Branches that cannot be reached*: the re-indexing of a recovered memory; the
  background anchor of a memory event.

Cryptography is abstract throughout: hashes are injective, a signature is valid
for the key that made it.
