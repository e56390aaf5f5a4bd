--------------------------- MODULE AgentLifecycle ---------------------------
(***************************************************************************)
(* One agent of the SDK (src/walrusos/sdk/agent.py) and everything that    *)
(* says what its status is: the row of table agent_identities, the events  *)
(* in the log, from which replay_agent folds the agent's identity, and the *)
(* _identity each AgentClient keeps.  workspace.agent(name) builds a new   *)
(* client on every call, so several of them, in one process or in many,    *)
(* speak for the same agent.                                               *)
(*                                                                         *)
(* pause, resume and terminate are synchronous: they set the row and the   *)
(* client's view, and leave the append of their event to a task.  A write  *)
(* checks the client's view before it suspends in EventStoreEngine.append, *)
(* whose suspensions (storing, anchoring) are those of EventLog.           *)
(***************************************************************************)
EXTENDS Integers, FiniteSets

CONSTANTS
  Ops,          \* calls of write, pause, resume and terminate
  Kinds,        \* what each may be: "write", or a status to be set
  Clients,      \* AgentClient objects for the one agent
  ClientOf,     \* the client an operation is called on
  Processes,
  ProcessOf,    \* the process a client lives in
  Nobody,       \* no key pair
  MaxFaults     \* bound: processes that die and blobs that are not stored

Status == {"active", "paused", "terminated"}

ASSUME OpsAssumption == /\ Kinds \in [Ops -> SUBSET (Status \cup {"write"})]
                        /\ ClientOf \in [Ops -> Clients]
                        /\ ProcessOf \in [Clients -> Processes]
                        /\ Ops \cap Clients = {}
                        /\ Nobody \notin Ops \cup Clients
                        /\ MaxFaults \in Nat

\* Whoever appends events: an operation, or the registration a client's
\* constructor starts.  A key pair is named after the task that generated it.
Tasks == Ops \cup Clients
Owner(x) == IF x \in Clients THEN x ELSE ClientOf[x]
Process(x) == ProcessOf[Owner(x)]

VARIABLES
  stage,     \* where each task is
  doing,     \* the event it is appending
  link,      \* the previous event and the timestamp of that event
  envelope,  \* the identity a write has put in its payload, and signs with
  row,       \* the agent's row of agent_identities
  key,       \* the private key stored for the agent
  counter,   \* column memory_counter of the row
  local,     \* what increment_agent_counters read of it
  log,       \* the agent's rows of protocol_events
  clock,     \* what datetime.now() returns next
  view,      \* _identity of each client
  pending,   \* _pending_tasks of each client
  awaited,   \* the tasks a write gathers before it starts
  faults,    \* deaths and failed uploads so far
  \* History, for the properties:
  told,      \* the status a client's last completed write found in the log,
             \* unless the agent has been resumed since
  note,      \* that status, when a write passed the check
  muddled,   \* a status change overlapped another, or one of them was lost
  torn       \* the stored key may not be the row's: two clients found no row, and
             \* each registered the agent; or, before the key of the row was
             \* stored, its process died or a write registered another

appends == <<stage, doing, link, envelope>>
tables == <<row, key, counter, log, clock>>
clients == <<view, pending, awaited>>
history == <<told, note, muddled, torn>>
vars == <<appends, tables, local, clients, faults, history>>

NoIdentity == [status |-> "none", key |-> Nobody]


Stage == {"idle",
          "creating", "keying",      \* in the constructor, between two commits
          "waiting",                 \* in the gather of the pending tasks
          "storing", "anchoring",    \* in the two awaits of append
          "counting", "counted",     \* running, between two commits
          "ok", "rejected", "failed", "lost"}
Synchronous == {"creating", "keying", "counting", "counted"}
InFlight == Synchronous \cup {"waiting", "storing", "anchoring"}

Kind == Status \cup {"registered", "memory"}

Identity == [status : Status, key : Tasks]

\* key: the public key in the payload of a registration or a write; signed:
\* the private key its signature was made with.
Event == [kind : Kind, by : Tasks, prev : Nat, ts : Nat \ {0},
          key : Tasks, signed : Tasks \cup {Nobody}]

\* What a process has in memory before it does anything.
Blank == [doing |-> [x \in Tasks |-> "none"],
          link |-> [x \in Tasks |-> [prev |-> 0, ts |-> 0]],
          envelope |-> [x \in Tasks |-> [key |-> x, signed |-> Nobody]],
          local |-> [o \in Ops |-> 0],
          pending |-> [c \in Clients |-> {}],
          awaited |-> [o \in Ops |-> {}]]

Init ==
  /\ stage = [x \in Tasks |-> "idle"]
  /\ doing = Blank.doing /\ link = Blank.link /\ envelope = Blank.envelope
  /\ row = NoIdentity
  /\ key = Nobody
  /\ counter = 0
  /\ local = Blank.local
  /\ log = {}
  /\ clock = 1
  /\ view = [c \in Clients |-> [status |-> "absent", key |-> Nobody]]
  /\ pending = Blank.pending /\ awaited = Blank.awaited
  /\ faults = 0
  /\ told = [c \in Clients |-> "active"]
  /\ note = [o \in Ops |-> "none"]
  /\ muddled = FALSE
  /\ torn = FALSE

-----------------------------------------------------------------------------
Earliest(evs) == CHOOSE e \in evs : \A f \in evs : e.ts <= f.ts
Latest(evs) == CHOOSE e \in evs : \A f \in evs : f.ts <= e.ts

(***************************************************************************)
(* ProjectionEngine.apply_agent_event folded over the events in timestamp  *)
(* order.  What precedes the first registration, and a second              *)
(* registration, raises ValueError and is skipped.                         *)
(***************************************************************************)
Projection(evs) ==
  LET registrations == {e \in evs : e.kind = "registered"}
      first == Earliest(registrations)
      changes == {e \in evs : e.kind \in Status /\ e.ts > first.ts} IN
  IF registrations = {} THEN NoIdentity
  ELSE [status |-> IF changes = {} THEN "active" ELSE Latest(changes).kind,
        key |-> first.key]

\* EventStoreEngine.replay_agent: what the agent's events say now.
ReplayAgent == Projection(log)

Constructing == {c \in Clients : stage[c] \in {"creating", "keying"}}

\* The log has yet to change the status of the agent, or to register it.
Changing == Constructing \cup
  {x \in Tasks : stage[x] \in InFlight /\ doing[x] \in Status \cup {"registered"}}

HasLoop(x) ==
  \A y \in Tasks \ {x} : Process(y) = Process(x) => stage[y] \notin Synchronous

\* Mistake: a new key replaces the one there is.
StoredLast(x) == x

\* A key is stored once and never overwritten.
Stored(x) == IF key = Nobody THEN x ELSE key

-----------------------------------------------------------------------------
\* AgentClient(): the identity is taken from the row, if there is one.
Construct(c) ==
  /\ view[c].status = "absent" /\ stage[c] = "idle"
  /\ HasLoop(c)
  /\ IF row = NoIdentity
     THEN /\ stage' = [stage EXCEPT ![c] = "creating"]
          /\ torn' = (torn \/ Constructing # {})
          /\ UNCHANGED view
     ELSE /\ view' = [view EXCEPT ![c] = row]
          /\ UNCHANGED <<stage, torn>>
  /\ UNCHANGED <<faults, doing, link, envelope, tables, local, pending, awaited, told, note, muddled>>

\* create_agent_identity: another process may have made a row meanwhile.  It is
\* left as it is, or was made after the look, and the insert raises.
CreateRow(c) ==
  /\ stage[c] = "creating"
  /\ \/ /\ row' = IF row = NoIdentity THEN [status |-> "active", key |-> c] ELSE row
        /\ stage' = [stage EXCEPT ![c] = "keying"]
        /\ UNCHANGED view
     \/ /\ row # NoIdentity
        /\ view' = [view EXCEPT ![c].status = "dead"]
        /\ stage' = [stage EXCEPT ![c] = "failed"]
        /\ UNCHANGED row
  /\ UNCHANGED <<faults, doing, link, envelope, key, counter, log, clock, local, pending, awaited, history>>

\* The key is stored, the new identity is the client's, and a task is started
\* that appends the registration.
StoreKey(c) ==
  /\ stage[c] = "keying"
  /\ key' = Stored(c)
  /\ view' = [view EXCEPT ![c] = [status |-> "active", key |-> c]]
  /\ stage' = [stage EXCEPT ![c] = "storing"]
  /\ doing' = [doing EXCEPT ![c] = "registered"]
  /\ pending' = [pending EXCEPT ![c] = {c}]
  /\ UNCHANGED <<faults, link, envelope, row, counter, log, clock, local, awaited, history>>

Entered(o) ==
  stage[o] = "idle" /\ view[ClientOf[o]].status \notin {"absent", "dead"} /\ HasLoop(o)

\* Mistake: the row and the view are left to the event.
SetStatusLater(o, s) ==
  LET c == ClientOf[o] IN
  /\ Entered(o)
  /\ s \in Kinds[o]
  /\ view[c].status # "none"
  /\ pending' = [pending EXCEPT ![c] = @ \cup {o}]
  /\ stage' = [stage EXCEPT ![o] = "storing"]
  /\ doing' = [doing EXCEPT ![o] = s]
  /\ muddled' = (muddled \/ Changing # {})
  /\ UNCHANGED <<faults, view, link, envelope, tables, local, awaited, told, note, torn>>

\* update_agent_status: of the row, which is there.
UpdateStatus(s) == row' = [row EXCEPT !.status = s]

\* _set_status: row, view, and a task for the event, whatever the status was.
SetStatus(o, s) ==
  LET c == ClientOf[o] IN
  /\ Entered(o)
  /\ s \in Kinds[o]
  /\ view[c].status # "none"
  /\ UpdateStatus(s)
  /\ view' = [view EXCEPT ![c].status = s]
  /\ pending' = [pending EXCEPT ![c] = @ \cup {o}]
  /\ stage' = [stage EXCEPT ![o] = "storing"]
  /\ doing' = [doing EXCEPT ![o] = s]
  /\ muddled' = (muddled \/ Changing # {})
  /\ UNCHANGED <<faults, link, envelope, key, counter, log, clock, local, awaited, told, note, torn>>

\* The client has lost its identity: self._identity.agent_id raises.
SetStatusRaises(o) ==
  /\ Entered(o)
  /\ Kinds[o] \cap Status # {}
  /\ view[ClientOf[o]].status = "none"
  /\ stage' = [stage EXCEPT ![o] = "failed"]
  /\ UNCHANGED <<faults, doing, link, envelope, tables, local, clients, history>>

\* load_agent_private_key: a write carries the public key of its identity and is
\* signed with the private key of the agent that is stored.
Envelope(v) == [key |-> v.key, signed |-> key']

\* The check of _write_event on the client's view v: with no identity,
\* self._identity.status raises; an admitted write builds and signs its
\* envelope and goes on to append it.
Check(o, v) ==
  LET admitted == v.status = "active" IN
  /\ stage' = [stage EXCEPT ![o] = CASE admitted -> "storing"
                                     [] v.status = "none" -> "failed"
                                     [] OTHER -> "rejected"]
  /\ doing' = IF admitted THEN [doing EXCEPT ![o] = "memory"] ELSE doing
  /\ envelope' = IF admitted THEN [envelope EXCEPT ![o] = Envelope(v)]
                 ELSE envelope
  /\ note' = IF admitted THEN [note EXCEPT ![o] = told[ClientOf[o]]] ELSE note

\* _write_event on a client with an identity and nothing pending.
WriteNow(o) ==
  LET c == ClientOf[o] IN
  /\ Entered(o)
  /\ "write" \in Kinds[o]
  /\ pending[c] = {}
  /\ view[c].status # "none"
  /\ UNCHANGED <<faults, link, tables, local, clients, told, muddled, torn>>
  /\ Check(o, view[c])

\* _ensure_initialized gathers the pending tasks first.
WriteWaits(o) ==
  LET c == ClientOf[o] IN
  /\ Entered(o)
  /\ "write" \in Kinds[o]
  /\ pending[c] # {}
  /\ stage' = [stage EXCEPT ![o] = "waiting"]
  /\ awaited' = [awaited EXCEPT ![o] = pending[c]]
  /\ UNCHANGED <<faults, doing, link, envelope, tables, local, view, pending, history>>

\* They have ended, raised or not: the list is cleared, whatever was added to
\* it since, and the view comes from the log.
Gathered(o) ==
  LET c == ClientOf[o] IN
  /\ stage[o] = "waiting"
  /\ HasLoop(o)
  /\ \A x \in awaited[o] : stage[x] \in {"ok", "failed"}
  /\ awaited' = [awaited EXCEPT ![o] = {}]
  /\ pending' = [pending EXCEPT ![c] = {}]
  /\ view' = [view EXCEPT ![c] = ReplayAgent]
  /\ UNCHANGED <<faults, link, tables, local, told, muddled, torn>>
  /\ Check(o, ReplayAgent)

\* A client without an identity replays the log, and registers the agent
\* under a new key if that gives none.
WriteReplays(o) ==
  LET c == ClientOf[o]
      v == ReplayAgent IN
  /\ Entered(o)
  /\ "write" \in Kinds[o]
  /\ pending[c] = {}
  /\ view[c].status = "none"
  /\ view' = [view EXCEPT ![c] = v]
  /\ UNCHANGED <<faults, link, tables, local, pending, awaited, told, torn>>
  /\ IF v = NoIdentity
     THEN /\ stage' = [stage EXCEPT ![o] = "storing"]
          /\ doing' = [doing EXCEPT ![o] = "registered"]
          /\ muddled' = (muddled \/ Changing # {})
          /\ UNCHANGED <<envelope, note>>
     ELSE Check(o, v) /\ UNCHANGED muddled

-----------------------------------------------------------------------------
\* EventStoreEngine.append, for whatever task x is appending.

\* The payload is stored; the latest event is read and the new one stamped.
Prepare(x) ==
  /\ stage[x] = "storing"
  /\ HasLoop(x)
  /\ link' = [link EXCEPT ![x] = [prev |-> IF log = {} THEN 0 ELSE Latest(log).ts,
                                  ts |-> clock]]
  /\ clock' = clock + 1
  /\ stage' = [stage EXCEPT ![x] = "anchoring"]
  /\ UNCHANGED <<faults, doing, envelope, row, key, counter, log, local, clients, history>>

\* An event's id is a hash of payload and previous hash, and the payload of a
\* status event is the status alone.
Taken(x) == \E e \in log : e.kind = doing[x] /\ e.kind \in Status /\ e.prev = link[x].prev

EventOf(x) == [kind |-> doing[x], by |-> x, prev |-> link[x].prev, ts |-> link[x].ts,
               key |-> envelope[x].key, signed |-> envelope[x].signed]

\* The row is committed.  A task that was started for it ends.
Commit(x) ==
  /\ stage[x] = "anchoring"
  /\ HasLoop(x)
  /\ ~Taken(x)
  /\ doing[x] \in Status \/ x \in Clients
  /\ log' = log \cup {EventOf(x)}
  /\ stage' = [stage EXCEPT ![x] = "ok"]
  /\ told' = IF doing[x] = "active" THEN [c \in Clients |-> "active"] ELSE told
  /\ UNCHANGED <<faults, doing, link, envelope, row, key, counter, clock, local, clients, note, muddled, torn>>

\* A write goes on to count its event.
CommitWrite(o) ==
  /\ stage[o] = "anchoring"
  /\ HasLoop(o)
  /\ doing[o] = "memory"
  /\ log' = log \cup {EventOf(o)}
  /\ stage' = [stage EXCEPT ![o] = "counting"]
  /\ UNCHANGED <<faults, doing, link, envelope, row, key, counter, clock, local, clients, history>>

\* A write that had to register the agent stores the new key, if the agent
\* has none, replays the log, and is checked.
CommitRegistration(o) ==
  /\ stage[o] = "anchoring"
  /\ HasLoop(o)
  /\ doing[o] = "registered"
  /\ o \in Ops
  /\ log' = log \cup {EventOf(o)}
  /\ key' = Stored(o)
  /\ torn' = (torn \/ key = Nobody)
  /\ view' = [view EXCEPT ![ClientOf[o]] = ReplayAgent']
  /\ UNCHANGED <<faults, link, row, counter, clock, local, pending, awaited, told, muddled>>
  /\ Check(o, ReplayAgent')

\* store_blob gives up, or the event's id is taken: append raises.
Fail(x) ==
  /\ \/ stage[x] = "storing" /\ faults < MaxFaults /\ faults' = faults + 1
     \/ stage[x] = "anchoring" /\ Taken(x) /\ UNCHANGED faults
  /\ HasLoop(x)
  /\ stage' = [stage EXCEPT ![x] = "failed"]
  /\ muddled' = (muddled \/ doing[x] # "memory")
  /\ UNCHANGED <<doing, link, envelope, tables, local, clients, told, note, torn>>

\* increment_agent_counters reads the row, then writes it.
ReadCounter(o) ==
  /\ stage[o] = "counting"
  /\ local' = [local EXCEPT ![o] = counter]
  /\ stage' = [stage EXCEPT ![o] = "counted"]
  /\ UNCHANGED <<faults, doing, link, envelope, tables, clients, history>>

\* Mistake: the view is not refreshed after a write.
FinishWithoutRefresh(o) ==
  /\ stage[o] = "counted"
  /\ counter' = local[o] + 1
  /\ stage' = [stage EXCEPT ![o] = "ok"]
  /\ told' = [told EXCEPT ![ClientOf[o]] = ReplayAgent.status]
  /\ UNCHANGED <<faults, doing, link, envelope, row, key, log, clock, local, clients, note, muddled, torn>>

\* The write ends by refreshing the client's view from the log.
Finish(o) ==
  /\ stage[o] = "counted"
  /\ counter' = local[o] + 1
  /\ view' = [view EXCEPT ![ClientOf[o]] = ReplayAgent]
  /\ stage' = [stage EXCEPT ![o] = "ok"]
  /\ told' = [told EXCEPT ![ClientOf[o]] = ReplayAgent.status]
  /\ UNCHANGED <<faults, doing, link, envelope, row, key, log, clock, local, pending, awaited,
                 note, muddled, torn>>

\* A process dies with its clients and what they were doing.
Crash(p) ==
  LET dying == {x \in Tasks : Process(x) = p /\ stage[x] \in InFlight}
      After(record, blank) == [x \in DOMAIN record |-> IF Process(x) = p THEN blank[x] ELSE record[x]] IN
  /\ dying # {}
  /\ faults < MaxFaults
  /\ faults' = faults + 1
  /\ view' = After(view, [c \in Clients |-> [status |-> "dead", key |-> Nobody]])
  /\ stage' = [x \in Tasks |-> IF x \in dying THEN "lost" ELSE stage[x]]
  /\ doing' = After(doing, Blank.doing)
  /\ link' = After(link, Blank.link)
  /\ envelope' = After(envelope, Blank.envelope)
  /\ local' = After(local, Blank.local)
  /\ pending' = After(pending, Blank.pending)
  /\ awaited' = After(awaited, Blank.awaited)
  /\ muddled' = (muddled \/ dying \cap Changing # {})
  /\ torn' = (torn \/ dying \cap Constructing # {})
  /\ UNCHANGED <<tables, told, note>>

\* Nothing is in flight, and no operation is left that has a client.
Done == /\ \A x \in Tasks : stage[x] \notin InFlight
        /\ \A o \in Ops : stage[o] = "idle" => view[ClientOf[o]].status = "dead"
        /\ UNCHANGED vars

Next == \/ \E c \in Clients : Construct(c)
        \/ \E c \in Clients : CreateRow(c) \/ StoreKey(c)
        \/ \E o \in Ops : \/ \E s \in Status : SetStatus(o, s)
                          \/ SetStatusRaises(o)
                          \/ WriteNow(o)
                          \/ WriteWaits(o)
                          \/ Gathered(o)
                          \/ WriteReplays(o)
                          \/ CommitWrite(o)
                          \/ CommitRegistration(o)
                          \/ ReadCounter(o)
                          \/ Finish(o)
        \/ \E x \in Tasks : Prepare(x) \/ Commit(x) \/ Fail(x)
        \/ \E p \in Processes : Crash(p)
        \/ Done

Spec == Init /\ [][Next]_vars
-----------------------------------------------------------------------------
(***************************************************************************)
(* Properties                                                              *)
(***************************************************************************)

Memories == {e \in log : e.kind = "memory"}

\* Type invariant; no event is written without an identity.
TypeOK ==
  /\ stage \in [Tasks -> Stage]
  /\ doing \in [Tasks -> Kind \cup {"none"}]
  /\ link \in [Tasks -> [prev : Nat, ts : Nat]]
  /\ envelope \in [Tasks -> [key : Tasks, signed : Tasks \cup {Nobody}]]
  /\ row \in Identity \cup {NoIdentity}
  /\ key \in Tasks \cup {Nobody}
  /\ counter \in Nat
  /\ local \in [Ops -> Nat]
  /\ log \subseteq Event
  /\ clock \in Nat
  /\ view \in [Clients -> [status : Status \cup {"none", "absent", "dead"},
                          key : Tasks \cup {Nobody}]]
  /\ pending \in [Clients -> SUBSET Tasks]
  /\ awaited \in [Ops -> SUBSET Tasks]
  /\ told \in [Clients -> Status \cup {"none"}]
  /\ note \in [Ops -> Status \cup {"none"}]
  /\ faults \in 0 .. MaxFaults
  /\ muddled \in BOOLEAN /\ torn \in BOOLEAN

\* The two records of an agent's status agree: unless status changes
\* overlapped or one of them was lost, what replay_agent folds from the log
\* is what the row says, once the events of all changes have been appended;
\* and so are the public keys, unless the registration was torn.
StatusAgrees ==
  row # NoIdentity /\ ~muddled /\ Changing = {} =>
    /\ ReplayAgent.status = row.status
    /\ torn \/ ReplayAgent.key = row.key

\* A client that has not heard of a pause or a termination can still write,
\* but only until one of its writes completes after the event was committed:
\* from then on it rejects every write, until a resume reaches the log.
StaleUntilRefresh ==
  \A o \in Ops : note[o] \notin {"paused", "terminated"}

\* verify_event: the signature is by the private key of the pair whose public
\* key the payload names.
Verifies(e) == e.signed = e.key

\* An event that carries the public key of the agent's row verifies if it is
\* signed, whatever registrations follow the first; unless the key that was
\* stored is not the row's: two processes both found no row and made the row of
\* one key pair and stored the other, or the one that made the row died, or was
\* overtaken by a write that registered the agent anew, before it stored a key.
SignedByRowKey ==
  ~torn => \A e \in Memories : e.key = row.key /\ e.signed # Nobody => Verifies(e)

\* The counter never runs ahead of the log, and if one process wrote all the
\* memories it counts exactly the writes that returned.
CounterCounts ==
  /\ counter <= Cardinality(Memories)
  /\ Cardinality({Process(e.by) : e \in Memories}) = 1 =>
       Cardinality({e \in Memories : stage[e.by] = "ok"}) <= counter

\* The three records kept of an agent, its row, the log and the counter of its
\* memories, say the same of it.
RecordsAgree == TypeOK /\ StatusAgrees /\ CounterCounts
============================================================================
