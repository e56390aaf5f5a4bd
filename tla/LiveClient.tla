------------------------------ MODULE LiveClient ------------------------------
(***************************************************************************)
(* The live SDK (walrusos/sdk/live.py) over RealSuiClient: processes that  *)
(* share one SQLite file and one wallet, against the contracts.            *)
(*                                                                         *)
(* Each method looks into the file, sends a transaction with the sui       *)
(* command line, and writes the row.  The code is synchronous, so one      *)
(* process has one call at a time, but between these steps any other       *)
(* process can take its own, and a call can end anywhere: a timeout (after *)
(* which the transaction may still land), an aborted transaction, a reply  *)
(* that does not parse, a locked file, a process that is killed.           *)
(***************************************************************************)
EXTENDS StreamObjects

CONSTANTS
  Processes,
  Page          \* how many events one answer of a Sui node holds

ASSUME PageAssumption == Page \in Nat \ {0}

VARIABLES
  named,          \* rows of the tables workspaces, agents and streams
  capabilities,   \* rows of that table, in the order of their row ids
  events,         \* rows of that table
  blobs,          \* what Walrus holds
  ticks,          \* the clock, which also numbers uuids: no two are the same
  call,           \* the call each process is in
  late,           \* transactions whose caller gave up waiting for them
  handles,        \* every Workspace, Agent and Stream returned to a caller
  returned        \* ids of the publishes that returned

dbVars == <<named, capabilities, events>>
liveVars == <<dbVars, blobs, ticks, call, late, handles, returned>>
vars == <<chainVars, objectVars, left, liveVars>>

PERM_READ == 1
PERM_APPEND == 2
RetryAttempts == 3
Idle == [op |-> "idle"]
NoId == 0   \* of a row whose object has yet to be made

InCall(p, op, stage) == call[p].op \in op /\ call[p].stage = stage
NamedOps == {"workspace", "agent", "stream"}
TxOps == {"workspace", "agent", "grant", "publish"}

Ends(p) == call' = [call EXCEPT ![p] = Idle]
Begins(p, c) ==
  /\ call[p] = Idle
  /\ left.calls > 0
  /\ left' = [left EXCEPT !.calls = @ - 1]
  /\ call' = [call EXCEPT ![p] = c]
------------------------------------------------------------------------------
(* Get or create: WalrusOS.workspace, Workspace.agent, Workspace.stream. *)

Named(kind, name, of) == {r \in named : r.kind = kind /\ r.name = name /\ r.of = of}

\* Mistake: the row is inserted whether or not there is one.
NeverTaken(row) == FALSE

\* The primary key of the row is there already.
Taken(row) == Named(row.kind, row.name, row.of) # {}

Load(p, kind, name, of) ==
  /\ Named(kind, name, of) # {}
  /\ Begins(p, Idle)
  /\ handles' = handles \cup Named(kind, name, of)
  /\ UNCHANGED <<dbVars, ticks>>

\* A stream is local: it has a fresh uuid, and no transaction.
Create(p, kind, name, of) ==
  LET row == [kind |-> kind, name |-> name, of |-> of, id |-> NoId]
  IN /\ ~Taken(row)
     /\ IF kind = "stream"
          THEN /\ Begins(p, [op |-> kind, stage |-> "insert", row |-> [row EXCEPT !.id = -(ticks + 1)]])
               /\ ticks' = ticks + 1
          ELSE /\ Begins(p, [op |-> kind, stage |-> "send", row |-> row])
               /\ UNCHANGED ticks
     /\ UNCHANGED <<dbVars, handles>>

Get(p) ==
  /\ \/ \E n \in Names : Load(p, "workspace", n, 0) \/ Create(p, "workspace", n, 0)
     \/ \E ws \in {h \in handles : h.kind = "workspace"} :
          \/ \E n \in Names : Load(p, "agent", n, ws.id) \/ Create(p, "agent", n, ws.id)
          \/ \E n \in Names : Load(p, "stream", n, ws.id) \/ Create(p, "stream", n, ws.id)
  /\ UNCHANGED <<chainVars, blobs, late, returned>>

InsertNamed(p) ==
  /\ InCall(p, NamedOps, "insert")
  /\ ~Taken(call[p].row)
  /\ named' = named \cup {call[p].row}
  /\ handles' = handles \cup {call[p].row}
  /\ Ends(p)
  /\ UNCHANGED <<chainVars, capabilities, events, blobs, ticks, late, returned, left>>
------------------------------------------------------------------------------
(* Stream.grant *)

Grant(p) ==
  /\ \E a, s \in handles, g \in Grants :
       /\ a.kind = "agent" /\ s.kind = "stream" /\ a.of = s.of
       /\ Begins(p, [op |-> "grant", stage |-> "send",
                     row |-> [stream |-> s.id, agent |-> a.id, verbs |-> g, id |-> NoId]])
  /\ UNCHANGED <<chainVars, dbVars, blobs, ticks, late, handles, returned>>

InsertGrant(p) ==
  /\ InCall(p, {"grant"}, "insert")
  /\ capabilities' = Append(capabilities, call[p].row)
  /\ Ends(p)
  /\ UNCHANGED <<chainVars, named, events, blobs, ticks, late, handles, returned, left>>

\* _check_permission: the first row of the agent for the stream decides.
GrantsTo(a, s) == SelectSeq(capabilities, LAMBDA r : r.agent = a.id /\ r.stream = s.id)
May(a, s, bit) == GrantsTo(a, s) # <<>> /\ bit \in GrantsTo(a, s)[1].verbs
------------------------------------------------------------------------------
(* Agent.publish *)

Publish(p) ==
  /\ \E a, s \in handles :
       /\ a.kind = "agent" /\ s.kind = "stream" /\ a.of = s.of
       /\ May(a, s, PERM_APPEND)
       /\ Begins(p, [op |-> "publish", stage |-> "upload", attempt |-> 0,
                     row |-> [id |-> ticks + 1, stream |-> s.id, agent |-> a.id,
                              workspace |-> a.of]])
  /\ ticks' = ticks + 1
  /\ UNCHANGED <<chainVars, dbVars, blobs, late, handles, returned>>

\* upload_blob: after a server error, or no answer, the same bytes are sent
\* again; they may have been stored, and are then certified already.
UploadAgain(p) ==
  /\ InCall(p, {"publish"}, "upload")
  /\ call[p].attempt < RetryAttempts - 1
  /\ blobs' \in {blobs, blobs \cup {call[p].row.id}}
  /\ call' = [call EXCEPT ![p].attempt = @ + 1]
  /\ UNCHANGED <<chainVars, dbVars, ticks, late, handles, returned, left>>

Upload(p) ==
  /\ InCall(p, {"publish"}, "upload")
  /\ blobs' = blobs \cup {call[p].row.id}
  /\ call' = [call EXCEPT ![p].stage = "send"]
  /\ UNCHANGED <<chainVars, dbVars, ticks, late, handles, returned, left>>

InsertEvent(p) ==
  /\ InCall(p, {"publish"}, "insert")
  /\ events' = events \cup {call[p].row}
  /\ returned' = returned \cup {call[p].row.id}
  /\ Ends(p)
  /\ UNCHANGED <<chainVars, named, capabilities, blobs, ticks, late, handles, left>>
------------------------------------------------------------------------------
(* Agent.read *)

\* The rows are selected at once, by their times, and then gone through.
Oldest(rows) == {r \in rows : \A q \in rows : r.id <= q.id}

Read(p) ==
  /\ \E a, s \in handles :
       /\ a.kind = "agent" /\ s.kind = "stream" /\ a.of = s.of
       /\ May(a, s, PERM_READ)
       /\ Begins(p, [op |-> "read", stage |-> "download", stream |-> s.id, before |-> returned,
                     rows |-> {e \in events : e.stream = s.id}, got |-> <<>>])
  /\ UNCHANGED <<chainVars, dbVars, blobs, ticks, late, handles, returned>>

\* Mistake: a blob that is not there is skipped.
DownloadWhatIsThere(p) ==
  /\ InCall(p, {"read"}, "download")
  /\ \E r \in Oldest(call[p].rows) :
       call' = [call EXCEPT ![p].rows = @ \ {r},
                            ![p].got = IF r.id \in blobs THEN Append(@, r) ELSE @]
  /\ UNCHANGED <<chainVars, dbVars, blobs, ticks, late, handles, returned, left>>

\* download_blob: other errors are retried, but not that a blob is not found.
Held(id) == id \in blobs

\* One row after the other; a blob that is not there ends the call (Fail).
Download(p) ==
  /\ InCall(p, {"read"}, "download")
  /\ \E r \in Oldest(call[p].rows) :
       /\ Held(r.id)
       /\ call' = [call EXCEPT ![p].rows = @ \ {r}, ![p].got = Append(@, r)]
  /\ UNCHANGED <<chainVars, dbVars, blobs, ticks, late, handles, returned, left>>

Answer(p) ==
  /\ InCall(p, {"read"}, "download")
  /\ call[p].rows = {}
  /\ call' = [call EXCEPT ![p].stage = "answered"]
  /\ UNCHANGED <<chainVars, dbVars, blobs, ticks, late, handles, returned, left>>

TakeAnswer(p) ==
  /\ InCall(p, {"read"}, "answered")
  /\ Ends(p)
  /\ UNCHANGED <<chainVars, dbVars, blobs, ticks, late, handles, returned, left>>
------------------------------------------------------------------------------
(* RealSuiClient: the transaction of a call. *)

SendWorkspace(row) == CreateWorkspace(Wallet, row.name)
SendAgent(row) == RegisterAgent(Wallet, row.of, row.name)
SendGrant(row) == DelegateCapability(Wallet, row.stream, row.verbs, Wallet, 0)
SendEvent(row) ==
  AnchorEvent(Wallet, row.id, row.id, row.agent, row.workspace)

Execute(op, row) ==
  \/ op = "workspace" /\ SendWorkspace(row)
  \/ op = "agent" /\ SendAgent(row)
  \/ op = "grant" /\ SendGrant(row)
  \/ op = "publish" /\ SendEvent(row)

\* What a Sui node answers: the first events, oldest first.  Events are their
\* places in emitted here.
FirstPage(evs) == {i \in evs : Cardinality({j \in evs : j < i}) < Page}
Anchored == {i \in DOMAIN emitted : Told(i, {"ProtocolEventAnchored"})}
Of(evs, ws) == {i \in evs : emitted[i].workspace = ws}
BlobIds(evs) == {emitted[i].blob : i \in evs}

QueryAnchoredEvents == BlobIds(FirstPage(Anchored))

\* query_events_by_workspace: the node selects the workspace's events, or, if
\* it cannot or does not answer, they are selected from the page it sends.
QueryEventsByWorkspace(ws, nodeSelects) ==
  BlobIds(IF nodeSelects THEN FirstPage(Of(Anchored, ws)) ELSE Of(FirstPage(Anchored), ws))

\* The row of a created object has the id that the reply names.
Identified(c) ==
  [c EXCEPT !.stage = "insert", !.row.id = IF c.op = "publish" THEN @ ELSE NewId]

Send(p) ==
  /\ InCall(p, TxOps, "send")
  /\ Execute(call[p].op, call[p].row)
  /\ call' = [call EXCEPT ![p] = Identified(@)]
  /\ UNCHANGED <<dbVars, blobs, ticks, late, handles, returned, left>>

\* The command is killed after 60 s; what it has sent may land later.
Timeout(p) ==
  /\ InCall(p, TxOps, "send")
  /\ late' = late \cup {[op |-> call[p].op, row |-> call[p].row]}
  /\ Ends(p)
  /\ UNCHANGED <<chainVars, dbVars, blobs, ticks, handles, returned, left>>

Land ==
  /\ \E t \in late : Execute(t.op, t.row) /\ late' = late \ {t}
  /\ UNCHANGED <<dbVars, blobs, ticks, call, handles, returned, left>>

\* Mistake: a publish goes on without its transaction.
FailUnlessPublish(p) ==
  /\ call[p] # Idle
  /\ IF InCall(p, {"publish"}, "send") THEN call' = [call EXCEPT ![p].stage = "insert"]
                                        ELSE Ends(p)
  /\ UNCHANGED <<chainVars, dbVars, blobs, ticks, late, handles, returned, left>>

\* An exception (no blob, an aborted transaction, a reply without the object,
\* a row that is there already) or the death of the process, at any stage.
Fail(p) ==
  /\ call[p] # Idle
  /\ Ends(p)
  /\ UNCHANGED <<chainVars, dbVars, blobs, ticks, late, handles, returned, left>>

\* A blob is stored for five epochs.
Expire ==
  /\ \E b \in blobs : blobs' = blobs \ {b}
  /\ UNCHANGED <<chainVars, dbVars, ticks, call, late, handles, returned, left>>
------------------------------------------------------------------------------
\* A new file, or one that knows the workspace and agent that exist.
Init ==
  /\ ObjectsInit
  /\ \/ /\ objects = <<>> /\ named = {} /\ ticks = 0
     \/ /\ objects # <<>> /\ ticks = 1
        /\ named = {[kind |-> "workspace", name |-> objects[1].name, of |-> 0, id |-> 1],
                    [kind |-> "agent", name |-> objects[2].name, of |-> 1, id |-> 2],
                    [kind |-> "stream", name |-> objects[1].name, of |-> 1, id |-> -1]}
  /\ capabilities = <<>> /\ events = {} /\ blobs = {}
  /\ call = [p \in Processes |-> Idle]
  /\ late = {}
  /\ handles = named
  /\ returned = {}

Step(p) ==
  \/ Get(p) \/ InsertNamed(p)
  \/ Grant(p) \/ InsertGrant(p)
  \/ Publish(p) \/ UploadAgain(p) \/ Upload(p) \/ InsertEvent(p)
  \/ Read(p) \/ Download(p) \/ Answer(p) \/ TakeAnswer(p)
  \/ Send(p) \/ Timeout(p) \/ Fail(p)

Next ==
  \/ (\E p \in Processes : Step(p)) /\ UNCHANGED objectVars
  \/ Land /\ UNCHANGED objectVars
  \/ Expire /\ UNCHANGED objectVars
  \/ ObjectsNext /\ UNCHANGED liveVars

Spec == Init /\ [][Next]_vars
------------------------------------------------------------------------------
(* Properties. *)

\* The chain alone finds a workspace's events: the blob of every row is in the
\* first page of the workspace's own anchored events, or of everyone's, if the
\* page holds them all; and no blob of another workspace's row, unless a wallet
\* anchored that very blob under this one for itself.
FoundOnChain ==
  \A ws \in {h.id : h \in {g \in handles : g.kind = "workspace"}}, nodeSelects \in BOOLEAN :
    LET found == QueryEventsByWorkspace(ws, nodeSelects)
        pages == IF nodeSelects THEN Of(Anchored, ws) ELSE Anchored
        theirs == BlobIds({i \in Of(Anchored, ws) : emitted[i].agent = Nobody})
    IN /\ Cardinality(pages) <= Page => {e.id : e \in {f \in events : f.workspace = ws}} \subseteq found
       /\ \A e \in events : e.id \in found => e.workspace = ws \/ e.id \in theirs
       /\ nodeSelects \/ found \subseteq QueryAnchoredEvents

\* A row of a workspace or an agent tells of the wallet's object of that kind.
NamedBacked ==
  \A r \in named : r.kind # "stream" =>
    /\ r.id \in Owned(Wallet, IF r.kind = "workspace" THEN "Workspace" ELSE "AgentIdentity")
    /\ objects[r.id].name = r.name
    /\ r.kind = "agent" => objects[r.id].workspace = r.of

GrantsBacked ==
  \A i \in DOMAIN capabilities :
    LET r == capabilities[i]
    IN /\ r.id \in Objects("Capability")
       /\ objects[r.id].target = r.stream /\ objects[r.id].verbs = r.verbs

EventsBacked ==
  \A e \in events : \E i \in Anchored :
    /\ emitted[i].id = e.id /\ emitted[i].blob = e.id
    /\ emitted[i].agent = e.agent /\ emitted[i].workspace = e.workspace

\* Whatever times out, fails or dies between the transaction and the row,
\* every row tells of something that is on the chain and says the same of
\* it: the workspace, the agent in its workspace, the capability with its
\* stream and bits, the anchored event; and, in the ledger adapter's file,
\* each stream's own object and its capability.
RowsBacked ==
  OwnObject /\ CapabilityRowsTrue /\ NamedBacked /\ GrantsBacked /\ EventsBacked /\ FoundOnChain

\* Two processes that ask for one workspace, agent or stream at the same
\* time never go on with two: all who got it got the same object.
OneHandle ==
  \A g, h \in handles :
    g.kind = h.kind /\ g.name = h.name /\ g.of = h.of => g.id = h.id

\* A read that succeeds returns every publish to its stream that had
\* returned before it began, oldest first, though blobs expire meanwhile.
PublishedIsRead ==
  \A p \in Processes : InCall(p, {"read"}, "answered") =>
    LET c == call[p]
    IN /\ \A e \in events : e.stream = c.stream /\ e.id \in c.before => e \in ToSet(c.got)
       /\ \A i, j \in DOMAIN c.got : i < j => c.got[i].id < c.got[j].id
==============================================================================
