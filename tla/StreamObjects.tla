---------------------------- MODULE StreamObjects ----------------------------
(***************************************************************************)
(* Streams that SuiLedgerAdapter (adapters/sui.py) creates and deletes in  *)
(* SQLite and on Sui, next to whatever else wallets do there.              *)
(*                                                                         *)
(* create_stream commits the stream's row, awaits the transaction that     *)
(* makes a MemoryStream and a Capability, then commits the mapping from    *)
(* stream to object and, in another commit, the capability's row.  Any     *)
(* error after the first commit is swallowed; the process may die between  *)
(* the commits.  The in-memory copy of the mapping feeds only the          *)
(* background anchor of a memory event, which stops at an agent without a  *)
(* Sui object; nothing in the source gives it one, so neither is kept.     *)
(***************************************************************************)
EXTENDS Contracts

CONSTANTS
  Clients,     \* tasks in any process that call the adapter
  Wallet,      \* the wallet they all use
  WalletAddress,
  Shares       \* how many streams the clients make and transactions others send (work),
               \* and how many calls of the live SDK are made (calls)

ASSUME WalletAssumption == Wallet \in Wallets

VARIABLES
  streams,   \* memory_streams: how many there ever were, and which were deleted
  mapping,   \* sui_stream_objects: stream to object
  caps,      \* capabilities: object ids of capability and stream, bits, expiry
  client,    \* the create_stream each client is in
  torn,      \* streams whose creator failed or died between the two commits
  left       \* what is left of the share

rowVars == <<streams, mapping, caps>>
objectVars == <<rowVars, client, torn>>

NoStream == [stage |-> "idle"]
At(k, stage) == client[k].stage = stage
Goes(k, c) == client' = [client EXCEPT ![k] = c]
Stream == 1 .. streams.made
Works == left.work > 0 /\ left' = [left EXCEPT !.work = @ - 1]
------------------------------------------------------------------------------
(* SuiLedgerAdapter.create_stream *)

\* The uuid is random: no two are the same, in this file or another.
CommitRow(k) ==
  /\ At(k, "idle")
  /\ Works
  /\ streams' = [streams EXCEPT !.made = @ + 1]
  /\ Goes(k, [stage |-> "send", stream |-> streams.made + 1])
  /\ UNCHANGED <<chainVars, mapping, caps, torn>>

\* _can_anchor: without a package or a wallet that is connected, a stream is a
\* row and nothing else.
CommitLocalRow(k) ==
  /\ At(k, "idle")
  /\ Works
  /\ streams' = [streams EXCEPT !.made = @ + 1]
  /\ UNCHANGED <<chainVars, mapping, caps, client, torn>>

\* The agent's address in the object is the address of the wallet.
SendStream(k) ==
  /\ At(k, "send")
  /\ CreateStream(Wallet, WalletAddress)
  /\ \/ Goes(k, [stage |-> "map", stream |-> client[k].stream, object |-> NewId, cap |-> NewId + 1])
     \/ Goes(k, NoStream)    \* it has landed, and the reply is an error
  /\ UNCHANGED <<rowVars, torn, left>>

SaveMapping(k) ==
  /\ At(k, "map")
  /\ mapping' = [s \in DOMAIN mapping \cup {client[k].stream} |->
                   IF s = client[k].stream THEN client[k].object ELSE mapping[s]]
  /\ client' = [client EXCEPT ![k].stage = "cap"]
  /\ UNCHANGED <<chainVars, streams, caps, torn, left>>

\* Mistake: the capability is filed under the stream's uuid.
SaveCapabilityOfStream(k) ==
  /\ At(k, "cap")
  /\ caps' = caps \cup {[id |-> client[k].cap, target |-> client[k].stream,
                         verbs |-> CAP_ALL, until |-> 0]}
  /\ Goes(k, NoStream)
  /\ UNCHANGED <<chainVars, streams, mapping, torn, left>>

SaveCapability(k) ==
  /\ At(k, "cap")
  /\ caps' = caps \cup {[id |-> client[k].cap, target |-> client[k].object,
                         verbs |-> CAP_ALL, until |-> 0]}
  /\ Goes(k, NoStream)
  /\ UNCHANGED <<chainVars, streams, mapping, torn, left>>

\* An error that the adapter swallows (no gas, no reply, a locked file), or
\* the death of the process.
FailStream(k) ==
  /\ ~At(k, "idle")
  /\ torn' = IF At(k, "cap") THEN torn \cup {client[k].stream} ELSE torn
  /\ Goes(k, NoStream)
  /\ UNCHANGED <<chainVars, rowVars, left>>
------------------------------------------------------------------------------
\* The row and the mapping, in two commits that nothing separates; the
\* object and the capability's row stay.  A client may delete any stream it
\* knows of, that is one whose create_stream has returned.
DeleteStreamRow(k) ==
  /\ At(k, "idle")
  /\ \E s \in Stream \ streams.deleted :
       /\ \A l \in Clients : ~At(l, "idle") => client[l].stream # s
       /\ streams' = [streams EXCEPT !.deleted = @ \cup {s}]
       /\ mapping' = Restrict(mapping, DOMAIN mapping \ {s})
  /\ UNCHANGED <<chainVars, caps, client, torn, left>>

\* What the agent client looks at before it writes to a stream.
CapabilitiesFor(s) == {c \in caps : c.target = mapping[s]}
MayWrite(s) ==
  s \in DOMAIN mapping => \E c \in CapabilitiesFor(s) : CAP_WRITE \in c.verbs /\ c.until = 0

\* list_permissions_endpoint: what the dashboard shows of each row.  It looks the
\* owner up by the stream's uuid, and the row has the object's id: there is none.
PermissionsPage ==
  {[id |-> c.id, stream |-> c.target, bitmask |-> c.verbs, until |-> c.until] : c \in caps}

(* SuiIdentityAdapter: one transaction per method, no row. *)

NewWorkspace == \E n \in Names : CreateWorkspace(Wallet, n)
NewAgent == \E ws \in DOMAIN objects, n \in Names : RegisterAgent(Wallet, ws, n)
NewStatus ==
  \E a \in Objects("AgentIdentity"), st \in {"active", "paused", "terminated"} :
    UpdateAgentStatus(Wallet, a, st)
NewCounters == \E a \in Objects("AgentIdentity") : IncrementCounters(Wallet, a, 1)
Delegate ==
  \E t \in Objects("MemoryStream") \cup Addresses, g \in Grants, r \in Wallets, u \in Untils :
    DelegateCapability(Wallet, t, g, r, u)
Revoke == \E c \in Objects("Capability") : RevokeCapability(Wallet, c)

\* anchor_event: the unsigned form; the signed one passes the contract an
\* argument too many and always fails.
AnchorMemory ==
  \E s \in Objects("MemoryStream"), h \in Hashes : AppendEvent(Wallet, s, objects[s].head, h)

AdapterCall ==
  /\ Works
  /\ NewWorkspace \/ NewAgent \/ NewStatus \/ NewCounters \/ Delegate \/ Revoke \/ AnchorMemory
  /\ UNCHANGED <<rowVars, client, torn>>

\* Any wallet, this one too, does what it likes with the sui command line.
Others ==
  /\ Works
  /\ \E w \in Wallets : WalletCall(w)
  /\ UNCHANGED <<rowVars, client, torn>>
------------------------------------------------------------------------------
\* An empty chain, or the wallet has a workspace, an agent and its stream.
Prepared ==
  /\ \E n \in Names :
       objects = <<Workspace(Wallet, n), AgentIdentity(Wallet, 1, n),
                   MemoryStream(Wallet, 2), Capability(Wallet, 3, CAP_ALL, 0)>>
  /\ emitted = <<[sender |-> Wallet, type |-> "WorkspaceCreated", workspace |-> 1],
                 [sender |-> Wallet, type |-> "AgentRegistered", agent |-> 2],
                 [sender |-> Wallet, type |-> "StreamCreated", stream |-> 3]>>
  /\ anchor = [count |-> 0, latest |-> Genesis]

ObjectsInit ==
  /\ ChainInit \/ Prepared
  /\ streams = [made |-> 0, deleted |-> {}]
  /\ mapping = <<>> /\ caps = {}
  /\ client = [k \in Clients |-> NoStream]
  /\ torn = {}
  /\ left \in Shares

ObjectsNext ==
  \/ \E k \in Clients :
       \/ CommitRow(k) \/ CommitLocalRow(k) \/ SendStream(k) \/ SaveMapping(k) \/ SaveCapability(k)
       \/ FailStream(k) \/ DeleteStreamRow(k)
  \/ AdapterCall
  \/ Others
------------------------------------------------------------------------------
(* Properties. *)

\* A stream that is mapped to an object has one of its own, made by the
\* wallet that maps it, whatever else was created at the same time.
OwnObject ==
  \A s \in DOMAIN mapping :
    /\ s \in Stream \ streams.deleted
    /\ mapping[s] \in Owned(Wallet, "MemoryStream")
    /\ \A t \in DOMAIN mapping : mapping[s] = mapping[t] => s = t

\* A stream refuses its own agent only while its creator is between the two
\* commits, or because it failed there, and then for good.
LockedOnlyByTear ==
  \A s \in Stream \ streams.deleted : ~MayWrite(s) =>
    s \in torn \/ \E k \in Clients : At(k, "cap") /\ client[k].stream = s

\* The page of permissions tells of capabilities that the wallet got for that
\* stream, with these bits and that expiry, though one may be gone: no
\* revocation reaches the rows.
CapabilityRowsTrue ==
  \A p \in PermissionsPage :
    /\ p.id \in Objects("Capability") /\ objects[p.id].target = p.stream
    /\ objects[p.id].verbs = p.bitmask /\ objects[p.id].until = p.until
    /\ objects[p.id].owner \in {Wallet, Destroyed}
==============================================================================
