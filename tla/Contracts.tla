------------------------------ MODULE Contracts ------------------------------
(***************************************************************************)
(* The Move package on Sui (src/move/walrusos/sources/*.move): workspaces, *)
(* agent identities, capabilities and memory streams are objects owned by  *)
(* a wallet; one LedgerAnchor is shared.                                   *)
(*                                                                         *)
(* Each public function is an action of the wallet that signs the          *)
(* transaction.  Its guard is the function's asserts together with what    *)
(* the Sui runtime demands of its arguments: an owned object can be passed *)
(* only by its owner.  A transaction whose guard is false aborts and       *)
(* leaves no trace, so it is no step.  The object's id is its place in the *)
(* sequence of all objects ever made.                                      *)
(***************************************************************************)
EXTENDS Integers, Sequences, FiniteSets, SequencesExt

CONSTANTS
  Wallets,
  Names,       \* of workspaces and agents
  Hashes,      \* blob ids, event hashes and event ids
  Addresses,   \* addresses that are not the id of one of these objects
  Grants,      \* bitmasks that delegate_capability is called with
  Untils,      \* values of valid_until_epoch
  MaxU64       \* the largest u64: adding past it aborts the transaction

ASSUME GrantsAssumption == Grants \subseteq SUBSET {1, 2, 4, 8}
ASSUME UntilsAssumption == Untils \subseteq Nat
ASSUME MaxU64Assumption == MaxU64 \in Nat

VARIABLES
  objects,   \* every object ever made
  emitted,   \* the events of the package, each in the envelope of its sender, and
             \* the one kind of transaction that has none
  anchor     \* the shared LedgerAnchor

chainVars == <<objects, emitted, anchor>>

\* Permission bits, and the owner of an object that was destroyed.
CAP_WRITE == 2
CAP_ALL == {1, 2, 4, 8}
Destroyed == "destroyed"

ASSUME WalletsAssumption == Destroyed \notin Wallets

\* The string "genesis", and the agent of an event that WalrusOS has no part in.
Genesis == 0
Nobody == 0

Objects(kind) == {o \in DOMAIN objects : objects[o].kind = kind}
Owned(w, kind) == {o \in Objects(kind) : objects[o].owner = w}
NewId == Len(objects) + 1
Emits(e) == emitted' = Append(emitted, e)

Workspace(w, name) == [kind |-> "Workspace", owner |-> w, name |-> name]
AgentIdentity(w, ws, name) ==
  [kind |-> "AgentIdentity", owner |-> w, workspace |-> ws, name |-> name,
   status |-> "active", counter |-> 0]
Capability(w, target, verbs, until) ==
  [kind |-> "Capability", owner |-> w, target |-> target, verbs |-> verbs, until |-> until]
MemoryStream(w, agent) ==
  [kind |-> "MemoryStream", owner |-> w, agent |-> agent, head |-> Genesis,
   count |-> 0, deleted |-> FALSE]
------------------------------------------------------------------------------
(* identity.move *)

CreateWorkspace(w, name) ==
  /\ objects' = Append(objects, Workspace(w, name))
  /\ Emits([sender |-> w, type |-> "WorkspaceCreated", workspace |-> NewId])
  /\ UNCHANGED anchor

\* The workspace's address is not checked to be one.
RegisterAgent(w, ws, name) ==
  /\ objects' = Append(objects, AgentIdentity(w, ws, name))
  /\ Emits([sender |-> w, type |-> "AgentRegistered", agent |-> NewId])
  /\ UNCHANGED anchor

UpdateAgentStatus(w, a, status) ==
  /\ a \in Owned(w, "AgentIdentity")
  /\ objects[a].status # "terminated"
  /\ status \in {"active", "paused", "terminated"}
  /\ objects' = [objects EXCEPT ![a].status = status]
  /\ Emits([sender |-> w, type |-> "AgentStatusChanged", agent |-> a, status |-> status])
  /\ UNCHANGED anchor

\* Mistake: a terminated agent counts as one that runs.
IsNotPaused(a) == objects[a].status # "paused"

IsActive(a) == objects[a].status = "active"

\* The three counters move together here; each is as wide as a u64.
IncrementCounters(w, a, by) ==
  /\ a \in Owned(w, "AgentIdentity")
  /\ IsActive(a)
  /\ objects[a].counter + by <= MaxU64
  /\ objects' = [objects EXCEPT ![a].counter = @ + by]
  /\ Emits([sender |-> w, type |-> "AgentCountersUpdated", agent |-> a, counter |-> objects[a].counter + by])
  /\ UNCHANGED anchor

\* Any wallet mints a capability for any address.
DelegateCapability(w, target, verbs, recipient, until) ==
  /\ objects' = Append(objects, Capability(recipient, target, verbs, until))
  /\ Emits([sender |-> w, type |-> "CapabilityDelegated", capability |-> NewId, target |-> target,
            verbs |-> verbs, recipient |-> recipient])
  /\ UNCHANGED anchor

\* mint_and_transfer_capability, which is public too, emits nothing.
MintCapability(w, target, verbs, recipient, until) ==
  /\ objects' = Append(objects, Capability(recipient, target, verbs, until))
  /\ Emits([sender |-> w, type |-> "no event", target |-> target, verbs |-> verbs, recipient |-> recipient])
  /\ UNCHANGED anchor

RevokeCapability(w, c) ==
  /\ c \in Owned(w, "Capability")
  /\ objects' = [objects EXCEPT ![c].owner = Destroyed]
  /\ Emits([sender |-> w, type |-> "CapabilityRevoked", target |-> objects[c].target,
            verbs |-> objects[c].verbs])
  /\ UNCHANGED anchor

HasPermission(c, verb, epoch) ==
  /\ objects[c].until = 0 \/ epoch <= objects[c].until
  /\ verb \in objects[c].verbs
------------------------------------------------------------------------------
(* memory.move *)

\* The stream and a capability for it, which no event tells of.
CreateStream(w, agent) ==
  /\ objects' = objects \o <<MemoryStream(w, agent), Capability(w, NewId, CAP_ALL, 0)>>
  /\ Emits([sender |-> w, type |-> "StreamCreated", stream |-> NewId])
  /\ UNCHANGED anchor

Extend(s, head) ==
  /\ ~objects[s].deleted
  /\ objects[s].count < MaxU64
  /\ objects' = [objects EXCEPT ![s].count = @ + 1, ![s].head = head]

AppendEvent(w, s, parent, blob) ==
  /\ s \in Owned(w, "MemoryStream")
  /\ Extend(s, blob)
  /\ Emits([sender |-> w, type |-> "MemoryEventAnchored", stream |-> s, parent |-> parent, blob |-> blob,
            epoch |-> objects[s].count + 1])
  /\ UNCHANGED anchor

\* The epoch that the permission is checked at is the constant 0.
MayAppendSigned(w, ws, a, c, s) ==
  /\ ws \in Owned(w, "Workspace") /\ a \in Owned(w, "AgentIdentity")
  /\ c \in Owned(w, "Capability") /\ s \in Owned(w, "MemoryStream")
  /\ IsActive(a)
  /\ objects[a].workspace = ws
  /\ objects[s].agent = a
  /\ objects[c].target = s
  /\ HasPermission(c, CAP_WRITE, 0)

AppendSignedEvent(w, ws, a, c, s, parent, blob, hash) ==
  /\ MayAppendSigned(w, ws, a, c, s)
  /\ Extend(s, hash)
  /\ Emits([sender |-> w, type |-> "MemoryEventSigned", stream |-> s, parent |-> parent, blob |-> blob,
            hash |-> hash, epoch |-> objects[s].count + 1])
  /\ UNCHANGED anchor

DeleteStream(w, s) ==
  /\ s \in Owned(w, "MemoryStream")
  /\ objects' = [objects EXCEPT ![s].deleted = TRUE]
  /\ Emits([sender |-> w, type |-> "StreamDeleted", stream |-> s])
  /\ UNCHANGED anchor
------------------------------------------------------------------------------
(* protocol.move *)

AnchorEvent(w, id, blob, agent, ws) ==
  /\ anchor.count < MaxU64
  /\ anchor' = [count |-> anchor.count + 1, latest |-> id]
  /\ Emits([sender |-> w, type |-> "ProtocolEventAnchored", id |-> id, blob |-> blob,
            agent |-> agent, workspace |-> ws])
  /\ UNCHANGED objects

ChainInit ==
  /\ objects = <<>>
  /\ emitted = <<>>
  /\ anchor = [count |-> 0, latest |-> Genesis]
------------------------------------------------------------------------------
(* What any wallet may do, with or without WalrusOS. *)

IdentityCall(w) ==
  \/ \E n \in Names : CreateWorkspace(w, n)
  \/ \E ws \in DOMAIN objects \cup Addresses, n \in Names : RegisterAgent(w, ws, n)
  \/ \E a \in Objects("AgentIdentity") :
       \/ \E st \in {"active", "paused", "terminated"} : UpdateAgentStatus(w, a, st)
       \/ IncrementCounters(w, a, 1)
  \/ \E t \in Objects("MemoryStream") \cup Addresses, g \in Grants, r \in Wallets, u \in Untils :
       DelegateCapability(w, t, g, r, u) \/ MintCapability(w, t, g, r, u)
  \/ \E c \in Objects("Capability") : RevokeCapability(w, c)

MemoryCall(w) ==
  \/ \E a \in Objects("AgentIdentity") \cup Addresses : CreateStream(w, a)
  \/ \E s \in Objects("MemoryStream") :
       \/ DeleteStream(w, s)
       \/ \E h \in Hashes : AppendEvent(w, s, objects[s].head, h)
       \/ \E ws \in Objects("Workspace"), a \in Objects("AgentIdentity"),
             c \in Objects("Capability"), h \in Hashes :
            AppendSignedEvent(w, ws, a, c, s, objects[s].head, h, h)

\* Nothing ties an anchored event to the workspace and agent it names.
ProtocolCall(w) ==
  \E h \in Hashes, ws \in Objects("Workspace") \cup {0} :
    AnchorEvent(w, h, h, Nobody, ws)

WalletCall(w) == IdentityCall(w) \/ MemoryCall(w) \/ ProtocolCall(w)
------------------------------------------------------------------------------
(* Properties of every chain the package can write. *)

Told(i, types) == emitted[i].type \in types
Appends == {"MemoryEventAnchored", "MemoryEventSigned"}
AppendsTo(s) == {i \in DOMAIN emitted : Told(i, Appends) /\ emitted[i].stream = s}
LastOf(S) == CHOOSE i \in S : \A j \in S : j <= i
HashOf(e) == IF e.type = "MemoryEventSigned" THEN e.hash ELSE e.blob

\* The events of a stream are numbered 1, 2, ... as they were written, each
\* names its predecessor's hash where the caller passed the head, and the
\* object agrees with the last of them; the shared anchor agrees with the
\* events that were anchored.
StreamAgrees(s) ==
  LET A == AppendsTo(s)
  IN /\ {emitted[i].epoch : i \in A} = 1 .. objects[s].count
     /\ Cardinality(A) = objects[s].count
     /\ \A i, j \in A : i < j => emitted[i].epoch < emitted[j].epoch
     /\ objects[s].head = IF A = {} THEN Genesis ELSE HashOf(emitted[LastOf(A)])
     /\ \A i \in A : emitted[i].parent =
          LET before == {j \in A : j < i}
          IN IF before = {} THEN Genesis ELSE HashOf(emitted[LastOf(before)])

AnchorAgrees ==
  LET A == {i \in DOMAIN emitted : Told(i, {"ProtocolEventAnchored"})}
  IN /\ anchor.count = Cardinality(A)
     /\ anchor.latest = IF A = {} THEN Genesis ELSE emitted[LastOf(A)].id

EpochsContiguous == (\A s \in Objects("MemoryStream") : StreamAgrees(s)) /\ AnchorAgrees

\* Nothing is appended to a stream after its deletion, and a terminated
\* agent's identity never moves again, nor does it sign anything.
NothingAfterEnd ==
  \A i, j \in DOMAIN emitted : i < j =>
    /\ Told(i, {"StreamDeleted"}) /\ Told(j, Appends) => emitted[j].stream # emitted[i].stream
    /\ Told(i, {"AgentStatusChanged"}) /\ emitted[i].status = "terminated" =>
         /\ Told(j, {"AgentStatusChanged", "AgentCountersUpdated"}) =>
              emitted[j].agent # emitted[i].agent
         /\ Told(j, {"MemoryEventSigned"}) =>
              objects[emitted[j].stream].agent # emitted[i].agent

\* Whoever signs an event for a stream made the stream, and of the
\* capabilities to write it that were minted for that wallet at least one
\* had not been revoked: counted over the transactions alone.
SignedWithPermission ==
  \A i \in DOMAIN emitted : Told(i, {"MemoryEventSigned"}) =>
    LET s == emitted[i].stream
        w == emitted[i].sender
        Granted == {j \in 1 .. i - 1 :
                      \/ Told(j, {"StreamCreated"}) /\ emitted[j].stream = s
                      \/ /\ Told(j, {"CapabilityDelegated", "no event"}) /\ emitted[j].target = s
                         /\ CAP_WRITE \in emitted[j].verbs /\ emitted[j].recipient = w}
        Revoked == {j \in 1 .. i - 1 :
                      /\ Told(j, {"CapabilityRevoked"}) /\ emitted[j].target = s
                      /\ CAP_WRITE \in emitted[j].verbs /\ emitted[j].sender = w}
    IN /\ \E j \in 1 .. i - 1 :
            Told(j, {"StreamCreated"}) /\ emitted[j].stream = s /\ emitted[j].sender = w
       /\ Cardinality(Granted) > Cardinality(Revoked)

\* What the transactions of a chain say of it to those who only read them.
ChainSound == EpochsContiguous /\ NothingAfterEnd /\ SignedWithPermission
==============================================================================
