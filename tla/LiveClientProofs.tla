--------------------------- MODULE LiveClientProofs ---------------------------
(***************************************************************************)
(* Proofs about LiveClient, and so about the contracts and the two SDKs    *)
(* that use them, for any number of wallets, processes and clients.        *)
(***************************************************************************)
EXTENDS LiveClient, FiniteSetTheorems, SequenceTheorems, WellFoundedInduction, TLAPS

-----------------------------------------------------------------------------
(***************************************************************************)
(* The chain's objects                                                     *)
(***************************************************************************)

IsSeq(s) == s \in Seq({s[i] : i \in DOMAIN s})

\* An object has the fields of its kind.
Shaped(x) ==
  \/ x = [kind |-> "Workspace", owner |-> x.owner, name |-> x.name]
  \/ x = [kind |-> "AgentIdentity", owner |-> x.owner, workspace |-> x.workspace,
          name |-> x.name, status |-> x.status, counter |-> x.counter]
  \/ x = [kind |-> "Capability", owner |-> x.owner, target |-> x.target,
          verbs |-> x.verbs, until |-> x.until]
  \/ x \in [kind : {"MemoryStream"}, owner : {x.owner}, agent : {x.agent},
            head : {x.head}, count : Nat, deleted : BOOLEAN]

ObjectTypes == IsSeq(objects) /\ \A o \in DOMAIN objects : Shaped(objects[o])

\* What no transaction changes of an object there is.
KeptObject(x, y) ==
  /\ y.kind = x.kind
  /\ x.kind = "Workspace" => y = x
  /\ x.kind = "AgentIdentity" =>
       /\ y.owner = x.owner /\ y.workspace = x.workspace /\ y.name = x.name
       /\ x.status = "terminated" => y.status = "terminated"
  /\ x.kind = "Capability" =>
       /\ y.owner \in {x.owner, Destroyed}
       /\ y.target = x.target /\ y.verbs = x.verbs /\ y.until = x.until
  /\ x.kind = "MemoryStream" =>
       /\ y.owner = x.owner /\ y.agent = x.agent /\ (x.deleted => y.deleted)

Grows ==
  /\ DOMAIN objects \subseteq DOMAIN objects'
  /\ \A o \in DOMAIN objects : KeptObject(objects[o], objects'[o])

\* The transactions there are, whatever their arguments; an event is appended
\* to a stream with its head for a parent.
ChainStep ==
  \E w \in Wallets :
    \/ \E n : CreateWorkspace(w, n)
    \/ \E ws, n : RegisterAgent(w, ws, n)
    \/ \E a, st : UpdateAgentStatus(w, a, st)
    \/ \E a : IncrementCounters(w, a, 1)
    \/ \E t, g, r, u : DelegateCapability(w, t, g, r, u) \/ MintCapability(w, t, g, r, u)
    \/ \E c : RevokeCapability(w, c)
    \/ \E a : CreateStream(w, a)
    \/ \E s : DeleteStream(w, s)
    \/ \E s, h : AppendEvent(w, s, objects[s].head, h)
    \/ \E ws, a, c, s, h : AppendSignedEvent(w, ws, a, c, s, objects[s].head, h, h)
    \/ \E id, blob, a, ws : AnchorEvent(w, id, blob, a, ws)

\* Adding to a sequence.
LEMMA Appended ==
  ASSUME NEW s, IsSeq(s), NEW e
  PROVE  /\ IsSeq(Append(s, e)) /\ Len(s) \in Nat /\ DOMAIN s = 1 .. Len(s)
         /\ DOMAIN Append(s, e) = DOMAIN s \cup {Len(s) + 1} /\ Len(s) + 1 \notin DOMAIN s
         /\ \A i \in DOMAIN s : Append(s, e)[i] = s[i]
         /\ Append(s, e)[Len(s) + 1] = e
         /\ Len(Append(s, e)) = Len(s) + 1
<1> DEFINE S == {s[i] : i \in DOMAIN s}
           T == S \cup {e}
<1>1. s \in Seq(S) /\ s \in Seq(T)
  BY DEF IsSeq
<1>2. /\ Len(s) \in Nat /\ DOMAIN s = 1 .. Len(s)
      /\ DOMAIN Append(s, e) = DOMAIN s \cup {Len(s) + 1} /\ Len(s) + 1 \notin DOMAIN s
      /\ \A i \in DOMAIN s : Append(s, e)[i] = s[i]
      /\ Append(s, e)[Len(s) + 1] = e
      /\ Len(Append(s, e)) = Len(s) + 1
      /\ Append(s, e) \in Seq(T)
  BY <1>1
<1>3. {Append(s, e)[i] : i \in DOMAIN Append(s, e)} = T
  BY <1>2
<1> QED
  BY <1>2, <1>3 DEF IsSeq

\* Adding two at once.
LEMMA AppendedTwo ==
  ASSUME NEW s, IsSeq(s), NEW d, NEW e
  PROVE  /\ s \o <<d, e>> = Append(Append(s, d), e)
         /\ IsSeq(s \o <<d, e>>)
<1> DEFINE T == {s[i] : i \in DOMAIN s} \cup {d, e}
<1>1. s \in Seq(T) /\ d \in T /\ e \in T
  BY DEF IsSeq
<1>2. s \o <<d, e>> = Append(Append(s, d), e)
  BY <1>1
<1>3. IsSeq(Append(s, d))
  BY Appended
<1>4. IsSeq(Append(Append(s, d), e))
  BY <1>3, Appended
<1> QED
  BY <1>2, <1>4

\* Changing one.
LEMMA Changed ==
  ASSUME NEW s, IsSeq(s), NEW o \in DOMAIN s, NEW x
  PROVE  LET t == [s EXCEPT ![o] = x]
         IN /\ IsSeq(t) /\ DOMAIN t = DOMAIN s /\ t[o] = x
            /\ \A i \in DOMAIN s : i # o => t[i] = s[i]
<1> DEFINE t == [s EXCEPT ![o] = x]
           S == {s[i] : i \in DOMAIN s} \cup {x}
           T == {t[i] : i \in DOMAIN t}
<1>1. s \in Seq(S)
  BY DEF IsSeq
<1>2. /\ DOMAIN t = DOMAIN s /\ t[o] = x
      /\ \A i \in DOMAIN s : i # o => t[i] = s[i]
  BY <1>1
<1>3. /\ DOMAIN t = 1 .. Len(s) /\ Len(s) \in Nat
      /\ t \in [1 .. Len(s) -> T]
  BY <1>1, <1>2
<1>4. t \in Seq(T)
  <2>1. t \in UNION {[1 .. n -> T] : n \in Nat}
    BY <1>3
  <2> QED
    BY <2>1, SeqDef
<1> QED
  BY <1>2, <1>4 DEF IsSeq

\* One field of an object changes.
LEMMA AgentChanged ==
  ASSUME NEW x, Shaped(x), x.kind = "AgentIdentity", NEW v
  PROVE  /\ LET y == [x EXCEPT !.status = v]
            IN /\ Shaped(y) /\ y.status = v
               /\ x.status # "terminated" => KeptObject(x, y)
         /\ LET y == [x EXCEPT !.counter = v]
            IN Shaped(y) /\ y.status = x.status /\ KeptObject(x, y)
<1>1. x = [kind |-> "AgentIdentity", owner |-> x.owner, workspace |-> x.workspace,
           name |-> x.name, status |-> x.status, counter |-> x.counter]
  BY DEF Shaped
<1>2. [x EXCEPT !.status = v] =
        [kind |-> "AgentIdentity", owner |-> x.owner, workspace |-> x.workspace,
         name |-> x.name, status |-> v, counter |-> x.counter]
  BY <1>1
<1>3. [x EXCEPT !.counter = v] =
        [kind |-> "AgentIdentity", owner |-> x.owner, workspace |-> x.workspace,
         name |-> x.name, status |-> x.status, counter |-> v]
  BY <1>1
<1> QED
  BY <1>2, <1>3 DEF Shaped, KeptObject

LEMMA CapabilityDestroyed ==
  ASSUME NEW x, Shaped(x), x.kind = "Capability"
  PROVE  LET y == [x EXCEPT !.owner = Destroyed]
         IN Shaped(y) /\ y.owner = Destroyed /\ KeptObject(x, y)
<1>1. x = [kind |-> "Capability", owner |-> x.owner, target |-> x.target,
           verbs |-> x.verbs, until |-> x.until]
  BY DEF Shaped
<1>2. [x EXCEPT !.owner = Destroyed] =
        [kind |-> "Capability", owner |-> Destroyed, target |-> x.target,
         verbs |-> x.verbs, until |-> x.until]
  BY <1>1
<1> QED
  BY <1>2 DEF Shaped, KeptObject

LEMMA StreamChanged ==
  ASSUME NEW x, Shaped(x), x.kind = "MemoryStream", NEW v
  PROVE  /\ LET y == [x EXCEPT !.deleted = TRUE]
            IN /\ Shaped(y) /\ y.deleted /\ KeptObject(x, y)
               /\ y.count = x.count /\ y.head = x.head
         /\ LET y == [x EXCEPT !.count = @ + 1, !.head = v]
            IN /\ Shaped(y) /\ y.count = x.count + 1 /\ y.head = v
               /\ KeptObject(x, y)
<1>1. x \in [kind : {"MemoryStream"}, owner : {x.owner}, agent : {x.agent},
             head : {x.head}, count : Nat, deleted : BOOLEAN]
  BY DEF Shaped
<1>2. LET y == [x EXCEPT !.deleted = TRUE]
      IN /\ y \in [kind : {"MemoryStream"}, owner : {x.owner}, agent : {x.agent},
                   head : {x.head}, count : Nat, deleted : BOOLEAN]
         /\ y.deleted /\ y.count = x.count
  BY <1>1
<1> DEFINE A == {x.owner, x.agent, x.head, v}
           S == [kind : {"MemoryStream"}, owner : A, agent : A, head : A,
                 count : Nat, deleted : BOOLEAN]
<1>3. x \in S /\ v \in A
  BY <1>1
<1>4. LET y == [x EXCEPT !.count = @ + 1, !.head = v]
      IN /\ y \in S
         /\ y.owner = x.owner /\ y.agent = x.agent /\ y.head = v
         /\ y.deleted = x.deleted /\ y.count = x.count + 1
  <2> DEFINE n == x.count + 1
             y == [x EXCEPT !.count = n, !.head = v]
  <2>1. n \in Nat
    BY <1>3
  <2> HIDE DEF A, n
  <2>2. y \in S
    BY <1>3, <2>1
  <2>3. /\ y.owner = x.owner /\ y.agent = x.agent /\ y.head = v
        /\ y.deleted = x.deleted /\ y.count = n
    BY <1>3
  <2> QED
    BY <2>2, <2>3 DEF n
<1> QED
  BY <1>1, <1>2, <1>4 DEF Shaped, KeptObject

-----------------------------------------------------------------------------
(***************************************************************************)
(* What each transaction does, with event e                                *)
(***************************************************************************)

ChainTypes == ObjectTypes /\ IsSeq(emitted) /\ anchor.count \in Nat

Adds(x) ==
  /\ DOMAIN objects' = DOMAIN objects \cup {NewId} /\ NewId \notin DOMAIN objects
  /\ objects'[NewId] = x
  /\ \A o \in DOMAIN objects : objects'[o] = objects[o]

Sets(o, y) ==
  /\ o \in DOMAIN objects /\ DOMAIN objects' = DOMAIN objects
  /\ objects'[o] = y /\ KeptObject(objects[o], y)
  /\ \A q \in DOMAIN objects : q # o => objects'[q] = objects[q]

AddsPlain(e) ==
  /\ e.type \in {"WorkspaceCreated", "AgentRegistered"}
  /\ \E x : Adds(x) /\ x.kind \in {"Workspace", "AgentIdentity"}

SetsAgent(e) ==
  /\ e.type \in {"AgentStatusChanged", "AgentCountersUpdated"}
  /\ e.agent \in Objects("AgentIdentity") /\ objects[e.agent].status # "terminated"
  /\ \E y : Sets(e.agent, y) /\ (e.type = "AgentStatusChanged" => y.status = e.status)

Mints(e) ==
  /\ e.type \in {"CapabilityDelegated", "no event"}
  /\ \E u : Adds(Capability(e.recipient, e.target, e.verbs, u))

Revokes(e) ==
  /\ e.type = "CapabilityRevoked"
  /\ \E c \in Owned(e.sender, "Capability") : \E y :
       /\ e.target = objects[c].target /\ e.verbs = objects[c].verbs
       /\ Sets(c, y) /\ y.owner = Destroyed

MakesStream(e) ==
  /\ e.type = "StreamCreated" /\ e.stream = NewId
  /\ NewId \notin DOMAIN objects /\ NewId + 1 \notin DOMAIN objects /\ NewId # NewId + 1
  /\ DOMAIN objects' = DOMAIN objects \cup {NewId, NewId + 1}
  /\ \E a : objects'[NewId] = MemoryStream(e.sender, a)
  /\ objects'[NewId + 1] = Capability(e.sender, NewId, CAP_ALL, 0)
  /\ \A o \in DOMAIN objects : objects'[o] = objects[o]

Extends(e) ==
  /\ e.type \in Appends
  /\ e.stream \in Owned(e.sender, "MemoryStream")
  /\ ~objects[e.stream].deleted
  /\ e.parent = objects[e.stream].head /\ e.epoch = objects[e.stream].count + 1
  /\ \E y : Sets(e.stream, y) /\ y.count = objects[e.stream].count + 1 /\ y.head = HashOf(e)

Signs(e) ==
  e.type = "MemoryEventSigned" =>
    /\ objects[e.stream].agent \in Objects("AgentIdentity")
    /\ objects[objects[e.stream].agent].status = "active"
    /\ \E c \in Owned(e.sender, "Capability") :
         objects[c].target = e.stream /\ CAP_WRITE \in objects[c].verbs

Deletes(e) ==
  /\ e.type = "StreamDeleted"
  /\ e.stream \in Owned(e.sender, "MemoryStream")
  /\ \E y : /\ Sets(e.stream, y) /\ y.deleted
           /\ y.count = objects[e.stream].count /\ y.head = objects[e.stream].head

Anchors(e) ==
  /\ e.type = "ProtocolEventAnchored" /\ objects' = objects
  /\ anchor' = [count |-> anchor.count + 1, latest |-> e.id]

Transaction(e) ==
  /\ Emits(e) /\ e.sender \in Wallets
  /\ ObjectTypes' /\ Grows
  /\ \/ /\ \/ AddsPlain(e) \/ SetsAgent(e) \/ Mints(e) \/ Revokes(e) \/ MakesStream(e)
           \/ Extends(e) /\ Signs(e)
           \/ Deletes(e)
        /\ anchor' = anchor
     \/ Anchors(e)

\* An object is made.
LEMMA Adding ==
  ASSUME ObjectTypes, NEW x, Shaped(x), objects' = Append(objects, x)
  PROVE  ObjectTypes' /\ Grows /\ Adds(x)
<1>1. /\ IsSeq(objects') /\ NewId \notin DOMAIN objects
      /\ DOMAIN objects' = DOMAIN objects \cup {NewId}
      /\ \A o \in DOMAIN objects : objects'[o] = objects[o]
      /\ objects'[NewId] = x
  BY Appended DEF ObjectTypes, NewId
<1> QED
  BY <1>1 DEF ObjectTypes, Grows, Adds, KeptObject

\* An object changes.
LEMMA Setting ==
  ASSUME ObjectTypes, NEW o \in DOMAIN objects, NEW y, Shaped(y), KeptObject(objects[o], y),
         objects' = [objects EXCEPT ![o] = y]
  PROVE  ObjectTypes' /\ Grows /\ Sets(o, y)
<1>1. /\ IsSeq(objects') /\ DOMAIN objects' = DOMAIN objects /\ objects'[o] = y
      /\ \A i \in DOMAIN objects : i # o => objects'[i] = objects[i]
  BY Changed DEF ObjectTypes
<1> QED
  BY <1>1 DEF ObjectTypes, Grows, Sets, KeptObject

\* Each of the contracts' functions is such a transaction.
LEMMA Transactions ==
  ASSUME ChainTypes, ChainStep
  PROVE  \E e : Transaction(e)
<1>1. PICK w \in Wallets :
        \/ \E n : CreateWorkspace(w, n)
        \/ \E ws, n : RegisterAgent(w, ws, n)
        \/ \E a, st : UpdateAgentStatus(w, a, st)
        \/ \E a : IncrementCounters(w, a, 1)
        \/ \E t, g, r, u : DelegateCapability(w, t, g, r, u) \/ MintCapability(w, t, g, r, u)
        \/ \E c : RevokeCapability(w, c)
        \/ \E a : CreateStream(w, a)
        \/ \E s : DeleteStream(w, s)
        \/ \E s, h : AppendEvent(w, s, objects[s].head, h)
        \/ \E ws, a, c, s, h : AppendSignedEvent(w, ws, a, c, s, objects[s].head, h, h)
        \/ \E id, blob, a, ws : AnchorEvent(w, id, blob, a, ws)
  BY DEF ChainStep
<1>2. ObjectTypes /\ \A o \in DOMAIN objects : Shaped(objects[o])
  BY DEF ChainTypes, ObjectTypes
<1>3. ASSUME NEW n, CreateWorkspace(w, n) PROVE \E e : Transaction(e)
  <2> DEFINE e == [sender |-> w, type |-> "WorkspaceCreated", workspace |-> NewId]
  <2>1. Shaped(Workspace(w, n)) /\ Workspace(w, n).kind = "Workspace"
    BY DEF Shaped, Workspace
  <2>2. Emits(e) /\ objects' = Append(objects, Workspace(w, n)) /\ anchor' = anchor
    BY <1>3 DEF CreateWorkspace
  <2>3. ObjectTypes' /\ Grows /\ Adds(Workspace(w, n))
    BY <1>2, <2>1, <2>2, Adding
  <2>4. AddsPlain(e)
    BY <2>1, <2>3 DEF AddsPlain
  <2> QED
    BY <2>2, <2>3, <2>4 DEF Transaction
<1>4. ASSUME NEW ws, NEW n, RegisterAgent(w, ws, n) PROVE \E e : Transaction(e)
  <2> DEFINE e == [sender |-> w, type |-> "AgentRegistered", agent |-> NewId]
             x == AgentIdentity(w, ws, n)
  <2>1. Shaped(x) /\ x.kind = "AgentIdentity"
    BY DEF Shaped, AgentIdentity
  <2>2. Emits(e) /\ objects' = Append(objects, x) /\ anchor' = anchor
    BY <1>4 DEF RegisterAgent
  <2>3. ObjectTypes' /\ Grows /\ Adds(x)
    BY <1>2, <2>1, <2>2, Adding
  <2>4. AddsPlain(e)
    BY <2>1, <2>3 DEF AddsPlain
  <2> QED
    BY <2>2, <2>3, <2>4 DEF Transaction
<1>5. ASSUME NEW a, NEW st, UpdateAgentStatus(w, a, st) PROVE \E e : Transaction(e)
  <2> DEFINE e == [sender |-> w, type |-> "AgentStatusChanged", agent |-> a, status |-> st]
             y == [objects[a] EXCEPT !.status = st]
  <2>1. /\ a \in Objects("AgentIdentity") /\ objects[a].status # "terminated"
        /\ Emits(e) /\ objects' = [objects EXCEPT ![a] = y] /\ anchor' = anchor
    BY <1>5 DEF UpdateAgentStatus, Owned
  <2>2. a \in DOMAIN objects /\ objects[a].kind = "AgentIdentity" /\ Shaped(objects[a])
    BY <1>2, <2>1 DEF Objects
  <2>3. Shaped(y) /\ y.status = st /\ KeptObject(objects[a], y)
    BY <2>1, <2>2, AgentChanged
  <2> HIDE DEF y
  <2>4. ObjectTypes' /\ Grows /\ Sets(a, y)
    BY <1>2, <2>1, <2>2, <2>3, Setting
  <2>5. SetsAgent(e)
    BY <2>1, <2>3, <2>4 DEF SetsAgent
  <2> QED
    BY <2>1, <2>4, <2>5 DEF Transaction
<1>6. ASSUME NEW a, IncrementCounters(w, a, 1) PROVE \E e : Transaction(e)
  <2> DEFINE e == [sender |-> w, type |-> "AgentCountersUpdated", agent |-> a,
                   counter |-> objects[a].counter + 1]
             y == [objects[a] EXCEPT !.counter = @ + 1]
  <2>1. /\ a \in Objects("AgentIdentity") /\ objects[a].status # "terminated"
        /\ Emits(e) /\ objects' = [objects EXCEPT ![a] = y] /\ anchor' = anchor
    BY <1>6 DEF IncrementCounters, Owned, IsActive
  <2>2. a \in DOMAIN objects /\ objects[a].kind = "AgentIdentity" /\ Shaped(objects[a])
    BY <1>2, <2>1 DEF Objects
  <2>3. Shaped(y) /\ KeptObject(objects[a], y)
    BY <2>2, AgentChanged
  <2> HIDE DEF y
  <2>4. ObjectTypes' /\ Grows /\ Sets(a, y)
    BY <1>2, <2>1, <2>2, <2>3, Setting
  <2>5. SetsAgent(e)
    BY <2>1, <2>3, <2>4 DEF SetsAgent
  <2> QED
    BY <2>1, <2>4, <2>5 DEF Transaction
<1>7. ASSUME NEW t, NEW g, NEW r, NEW u, DelegateCapability(w, t, g, r, u) \/ MintCapability(w, t, g, r, u)
      PROVE  \E e : Transaction(e)
  <2> DEFINE x == Capability(r, t, g, u)
  <2>1. PICK e : /\ Emits(e) /\ e.sender = w /\ e.type \in {"CapabilityDelegated", "no event"}
                 /\ e.target = t /\ e.verbs = g /\ e.recipient = r
    <3>1. CASE DelegateCapability(w, t, g, r, u)
      <4> DEFINE d == [sender |-> w, type |-> "CapabilityDelegated", capability |-> NewId,
                       target |-> t, verbs |-> g, recipient |-> r]
      <4>1. /\ Emits(d) /\ d.sender = w /\ d.type \in {"CapabilityDelegated", "no event"}
            /\ d.target = t /\ d.verbs = g /\ d.recipient = r
        BY <3>1 DEF DelegateCapability
      <4> HIDE DEF d
      <4> QED
        BY <4>1
    <3>2. CASE MintCapability(w, t, g, r, u)
      <4> DEFINE d == [sender |-> w, type |-> "no event", target |-> t, verbs |-> g, recipient |-> r]
      <4>1. /\ Emits(d) /\ d.sender = w /\ d.type \in {"CapabilityDelegated", "no event"}
            /\ d.target = t /\ d.verbs = g /\ d.recipient = r
        BY <3>2 DEF MintCapability
      <4> HIDE DEF d
      <4> QED
        BY <4>1
    <3> QED
      BY <1>7, <3>1, <3>2
  <2>2. objects' = Append(objects, x) /\ anchor' = anchor
    BY <1>7 DEF DelegateCapability, MintCapability
  <2>3. Shaped(x)
    BY DEF Shaped, Capability
  <2>4. ObjectTypes' /\ Grows /\ Adds(x)
    BY <1>2, <2>2, <2>3, Adding
  <2>5. Mints(e)
    BY <2>1, <2>4 DEF Mints
  <2> QED
    BY <2>1, <2>2, <2>4, <2>5 DEF Transaction
<1>8. ASSUME NEW c, RevokeCapability(w, c) PROVE \E e : Transaction(e)
  <2> DEFINE e == [sender |-> w, type |-> "CapabilityRevoked", target |-> objects[c].target,
                   verbs |-> objects[c].verbs]
             y == [objects[c] EXCEPT !.owner = Destroyed]
  <2>1. /\ c \in Owned(w, "Capability")
        /\ Emits(e) /\ objects' = [objects EXCEPT ![c] = y] /\ anchor' = anchor
    BY <1>8 DEF RevokeCapability
  <2>2. c \in DOMAIN objects /\ objects[c].kind = "Capability" /\ Shaped(objects[c])
    BY <1>2, <2>1 DEF Objects, Owned
  <2>3. Shaped(y) /\ y.owner = Destroyed /\ KeptObject(objects[c], y)
    BY <2>2, CapabilityDestroyed
  <2> HIDE DEF y
  <2>4. ObjectTypes' /\ Grows /\ Sets(c, y)
    BY <1>2, <2>1, <2>2, <2>3, Setting
  <2>5. Revokes(e)
    BY <2>1, <2>3, <2>4 DEF Revokes
  <2> QED
    BY <2>1, <2>4, <2>5 DEF Transaction
<1>9. ASSUME NEW a, CreateStream(w, a) PROVE \E e : Transaction(e)
  <2> DEFINE e == [sender |-> w, type |-> "StreamCreated", stream |-> NewId]
             x == MemoryStream(w, a)
             y == Capability(w, NewId, CAP_ALL, 0)
             mid == Append(objects, x)
  <2>1. Emits(e) /\ objects' = objects \o <<x, y>> /\ anchor' = anchor
    BY <1>9 DEF CreateStream
  <2>2. Shaped(x) /\ Shaped(y)
    BY DEF Shaped, Capability, MemoryStream
  <2> HIDE DEF x, y
  <2>3. /\ IsSeq(mid) /\ Len(objects) \in Nat /\ NewId \notin DOMAIN objects
        /\ DOMAIN objects = 1 .. Len(objects)
        /\ DOMAIN mid = DOMAIN objects \cup {NewId} /\ Len(mid) + 1 = NewId + 1
        /\ \A o \in DOMAIN objects : mid[o] = objects[o]
        /\ mid[NewId] = x
    BY <1>2, Appended DEF ObjectTypes, NewId
  <2>4. objects' = Append(mid, y)
    BY <1>2, <2>1, AppendedTwo DEF ObjectTypes
  <2> HIDE DEF mid
  <2>5. /\ IsSeq(objects') /\ DOMAIN objects' = DOMAIN mid \cup {NewId + 1} /\ NewId + 1 \notin DOMAIN mid
        /\ \A o \in DOMAIN mid : objects'[o] = mid[o]
        /\ objects'[NewId + 1] = y
    BY <2>3, <2>4, Appended
  <2>6. /\ NewId # NewId + 1 /\ NewId + 1 \notin DOMAIN objects
        /\ DOMAIN objects' = DOMAIN objects \cup {NewId, NewId + 1}
        /\ \A o \in DOMAIN objects : objects'[o] = objects[o]
        /\ objects'[NewId] = x
    BY <2>3, <2>5 DEF NewId
  <2>7. MakesStream(e)
    BY <2>3, <2>5, <2>6 DEF MakesStream, x, y
  <2>8. ObjectTypes' /\ Grows
    BY <1>2, <2>2, <2>5, <2>6 DEF ObjectTypes, Grows, KeptObject
  <2> QED
    BY <2>1, <2>7, <2>8 DEF Transaction
<1>10. ASSUME NEW s, DeleteStream(w, s) PROVE \E e : Transaction(e)
  <2> DEFINE e == [sender |-> w, type |-> "StreamDeleted", stream |-> s]
             y == [objects[s] EXCEPT !.deleted = TRUE]
  <2>1. /\ s \in Owned(w, "MemoryStream")
        /\ Emits(e) /\ objects' = [objects EXCEPT ![s] = y] /\ anchor' = anchor
    BY <1>10 DEF DeleteStream
  <2>2. s \in DOMAIN objects /\ objects[s].kind = "MemoryStream" /\ Shaped(objects[s])
    BY <1>2, <2>1 DEF Objects, Owned
  <2>3. /\ Shaped(y) /\ y.deleted /\ KeptObject(objects[s], y)
        /\ y.count = objects[s].count /\ y.head = objects[s].head
    BY <2>2, StreamChanged
  <2> HIDE DEF y
  <2>4. ObjectTypes' /\ Grows /\ Sets(s, y)
    BY <1>2, <2>1, <2>2, <2>3, Setting
  <2>5. Deletes(e)
    BY <2>1, <2>3, <2>4 DEF Deletes
  <2> QED
    BY <2>1, <2>4, <2>5 DEF Transaction
<1>11. ASSUME NEW s, NEW v, NEW e, s \in Owned(w, "MemoryStream"), Extend(s, v), Emits(e),
              e.sender = w, e.type \in Appends, e.stream = s, e.parent = objects[s].head,
              e.epoch = objects[s].count + 1, HashOf(e) = v, Signs(e), anchor' = anchor
       PROVE  Transaction(e)
  <2> DEFINE y == [objects[s] EXCEPT !.count = @ + 1, !.head = v]
  <2>1. s \in DOMAIN objects /\ objects[s].kind = "MemoryStream" /\ Shaped(objects[s])
    BY <1>2, <1>11 DEF Objects, Owned
  <2>2. ~objects[s].deleted /\ objects' = [objects EXCEPT ![s] = y]
    BY <1>2, <1>11, <2>1 DEF Extend
  <2>3. Shaped(y) /\ y.count = objects[s].count + 1 /\ y.head = v /\ KeptObject(objects[s], y)
    BY <2>1, StreamChanged
  <2> HIDE DEF y
  <2>4. ObjectTypes' /\ Grows /\ Sets(s, y)
    BY <1>2, <2>1, <2>2, <2>3, Setting
  <2>5. Extends(e)
    BY <1>11, <2>2, <2>3, <2>4 DEF Extends
  <2> QED
    BY <1>11, <2>4, <2>5 DEF Transaction
<1>12. ASSUME NEW s, NEW h, AppendEvent(w, s, objects[s].head, h) PROVE \E e : Transaction(e)
  <2> DEFINE e == [sender |-> w, type |-> "MemoryEventAnchored", stream |-> s,
                   parent |-> objects[s].head, blob |-> h, epoch |-> objects[s].count + 1]
  <2>1. s \in Owned(w, "MemoryStream") /\ Extend(s, h) /\ Emits(e) /\ anchor' = anchor
    BY <1>12 DEF AppendEvent
  <2>2. HashOf(e) = h /\ e.type \in Appends /\ Signs(e)
    BY DEF HashOf, Appends, Signs
  <2> QED
    BY <1>11, <2>1, <2>2
<1>13. ASSUME NEW ws, NEW a, NEW c, NEW s, NEW h,
              AppendSignedEvent(w, ws, a, c, s, objects[s].head, h, h)
       PROVE  \E e : Transaction(e)
  <2> DEFINE e == [sender |-> w, type |-> "MemoryEventSigned", stream |-> s,
                   parent |-> objects[s].head, blob |-> h, hash |-> h,
                   epoch |-> objects[s].count + 1]
  <2>1. s \in Owned(w, "MemoryStream") /\ Extend(s, h) /\ Emits(e) /\ anchor' = anchor
    BY <1>13 DEF AppendSignedEvent, MayAppendSigned
  <2>2. HashOf(e) = h /\ e.type \in Appends
    BY DEF HashOf, Appends
  <2>3. Signs(e)
    BY <1>13 DEF AppendSignedEvent, MayAppendSigned, Signs, IsActive, HasPermission, Owned
  <2> QED
    BY <1>11, <2>1, <2>2, <2>3
<1>14. ASSUME NEW id, NEW blob, NEW a, NEW ws, AnchorEvent(w, id, blob, a, ws)
       PROVE  \E e : Transaction(e)
  <2> DEFINE e == [sender |-> w, type |-> "ProtocolEventAnchored", id |-> id, blob |-> blob,
                   agent |-> a, workspace |-> ws]
  <2>1. Emits(e) /\ Anchors(e) /\ objects' = objects
    BY <1>14 DEF AnchorEvent, Anchors
  <2>2. ObjectTypes' /\ Grows
    BY <1>2, <2>1 DEF ObjectTypes, Grows, KeptObject
  <2> QED
    BY <2>1, <2>2 DEF Transaction
<1> QED
  BY <1>1, <1>3, <1>4, <1>5, <1>6, <1>7, <1>8, <1>9, <1>10, <1>12, <1>13, <1>14

-----------------------------------------------------------------------------
(***************************************************************************)
(* The chain's invariant                                                   *)
(***************************************************************************)

\* What an event says of an object is so from then on.
EventsTrue ==
  \A i \in DOMAIN emitted :
    /\ Told(i, Appends \cup {"StreamCreated", "StreamDeleted"}) =>
         emitted[i].stream \in Objects("MemoryStream")
    /\ Told(i, {"StreamDeleted"}) => objects[emitted[i].stream].deleted
    /\ Told(i, {"AgentStatusChanged"}) /\ emitted[i].status = "terminated" =>
         /\ emitted[i].agent \in Objects("AgentIdentity")
         /\ objects[emitted[i].agent].status = "terminated"

StreamsMade ==
  \A s \in Objects("MemoryStream") : \E i \in DOMAIN emitted :
    Told(i, {"StreamCreated"}) /\ emitted[i].stream = s /\ emitted[i].sender = objects[s].owner

\* The capabilities to write s that wallet w holds are those it was given, in
\* a transaction each, less those it revoked.
GivenTo(w, s) ==
  {j \in DOMAIN emitted :
     \/ Told(j, {"StreamCreated"}) /\ emitted[j].stream = s /\ emitted[j].sender = w
     \/ /\ Told(j, {"CapabilityDelegated", "no event"}) /\ emitted[j].target = s
        /\ CAP_WRITE \in emitted[j].verbs /\ emitted[j].recipient = w}

RevokedBy(w, s) ==
  {j \in DOMAIN emitted :
     /\ Told(j, {"CapabilityRevoked"}) /\ emitted[j].target = s
     /\ CAP_WRITE \in emitted[j].verbs /\ emitted[j].sender = w}

HeldBy(w, s) ==
  {c \in Owned(w, "Capability") : objects[c].target = s /\ CAP_WRITE \in objects[c].verbs}

CapabilitiesCounted ==
  \A w \in Wallets : \A s :
    Cardinality(GivenTo(w, s)) = Cardinality(RevokedBy(w, s)) + Cardinality(HeldBy(w, s))

ChainInv ==
  /\ ChainTypes /\ EventsTrue /\ StreamsMade /\ CapabilitiesCounted
  /\ EpochsContiguous /\ NothingAfterEnd /\ SignedWithPermission

\* The event of a transaction is the last; the others are as they were.
LEMMA LastEvent ==
  ASSUME IsSeq(emitted), NEW e, Emits(e)
  PROVE  \E n \in Nat :
           /\ IsSeq(emitted') /\ n \notin DOMAIN emitted
           /\ DOMAIN emitted = 1 .. n - 1 /\ DOMAIN emitted' = DOMAIN emitted \cup {n}
           /\ \A i \in DOMAIN emitted : emitted'[i] = emitted[i] /\ i \in Nat /\ i < n
           /\ emitted'[n] = e
           /\ IsFiniteSet(DOMAIN emitted) /\ IsFiniteSet(DOMAIN emitted')
<1> DEFINE m == Len(emitted) + 1
<1>1. IsFiniteSet(1 .. Len(emitted)) /\ IsFiniteSet(1 .. Len(emitted) + 1)
  BY Appended, FS_Interval
<1>2. /\ m \in Nat /\ IsSeq(emitted') /\ m \notin DOMAIN emitted
      /\ DOMAIN emitted = 1 .. m - 1 /\ DOMAIN emitted' = DOMAIN emitted \cup {m}
      /\ \A i \in DOMAIN emitted : emitted'[i] = emitted[i] /\ i \in Nat /\ i < m
      /\ emitted'[m] = e
      /\ IsFiniteSet(DOMAIN emitted) /\ IsFiniteSet(DOMAIN emitted')
  BY <1>1, Appended DEF Emits
<1> HIDE DEF m
<1> QED
  BY <1>2

\* An object of a kind stays one.
LEMMA KindsStay ==
  ASSUME Grows
  PROVE  \A k : Objects(k) \subseteq Objects(k)'
BY DEF Grows, KeptObject, Objects

\* The next events are about what they say.
LEMMA EventsStayTrue ==
  ASSUME ChainTypes, EventsTrue, NEW e, Transaction(e)
  PROVE  EventsTrue'
<1> DEFINE True(i) == /\ Told(i, Appends \cup {"StreamCreated", "StreamDeleted"}) =>
                           emitted[i].stream \in Objects("MemoryStream")
                      /\ Told(i, {"StreamDeleted"}) => objects[emitted[i].stream].deleted
                      /\ Told(i, {"AgentStatusChanged"}) /\ emitted[i].status = "terminated" =>
                           /\ emitted[i].agent \in Objects("AgentIdentity")
                           /\ objects[emitted[i].agent].status = "terminated"
<1>1. PICK n \in Nat :
        /\ n \notin DOMAIN emitted /\ DOMAIN emitted' = DOMAIN emitted \cup {n}
        /\ \A i \in DOMAIN emitted : emitted'[i] = emitted[i]
        /\ emitted'[n] = e /\ Grows
  BY LastEvent DEF ChainTypes, Transaction
<1>2. ASSUME NEW i \in DOMAIN emitted PROVE True(i)'
  BY <1>1, KindsStay DEF EventsTrue, Told, Grows, KeptObject, Objects
<1>3. True(n)'
  <2>1. CASE AddsPlain(e) \/ Mints(e) \/ Revokes(e) \/ Anchors(e)
    BY <1>1, <2>1 DEF AddsPlain, Mints, Revokes, Anchors, Told, Appends
  <2>2. CASE SetsAgent(e)
    BY <1>1, <2>2, KindsStay DEF SetsAgent, Sets, Told, Appends
  <2>3. CASE MakesStream(e)
    BY <1>1, <2>3 DEF MakesStream, MemoryStream, Objects, Told, Appends
  <2>4. CASE Extends(e)
    BY <1>1, <2>4, KindsStay DEF Extends, Owned, Told, Appends
  <2>5. CASE Deletes(e)
    BY <1>1, <2>5, KindsStay DEF Deletes, Owned, Sets, Told, Appends
  <2> QED
    BY <2>1, <2>2, <2>3, <2>4, <2>5 DEF Transaction
<1>4. \A i \in DOMAIN emitted' : True(i)'
  BY <1>1, <1>2, <1>3
<1> QED
  BY <1>4 DEF EventsTrue

\* Every stream was made by its owner.
LEMMA StreamsStayMade ==
  ASSUME ChainTypes, StreamsMade, NEW e, Transaction(e)
  PROVE  StreamsMade'
<1>1. PICK n \in Nat :
        /\ n \notin DOMAIN emitted /\ DOMAIN emitted' = DOMAIN emitted \cup {n}
        /\ \A i \in DOMAIN emitted : emitted'[i] = emitted[i]
        /\ emitted'[n] = e /\ Grows
  BY LastEvent DEF ChainTypes, Transaction
<1> SUFFICES ASSUME NEW s \in Objects("MemoryStream")'
             PROVE  \E i \in DOMAIN emitted' :
                      /\ Told(i, {"StreamCreated"})' /\ emitted'[i].stream = s
                      /\ emitted'[i].sender = objects'[s].owner
  BY DEF StreamsMade
<1>2. CASE s \in Objects("MemoryStream")
  <2>1. PICK i \in DOMAIN emitted : /\ Told(i, {"StreamCreated"}) /\ emitted[i].stream = s
                                   /\ emitted[i].sender = objects[s].owner
    BY <1>2 DEF StreamsMade
  <2>2. objects'[s].owner = objects[s].owner
    BY <1>1, <1>2 DEF Grows, KeptObject, Objects
  <2> QED
    BY <1>1, <2>1, <2>2 DEF Told
<1>3. CASE s \notin Objects("MemoryStream")
  <2>1. s \in DOMAIN objects' /\ objects'[s].kind = "MemoryStream" /\ s \notin DOMAIN objects
    BY <1>1, <1>3 DEF Objects, Grows, KeptObject
  <2>2. MakesStream(e)
    <3>1. ~AddsPlain(e) /\ ~Mints(e)
      <4>1. ASSUME NEW x, Adds(x) PROVE x.kind = "MemoryStream"
        BY <2>1, <4>1 DEF Adds
      <4>2. \A u : Capability(e.recipient, e.target, e.verbs, u).kind = "Capability"
        BY DEF Capability
      <4> QED
        BY <4>1, <4>2 DEF AddsPlain, Mints
    <3>2. ~SetsAgent(e) /\ ~Revokes(e) /\ ~Extends(e) /\ ~Deletes(e) /\ ~Anchors(e)
      BY <2>1 DEF SetsAgent, Sets, Revokes, Extends, Deletes, Anchors
    <3> QED
      BY <3>1, <3>2 DEF Transaction
  <2>3. s = NewId /\ objects'[s].owner = e.sender /\ e.type = "StreamCreated" /\ e.stream = s
    BY <2>1, <2>2 DEF MakesStream, MemoryStream, Capability
  <2> QED
    BY <1>1, <2>3 DEF Told
<1> QED
  BY <1>2, <1>3

\* What follows an end: what NothingAfterEnd says of two events.
AfterEnd(i, j) ==
  /\ Told(i, {"StreamDeleted"}) /\ Told(j, Appends) => emitted[j].stream # emitted[i].stream
  /\ Told(i, {"AgentStatusChanged"}) /\ emitted[i].status = "terminated" =>
       /\ Told(j, {"AgentStatusChanged", "AgentCountersUpdated"}) =>
            emitted[j].agent # emitted[i].agent
       /\ Told(j, {"MemoryEventSigned"}) =>
            objects[emitted[j].stream].agent # emitted[i].agent

LEMMA EndsStay ==
  ASSUME ChainTypes, EventsTrue, NothingAfterEnd, NEW e, Transaction(e)
  PROVE  NothingAfterEnd'
<1>1. PICK n \in Nat :
        /\ n \notin DOMAIN emitted /\ DOMAIN emitted' = DOMAIN emitted \cup {n}
        /\ \A i \in DOMAIN emitted : emitted'[i] = emitted[i] /\ i \in Nat /\ i < n
        /\ emitted'[n] = e /\ Grows
  BY LastEvent DEF ChainTypes, Transaction
<1> SUFFICES ASSUME NEW i \in DOMAIN emitted', NEW j \in DOMAIN emitted', i < j
             PROVE  AfterEnd(i, j)'
  BY DEF NothingAfterEnd, AfterEnd
<1>2. i \in DOMAIN emitted
  BY <1>1
<1>3. CASE j \in DOMAIN emitted
  <2>1. AfterEnd(i, j)
    BY <1>2, <1>3 DEF NothingAfterEnd, AfterEnd
  <2>2. Told(j, {"MemoryEventSigned"}) =>
          objects'[emitted[j].stream].agent = objects[emitted[j].stream].agent
    BY <1>1, <1>3 DEF EventsTrue, Told, Appends, Objects, Grows, KeptObject
  <2> QED
    BY <1>1, <1>2, <1>3, <2>1, <2>2 DEF AfterEnd, Told
<1>4. CASE j = n
  <2>1. /\ Told(i, {"StreamDeleted"}) => objects[emitted[i].stream].deleted
        /\ Told(i, {"AgentStatusChanged"}) /\ emitted[i].status = "terminated" =>
             objects[emitted[i].agent].status = "terminated"
    BY <1>2 DEF EventsTrue
  <2>2. e.type \in Appends =>
          /\ ~objects[e.stream].deleted
          /\ e.type = "MemoryEventSigned" =>
               /\ objects'[e.stream].agent = objects[e.stream].agent
               /\ objects[objects[e.stream].agent].status = "active"
    <3>1. e.type \in Appends => Extends(e) /\ Signs(e)
      BY DEF Transaction, AddsPlain, SetsAgent, Mints, Revokes, MakesStream, Deletes, Anchors, Appends
    <3>2. Extends(e) => /\ ~objects[e.stream].deleted
                        /\ objects'[e.stream].agent = objects[e.stream].agent
      BY <1>1 DEF Extends, Owned, Objects, Grows, KeptObject
    <3> QED
      BY <3>1, <3>2 DEF Signs
  <2>3. e.type \in {"AgentStatusChanged", "AgentCountersUpdated"} =>
          objects[e.agent].status # "terminated"
    BY DEF Transaction, AddsPlain, SetsAgent, Mints, Revokes, MakesStream, Extends, Deletes,
           Anchors, Appends
  <2> QED
    BY <1>1, <1>2, <1>4, <2>1, <2>2, <2>3 DEF AfterEnd, Told, Appends
<1> QED
  BY <1>1, <1>3, <1>4

\* A set of natural numbers has a least one, a bounded one a greatest.
LEMMA LeastIn ==
  ASSUME NEW A, A \subseteq Nat, A # {}
  PROVE  \E x \in A : \A y \in A : x <= y
<1>1. PICK x \in A : \A y \in A : ~ (<<y, x>> \in OpToRel(<, Nat))
  BY NatLessThanWellFounded, WFMin
<1>2. \A y \in A : y \in Nat /\ x \in Nat /\ ~ (y < x)
  BY <1>1 DEF OpToRel
<1>3. \A y \in A : x <= y
  BY <1>2
<1> QED
  BY <1>3

LEMMA GreatestIn ==
  ASSUME NEW n \in Nat, NEW A, A \subseteq 0 .. n, A # {}
  PROVE  LastOf(A) \in A /\ \A j \in A : j <= LastOf(A)
<1> DEFINE B == {n - i : i \in A}
<1>1. PICK a \in A : TRUE
  OBVIOUS
<1>2. B \subseteq Nat /\ n - a \in B
  OBVIOUS
<1>3. PICK x \in B : \A y \in B : x <= y
  <2> HIDE DEF B
  <2> QED
    BY <1>2, LeastIn
<1>4. PICK i \in A : x = n - i
  BY <1>3
<1>5. \A j \in A : n - i <= n - j
  BY <1>3, <1>4
<1>6. \A j \in A : j <= i
  BY <1>5
<1> QED
  BY <1>4, <1>6 DEF LastOf

\* The last of a set that gets a greater element.
LEMMA NewLast ==
  ASSUME NEW n \in Nat, NEW A, \A i \in A : i \in Nat /\ i < n
  PROVE  LastOf(A \cup {n}) = n
<1>1. n \in A \cup {n} /\ \A j \in A \cup {n} : j <= n
  OBVIOUS
<1>2. \A i \in A \cup {n} : (\A j \in A \cup {n} : j <= i) => i = n
  OBVIOUS
<1> QED
  BY <1>1, <1>2 DEF LastOf

\* The n-th event comes after the others.
NewEvent(n, e) ==
  /\ n \in Nat /\ n \notin DOMAIN emitted
  /\ DOMAIN emitted = 1 .. n - 1 /\ DOMAIN emitted' = DOMAIN emitted \cup {n}
  /\ \A i \in DOMAIN emitted : emitted'[i] = emitted[i] /\ i \in Nat /\ i < n
  /\ emitted'[n] = e
  /\ IsFiniteSet(DOMAIN emitted)

\* A stream that nothing is appended to.
LEMMA StreamUntouched ==
  ASSUME NEW n, NEW e, NewEvent(n, e), NEW s, StreamAgrees(s),
         ~(e.type \in Appends /\ e.stream = s),
         objects'[s].count = objects[s].count, objects'[s].head = objects[s].head
  PROVE  StreamAgrees(s)'
<1> DEFINE A == AppendsTo(s)
           Before(i) == {j \in A : j < i}
<1>1. A' = A /\ A \subseteq 0 .. n /\ A \subseteq DOMAIN emitted
  BY DEF AppendsTo, Told, NewEvent
<1>2. \A i \in A : emitted'[i] = emitted[i]
  BY <1>1 DEF NewEvent
<1>3. A # {} => LastOf(A) \in A
  BY <1>1, GreatestIn DEF NewEvent
<1>4. ASSUME NEW i \in A, Before(i) # {} PROVE LastOf(Before(i)) \in A
  BY <1>1, <1>4, GreatestIn DEF NewEvent
<1>5. /\ {emitted[i].epoch : i \in A} = 1 .. objects[s].count
      /\ Cardinality(A) = objects[s].count
      /\ \A i, j \in A : i < j => emitted[i].epoch < emitted[j].epoch
      /\ objects[s].head = IF A = {} THEN Genesis ELSE HashOf(emitted[LastOf(A)])
      /\ \A i \in A : emitted[i].parent =
           IF Before(i) = {} THEN Genesis ELSE HashOf(emitted[LastOf(Before(i))])
  BY DEF StreamAgrees
<1> HIDE DEF A
<1>6. /\ {emitted'[i].epoch : i \in A} = 1 .. objects'[s].count
      /\ Cardinality(A) = objects'[s].count
      /\ \A i, j \in A : i < j => emitted'[i].epoch < emitted'[j].epoch
  BY <1>2, <1>5
<1>7. objects'[s].head = IF A = {} THEN Genesis ELSE HashOf(emitted'[LastOf(A)])
  BY <1>2, <1>3, <1>5
<1>8. ASSUME NEW i \in A
      PROVE  emitted'[i].parent =
               IF Before(i) = {} THEN Genesis ELSE HashOf(emitted'[LastOf(Before(i))])
  BY <1>2, <1>4, <1>5
<1>9. /\ {emitted'[i].epoch : i \in A'} = 1 .. objects'[s].count
      /\ Cardinality(A') = objects'[s].count
      /\ \A i, j \in A' : i < j => emitted'[i].epoch < emitted'[j].epoch
      /\ objects'[s].head = IF A' = {} THEN Genesis ELSE HashOf(emitted'[LastOf(A')])
      /\ \A i \in A' : emitted'[i].parent =
           IF {j \in A' : j < i} = {} THEN Genesis ELSE HashOf(emitted'[LastOf({j \in A' : j < i})])
  BY <1>1, <1>6, <1>7, <1>8
<1> QED
  BY <1>9 DEF StreamAgrees, A, HashOf, LastOf

\* The stream that an event is appended to.
LEMMA StreamExtended ==
  ASSUME NEW n, NEW e, NewEvent(n, e), Extends(e), StreamAgrees(e.stream),
         objects[e.stream].count \in Nat
  PROVE  StreamAgrees(e.stream)'
<1> DEFINE s == e.stream
           A == AppendsTo(s)
           Before(i) == {j \in A : j < i}
           BeforeNew(i) == {j \in A \cup {n} : j < i}
<1> DEFINE c == objects[s].count
<1>1. A' = A \cup {n} /\ A \subseteq 0 .. n /\ A \subseteq DOMAIN emitted /\ n \notin A
  BY DEF AppendsTo, Told, NewEvent, Extends
<1>2. /\ \A i \in A : emitted'[i] = emitted[i] /\ i \in Nat /\ i < n
      /\ emitted'[n] = e /\ n \in Nat
  BY <1>1 DEF NewEvent
<1>3. A # {} => LastOf(A) \in A
  BY <1>1, GreatestIn DEF NewEvent
<1>4. ASSUME NEW i \in A, Before(i) # {} PROVE LastOf(Before(i)) \in A
  BY <1>1, <1>4, GreatestIn DEF NewEvent
<1>5. /\ {emitted[i].epoch : i \in A} = 1 .. c
      /\ Cardinality(A) = c
      /\ \A i, j \in A : i < j => emitted[i].epoch < emitted[j].epoch
      /\ objects[s].head = IF A = {} THEN Genesis ELSE HashOf(emitted[LastOf(A)])
      /\ \A i \in A : emitted[i].parent =
           IF Before(i) = {} THEN Genesis ELSE HashOf(emitted[LastOf(Before(i))])
  BY DEF StreamAgrees
<1>6. /\ objects'[s].count = c + 1 /\ objects'[s].head = HashOf(e)
      /\ e.epoch = c + 1 /\ e.parent = objects[s].head
  BY DEF Extends, Sets
<1>7. Cardinality(A \cup {n}) = c + 1 /\ c \in Nat
  <2>1. IsFiniteSet(A)
    BY <1>1, FS_Subset DEF NewEvent
  <2>2. Cardinality(A \cup {n}) = Cardinality(A) + 1
    BY <1>1, <2>1, FS_AddElement
  <2> QED
    BY <1>5, <2>2
<1>8. LastOf(A \cup {n}) = n
  BY <1>2, NewLast
<1> HIDE DEF A, c
<1>9. {emitted'[i].epoch : i \in A \cup {n}} = 1 .. c + 1
  <2>1. {emitted'[i].epoch : i \in A \cup {n}} = {emitted[i].epoch : i \in A} \cup {c + 1}
    BY <1>2, <1>6
  <2>2. (1 .. c) \cup {c + 1} = 1 .. c + 1
    BY <1>7
  <2> QED
    BY <2>1, <2>2, <1>5
<1>10. \A i, j \in A \cup {n} : i < j => emitted'[i].epoch < emitted'[j].epoch
  <2>1. \A i \in A : emitted[i].epoch \in 1 .. c
    BY <1>5
  <2> QED
    BY <2>1, <1>2, <1>5, <1>6, <1>7
<1>11. ASSUME NEW i \in A \cup {n}
       PROVE  emitted'[i].parent =
                IF BeforeNew(i) = {} THEN Genesis ELSE HashOf(emitted'[LastOf(BeforeNew(i))])
  <2>1. CASE i \in A
    <3>1. BeforeNew(i) = Before(i)
      BY <1>2, <2>1
    <3>2. Before(i) # {} => emitted'[LastOf(Before(i))] = emitted[LastOf(Before(i))]
      BY <1>2, <1>4, <2>1
    <3> QED
      BY <1>2, <1>5, <2>1, <3>1, <3>2
  <2>2. CASE i = n
    <3>1. BeforeNew(n) = A
      BY <1>2
    <3>2. A # {} => emitted'[LastOf(A)] = emitted[LastOf(A)]
      BY <1>2, <1>3
    <3> QED
      BY <1>2, <1>5, <1>6, <2>2, <3>1, <3>2
  <2> QED
    BY <2>1, <2>2
<1>12. /\ {emitted'[i].epoch : i \in A'} = 1 .. objects'[s].count
       /\ Cardinality(A') = objects'[s].count
       /\ \A i, j \in A' : i < j => emitted'[i].epoch < emitted'[j].epoch
       /\ objects'[s].head = IF A' = {} THEN Genesis ELSE HashOf(emitted'[LastOf(A')])
       /\ \A i \in A' : emitted'[i].parent =
            IF {j \in A' : j < i} = {} THEN Genesis ELSE HashOf(emitted'[LastOf({j \in A' : j < i})])
  <2>1. A' # {} /\ emitted'[LastOf(A')] = e
    BY <1>1, <1>2, <1>8
  <2> QED
    BY <2>1, <1>1, <1>6, <1>7, <1>9, <1>10, <1>11
<1> QED
  BY <1>12 DEF StreamAgrees, A, HashOf, LastOf

\* The event of a transaction is new.
LEMMA EventIsNew ==
  ASSUME ChainTypes, NEW e, Transaction(e)
  PROVE  Grows /\ \E n \in Nat : NewEvent(n, e)
BY LastEvent DEF ChainTypes, Transaction, NewEvent

\* An object that is new, of a kind.
LEMMA MadeBy ==
  ASSUME ChainTypes, NEW e, Transaction(e),
         NEW o \in DOMAIN objects', o \notin DOMAIN objects
  PROVE  /\ objects'[o].kind = "MemoryStream" => MakesStream(e) /\ o = NewId
         /\ objects'[o].kind = "Capability" =>
              \/ Mints(e) /\ \E u : Adds(Capability(e.recipient, e.target, e.verbs, u)) /\ o = NewId
              \/ MakesStream(e) /\ o = NewId + 1
<1>1. ~SetsAgent(e) /\ ~Revokes(e) /\ ~Extends(e) /\ ~Deletes(e) /\ ~Anchors(e)
  BY DEF SetsAgent, Sets, Revokes, Extends, Deletes, Anchors
<1>2. CASE AddsPlain(e)
  BY <1>2 DEF AddsPlain, Adds
<1>3. CASE Mints(e)
  <2>1. PICK u : Adds(Capability(e.recipient, e.target, e.verbs, u))
    BY <1>3 DEF Mints
  <2>2. o = NewId /\ objects'[o] = Capability(e.recipient, e.target, e.verbs, u)
    BY <2>1 DEF Adds
  <2>3. objects'[o].kind = "Capability"
    BY <2>2 DEF Capability
  <2> QED
    BY <1>3, <2>1, <2>2, <2>3
<1>4. CASE MakesStream(e)
  <2>1. o \in {NewId, NewId + 1} /\ objects'[NewId + 1] = Capability(e.sender, NewId, CAP_ALL, 0)
    BY <1>4 DEF MakesStream
  <2>2. PICK a : objects'[NewId] = MemoryStream(e.sender, a)
    BY <1>4 DEF MakesStream
  <2>3. objects'[NewId].kind = "MemoryStream" /\ objects'[NewId + 1].kind = "Capability"
    BY <2>1, <2>2 DEF MemoryStream, Capability
  <2> QED
    BY <1>4, <2>1, <2>3
<1> QED
  BY <1>1, <1>2, <1>3, <1>4 DEF Transaction

\* What happens to the count and head of a stream that nothing is appended to.
LEMMA SameHead ==
  ASSUME ChainTypes, NEW e, Transaction(e), NEW s \in Objects("MemoryStream"),
         ~(e.type \in Appends /\ e.stream = s)
  PROVE  objects'[s].count = objects[s].count /\ objects'[s].head = objects[s].head
<1>1. s \in DOMAIN objects /\ objects[s].kind = "MemoryStream"
  BY DEF Objects
<1>2. CASE AddsPlain(e)
  BY <1>1, <1>2 DEF AddsPlain, Adds
<1>3. CASE SetsAgent(e)
  BY <1>1, <1>3 DEF SetsAgent, Sets, Objects
<1>4. CASE Mints(e)
  BY <1>1, <1>4 DEF Mints, Adds
<1>5. CASE Revokes(e)
  BY <1>1, <1>5 DEF Revokes, Sets, Owned, Objects
<1>6. CASE MakesStream(e)
  BY <1>1, <1>6 DEF MakesStream
<1>7. CASE Extends(e)
  BY <1>1, <1>7 DEF Extends, Sets
<1>8. CASE Deletes(e)
  BY <1>1, <1>8 DEF Deletes, Sets
<1>9. CASE Anchors(e)
  BY <1>9 DEF Anchors
<1> QED
  BY <1>2, <1>3, <1>4, <1>5, <1>6, <1>7, <1>8, <1>9 DEF Transaction

\* Every stream agrees with its events.
LEMMA StreamsStayAgreed ==
  ASSUME ChainTypes, EventsTrue, \A s \in Objects("MemoryStream") : StreamAgrees(s),
         NEW e, Transaction(e)
  PROVE  \A s \in Objects("MemoryStream")' : StreamAgrees(s)'
<1>1. PICK n \in Nat : NewEvent(n, e) /\ Grows
  BY EventIsNew
<1> SUFFICES ASSUME NEW s \in Objects("MemoryStream")' PROVE StreamAgrees(s)'
  OBVIOUS
<1>2. s \in DOMAIN objects' /\ objects'[s].kind = "MemoryStream"
  BY DEF Objects
<1>3. CASE s \in DOMAIN objects
  <2>1. s \in Objects("MemoryStream") /\ StreamAgrees(s)
    BY <1>1, <1>2, <1>3 DEF Objects, Grows, KeptObject
  <2>2. CASE e.type \in Appends /\ e.stream = s
    <3>1. Extends(e)
      BY <2>2 DEF Transaction, AddsPlain, SetsAgent, Mints, Revokes, MakesStream, Deletes,
                  Anchors, Appends
    <3>2. objects[s].count \in Nat
      BY <2>1 DEF ChainTypes, ObjectTypes, Shaped, Objects
    <3> QED
      BY <1>1, <2>1, <2>2, <3>1, <3>2, StreamExtended
  <2>3. CASE ~(e.type \in Appends /\ e.stream = s)
    BY <1>1, <2>1, <2>3, SameHead, StreamUntouched
  <2> QED
    BY <2>2, <2>3
<1>4. CASE s \notin DOMAIN objects
  <2>1. MakesStream(e) /\ s = NewId
    BY <1>2, <1>4, MadeBy
  <2>2. objects'[s].count = 0 /\ objects'[s].head = Genesis
    BY <2>1 DEF MakesStream, MemoryStream
  <2>3. AppendsTo(s)' = {}
    <3>1. ASSUME NEW i \in DOMAIN emitted', Told(i, Appends)', emitted'[i].stream = s PROVE FALSE
      <4>1. i \in DOMAIN emitted
        BY <1>1, <2>1, <3>1 DEF NewEvent, MakesStream, Told, Appends
      <4>2. emitted[i].stream \in DOMAIN objects
        BY <1>1, <3>1, <4>1 DEF NewEvent, EventsTrue, Told, Objects
      <4> QED
        BY <1>1, <1>4, <3>1, <4>1, <4>2 DEF NewEvent
    <3> QED
      BY <3>1 DEF AppendsTo
  <2>4. Cardinality({}) = 0 /\ 1 .. 0 = {}
    BY FS_EmptySet
  <2> QED
    BY <2>2, <2>3, <2>4 DEF StreamAgrees
<1> QED
  BY <1>3, <1>4

\* The shared anchor agrees with the events that were anchored.
LEMMA AnchorStaysAgreed ==
  ASSUME ChainTypes, AnchorAgrees, NEW e, Transaction(e)
  PROVE  AnchorAgrees' /\ anchor'.count \in Nat
<1> DEFINE A == {i \in DOMAIN emitted : Told(i, {"ProtocolEventAnchored"})}
<1>1. PICK n \in Nat : NewEvent(n, e)
  BY EventIsNew
<1>2. /\ anchor.count = Cardinality(A) /\ anchor.count \in Nat
      /\ anchor.latest = IF A = {} THEN Genesis ELSE emitted[LastOf(A)].id
  BY DEF AnchorAgrees, ChainTypes
<1>3. A \subseteq DOMAIN emitted /\ A \subseteq 0 .. n /\ n \notin A
  BY <1>1 DEF NewEvent
<1>4. CASE Anchors(e)
  <2>1. A' = A \cup {n}
    BY <1>1, <1>4 DEF NewEvent, Anchors, Told
  <2>2. IsFiniteSet(A)
    BY <1>1, <1>3, FS_Subset DEF NewEvent
  <2>3. Cardinality(A \cup {n}) = Cardinality(A) + 1
    BY <1>3, <2>2, FS_AddElement
  <2>4. LastOf(A \cup {n}) = n
    BY <1>1, <1>3, NewLast DEF NewEvent
  <2>5. anchor'.count = anchor.count + 1 /\ anchor'.latest = e.id
    BY <1>4 DEF Anchors
  <2>6. LastOf(A') = n /\ Cardinality(A') = anchor'.count /\ A' # {} /\ emitted'[n] = e
    BY <1>1, <1>2, <2>1, <2>3, <2>4, <2>5 DEF NewEvent
  <2> HIDE DEF A
  <2>7. /\ anchor'.count = Cardinality(A')
        /\ anchor'.latest = IF A' = {} THEN Genesis ELSE emitted'[LastOf(A')].id
    BY <2>5, <2>6
  <2> QED
    BY <1>2, <2>5, <2>7 DEF AnchorAgrees, A, LastOf
<1>5. CASE ~Anchors(e)
  <2>1. e.type # "ProtocolEventAnchored" /\ anchor' = anchor
    BY <1>5 DEF Transaction, AddsPlain, SetsAgent, Mints, Revokes, MakesStream, Extends, Deletes,
                Appends
  <2>2. A' = A
    BY <1>1, <2>1 DEF NewEvent, Told
  <2>3. A # {} => LastOf(A) \in A
    BY <1>3, GreatestIn
  <2>4. A # {} => emitted'[LastOf(A)] = emitted[LastOf(A)]
    BY <1>1, <2>3 DEF NewEvent
  <2> HIDE DEF A
  <2>5. /\ anchor'.count = Cardinality(A')
        /\ anchor'.latest = IF A' = {} THEN Genesis ELSE emitted'[LastOf(A')].id
    BY <1>2, <2>1, <2>2, <2>4
  <2> QED
    BY <1>2, <2>1, <2>5 DEF AnchorAgrees, A, LastOf
<1> QED
  BY <1>4, <1>5

\* A transaction gives the wallet w a capability to write s, or takes it one.
Gives(e, w, s) ==
  \/ e.type = "StreamCreated" /\ e.stream = s /\ e.sender = w
  \/ /\ e.type \in {"CapabilityDelegated", "no event"} /\ e.target = s
     /\ CAP_WRITE \in e.verbs /\ e.recipient = w

Takes(e, w, s) ==
  /\ e.type = "CapabilityRevoked" /\ e.target = s
  /\ CAP_WRITE \in e.verbs /\ e.sender = w

\* It counts among those.
LEMMA GivenAndRevoked ==
  ASSUME NEW n, NEW e, NewEvent(n, e), NEW w, NEW s
  PROVE  /\ Gives(e, w, s) => GivenTo(w, s)' = GivenTo(w, s) \cup {n}
         /\ ~Gives(e, w, s) => GivenTo(w, s)' = GivenTo(w, s)
         /\ Takes(e, w, s) => RevokedBy(w, s)' = RevokedBy(w, s) \cup {n}
         /\ ~Takes(e, w, s) => RevokedBy(w, s)' = RevokedBy(w, s)
         /\ n \notin GivenTo(w, s) /\ n \notin RevokedBy(w, s)
         /\ IsFiniteSet(GivenTo(w, s)) /\ IsFiniteSet(RevokedBy(w, s))
<1>1. GivenTo(w, s) \subseteq DOMAIN emitted /\ RevokedBy(w, s) \subseteq DOMAIN emitted
  BY DEF GivenTo, RevokedBy
<1>2. IsFiniteSet(GivenTo(w, s)) /\ IsFiniteSet(RevokedBy(w, s))
  BY <1>1, FS_Subset DEF NewEvent
<1>3. /\ DOMAIN emitted' = DOMAIN emitted \cup {n} /\ n \notin DOMAIN emitted
      /\ \A i \in DOMAIN emitted : emitted'[i] = emitted[i]
      /\ emitted'[n] = e
  BY DEF NewEvent
<1>4. \A i : i \in GivenTo(w, s) <=> i \in DOMAIN emitted /\ Gives(emitted[i], w, s)
  BY DEF GivenTo, Gives, Told
<1>5. \A i : i \in GivenTo(w, s)' <=> i \in DOMAIN emitted' /\ Gives(emitted'[i], w, s)
  BY DEF GivenTo, Gives, Told
<1>6. \A i : i \in RevokedBy(w, s) <=> i \in DOMAIN emitted /\ Takes(emitted[i], w, s)
  BY DEF RevokedBy, Takes, Told
<1>7. \A i : i \in RevokedBy(w, s)' <=> i \in DOMAIN emitted' /\ Takes(emitted'[i], w, s)
  BY DEF RevokedBy, Takes, Told
<1> QED
  BY <1>1, <1>2, <1>3, <1>4, <1>5, <1>6, <1>7

\* An object that no transaction makes or destroys is held as before.
LEMMA HeldChanges ==
  ASSUME ChainTypes, NEW e, Transaction(e), NEW w \in Wallets, NEW s
  PROVE  /\ Gives(e, w, s) =>
              \E c : c \notin HeldBy(w, s) /\ HeldBy(w, s)' = HeldBy(w, s) \cup {c}
         /\ Takes(e, w, s) =>
              \E c \in HeldBy(w, s) : HeldBy(w, s)' = HeldBy(w, s) \ {c}
         /\ ~Gives(e, w, s) /\ ~Takes(e, w, s) => HeldBy(w, s)' = HeldBy(w, s)
<1> DEFINE Holds(x) == /\ x.kind = "Capability" /\ x.owner = w /\ x.target = s
                       /\ CAP_WRITE \in x.verbs
<1>1. /\ \A o : o \in HeldBy(w, s) <=> o \in DOMAIN objects /\ Holds(objects[o])
      /\ \A o : o \in HeldBy(w, s)' <=> o \in DOMAIN objects' /\ Holds(objects'[o])
  BY DEF HeldBy, Owned, Objects
<1> HIDE DEF Holds
<1>2. CASE Mints(e)
  <2>1. PICK u : Adds(Capability(e.recipient, e.target, e.verbs, u))
    BY <1>2 DEF Mints
  <2> DEFINE x == Capability(e.recipient, e.target, e.verbs, u)
  <2>2. Holds(x) <=> Gives(e, w, s)
    BY <1>2 DEF Holds, Gives, Mints, Capability
  <2>3. ~Takes(e, w, s)
    BY <1>2 DEF Takes, Mints
  <2>4. /\ NewId \notin DOMAIN objects /\ DOMAIN objects' = DOMAIN objects \cup {NewId}
        /\ objects'[NewId] = x /\ \A o \in DOMAIN objects : objects'[o] = objects[o]
    BY <2>1 DEF Adds
  <2>5. NewId \notin HeldBy(w, s)
    BY <1>1, <2>4
  <2>6. CASE Gives(e, w, s)
    <3>1. HeldBy(w, s)' = HeldBy(w, s) \cup {NewId}
      BY <1>1, <2>2, <2>4, <2>6
    <3> QED
      BY <2>3, <2>5, <2>6, <3>1
  <2>7. CASE ~Gives(e, w, s)
    <3>1. HeldBy(w, s)' = HeldBy(w, s)
      BY <1>1, <2>2, <2>4, <2>7
    <3> QED
      BY <2>3, <2>7, <3>1
  <2> QED
    BY <2>6, <2>7
<1>3. CASE MakesStream(e)
  <2> DEFINE x == Capability(e.sender, NewId, CAP_ALL, 0)
             c == NewId + 1
  <2>1. Holds(x) <=> Gives(e, w, s)
    BY <1>3 DEF Holds, Gives, MakesStream, Capability, CAP_ALL, CAP_WRITE
  <2>2. ~Takes(e, w, s)
    BY <1>3 DEF Takes, MakesStream
  <2>3. PICK a : objects'[NewId] = MemoryStream(e.sender, a)
    BY <1>3 DEF MakesStream
  <2>4. ~Holds(objects'[NewId])
    BY <2>3 DEF Holds, MemoryStream
  <2>5. /\ c \notin DOMAIN objects /\ DOMAIN objects' = DOMAIN objects \cup {NewId, c}
        /\ NewId # c /\ NewId \notin DOMAIN objects
        /\ objects'[c] = x /\ \A o \in DOMAIN objects : objects'[o] = objects[o]
    BY <1>3 DEF MakesStream
  <2> HIDE DEF c, x
  <2>6. c \notin HeldBy(w, s)
    BY <1>1, <2>5
  <2>7. CASE Gives(e, w, s)
    <3>1. HeldBy(w, s)' = HeldBy(w, s) \cup {c}
      BY <1>1, <2>1, <2>4, <2>5, <2>7
    <3> QED
      BY <2>2, <2>6, <2>7, <3>1
  <2>8. CASE ~Gives(e, w, s)
    <3>1. HeldBy(w, s)' = HeldBy(w, s)
      BY <1>1, <2>1, <2>4, <2>5, <2>8
    <3> QED
      BY <2>2, <2>8, <3>1
  <2> QED
    BY <2>7, <2>8
<1>4. CASE Revokes(e)
  <2>1. PICK c, y :
          /\ c \in Owned(e.sender, "Capability")
          /\ e.target = objects[c].target /\ e.verbs = objects[c].verbs
          /\ Sets(c, y) /\ y.owner = Destroyed
    BY <1>4 DEF Revokes
  <2>2. c \in DOMAIN objects /\ objects[c].kind = "Capability" /\ objects[c].owner = e.sender
    BY <2>1 DEF Owned, Objects
  <2>3. ~Gives(e, w, s)
    BY <1>4 DEF Gives, Revokes
  <2>4. Takes(e, w, s) <=> c \in HeldBy(w, s)
    BY <1>1, <1>4, <2>1, <2>2 DEF Takes, Revokes, Holds
  <2>5. /\ DOMAIN objects' = DOMAIN objects /\ objects'[c] = y
        /\ \A q \in DOMAIN objects : q # c => objects'[q] = objects[q]
    BY <2>1 DEF Sets
  <2>6. ~Holds(y)
    BY <2>1, WalletsAssumption DEF Holds
  <2>7. HeldBy(w, s)' = HeldBy(w, s) \ {c}
    BY <1>1, <2>5, <2>6
  <2>8. c \notin HeldBy(w, s) => HeldBy(w, s)' = HeldBy(w, s)
    BY <2>7
  <2> QED
    BY <2>3, <2>4, <2>7, <2>8
<1>5. CASE AddsPlain(e)
  <2>1. PICK x : Adds(x) /\ x.kind \in {"Workspace", "AgentIdentity"}
    BY <1>5 DEF AddsPlain
  <2>2. ~Holds(x)
    BY <2>1 DEF Holds
  <2>3. HeldBy(w, s)' = HeldBy(w, s)
    BY <1>1, <2>1, <2>2 DEF Adds
  <2> QED
    BY <1>5, <2>3 DEF Gives, Takes, AddsPlain
<1>6. ASSUME NEW o, NEW y, Sets(o, y), objects[o].kind # "Capability"
      PROVE  HeldBy(w, s)' = HeldBy(w, s)
  <2>1. ~Holds(objects[o]) /\ ~Holds(y)
    BY <1>6 DEF Sets, KeptObject, Holds
  <2> QED
    BY <1>1, <1>6, <2>1 DEF Sets
<1>7. CASE SetsAgent(e)
  <2>1. HeldBy(w, s)' = HeldBy(w, s)
    BY <1>6, <1>7 DEF SetsAgent, Objects
  <2> QED
    BY <1>7, <2>1 DEF Gives, Takes, SetsAgent
<1>8. CASE Extends(e)
  <2>1. HeldBy(w, s)' = HeldBy(w, s)
    BY <1>6, <1>8 DEF Extends, Owned, Objects
  <2> QED
    BY <1>8, <2>1 DEF Gives, Takes, Extends, Appends
<1>9. CASE Deletes(e)
  <2>1. HeldBy(w, s)' = HeldBy(w, s)
    BY <1>6, <1>9 DEF Deletes, Owned, Objects
  <2> QED
    BY <1>9, <2>1 DEF Gives, Takes, Deletes
<1>10. CASE Anchors(e)
  BY <1>1, <1>10 DEF Gives, Takes, Anchors
<1> QED
  BY <1>2, <1>3, <1>4, <1>5, <1>7, <1>8, <1>9, <1>10 DEF Transaction

\* The count stays right.
LEMMA CountStays ==
  ASSUME ChainTypes, CapabilitiesCounted, NEW e, Transaction(e)
  PROVE  CapabilitiesCounted'
<1> SUFFICES ASSUME NEW w \in Wallets, NEW s
             PROVE  Cardinality(GivenTo(w, s)') =
                      Cardinality(RevokedBy(w, s)') + Cardinality(HeldBy(w, s)')
  BY DEF CapabilitiesCounted
<1> DEFINE G == GivenTo(w, s)
           R == RevokedBy(w, s)
           H == HeldBy(w, s)
<1>1. PICK n \in Nat : NewEvent(n, e)
  BY EventIsNew
<1>2. /\ Gives(e, w, s) => G' = G \cup {n}
      /\ ~Gives(e, w, s) => G' = G
      /\ Takes(e, w, s) => R' = R \cup {n}
      /\ ~Takes(e, w, s) => R' = R
      /\ n \notin G /\ n \notin R
      /\ IsFiniteSet(G) /\ IsFiniteSet(R)
  BY <1>1, GivenAndRevoked
<1>3. /\ Gives(e, w, s) => \E c : c \notin H /\ H' = H \cup {c}
      /\ Takes(e, w, s) => \E c \in H : H' = H \ {c}
      /\ ~Gives(e, w, s) /\ ~Takes(e, w, s) => H' = H
  BY HeldChanges
<1>4. IsFiniteSet(H)
  <2>1. DOMAIN objects = 1 .. Len(objects) /\ Len(objects) \in Nat
    BY Appended DEF ChainTypes, ObjectTypes
  <2>2. IsFiniteSet(DOMAIN objects)
    BY <2>1, FS_Interval
  <2>3. H \subseteq DOMAIN objects
    BY DEF HeldBy, Owned, Objects
  <2> QED
    BY <2>2, <2>3, FS_Subset
<1>5. Cardinality(G) = Cardinality(R) + Cardinality(H)
  BY DEF CapabilitiesCounted
<1>6. Cardinality(G) \in Nat /\ Cardinality(R) \in Nat /\ Cardinality(H) \in Nat
  BY <1>2, <1>4, FS_CardinalityType
<1>7. ~(Gives(e, w, s) /\ Takes(e, w, s))
  BY DEF Gives, Takes
<1> HIDE DEF G, R, H
<1>8. CASE Gives(e, w, s)
  <2>1. PICK c : c \notin H /\ H' = H \cup {c}
    BY <1>3, <1>8
  <2>2. Cardinality(H \cup {c}) = Cardinality(H) + 1 /\ Cardinality(G \cup {n}) = Cardinality(G) + 1
    BY <1>2, <1>4, <2>1, FS_AddElement
  <2>3. G' = G \cup {n} /\ R' = R
    BY <1>2, <1>7, <1>8
  <2>4. Cardinality(G') = Cardinality(R') + Cardinality(H')
    BY <1>5, <1>6, <2>1, <2>2, <2>3
  <2> QED
    BY <2>4 DEF G, R, H
<1>9. CASE Takes(e, w, s)
  <2>1. PICK c \in H : H' = H \ {c}
    BY <1>3, <1>9
  <2>2. Cardinality(H \ {c}) = Cardinality(H) - 1 /\ Cardinality(R \cup {n}) = Cardinality(R) + 1
    BY <1>2, <1>4, <2>1, FS_AddElement, FS_RemoveElement
  <2>3. R' = R \cup {n} /\ G' = G
    BY <1>2, <1>7, <1>9
  <2>4. Cardinality(G') = Cardinality(R') + Cardinality(H')
    BY <1>5, <1>6, <2>1, <2>2, <2>3
  <2> QED
    BY <2>4 DEF G, R, H
<1>10. CASE ~Gives(e, w, s) /\ ~Takes(e, w, s)
  BY <1>2, <1>3, <1>5, <1>10 DEF G, R, H
<1> QED
  BY <1>8, <1>9, <1>10

\* What SignedWithPermission says of one event.
GrantedBefore(i) ==
  {j \in 1 .. i - 1 :
     \/ Told(j, {"StreamCreated"}) /\ emitted[j].stream = emitted[i].stream
     \/ /\ Told(j, {"CapabilityDelegated", "no event"}) /\ emitted[j].target = emitted[i].stream
        /\ CAP_WRITE \in emitted[j].verbs /\ emitted[j].recipient = emitted[i].sender}

RevokedBefore(i) ==
  {j \in 1 .. i - 1 :
     /\ Told(j, {"CapabilityRevoked"}) /\ emitted[j].target = emitted[i].stream
     /\ CAP_WRITE \in emitted[j].verbs /\ emitted[j].sender = emitted[i].sender}

PermittedAt(i) ==
  /\ \E j \in 1 .. i - 1 : /\ Told(j, {"StreamCreated"}) /\ emitted[j].stream = emitted[i].stream
                           /\ emitted[j].sender = emitted[i].sender
  /\ Cardinality(GrantedBefore(i)) > Cardinality(RevokedBefore(i))

LEMMA SignaturesStay ==
  ASSUME ChainTypes, StreamsMade, CapabilitiesCounted, SignedWithPermission,
         NEW e, Transaction(e)
  PROVE  SignedWithPermission'
<1>1. PICK n \in Nat : NewEvent(n, e)
  BY EventIsNew
<1>2. /\ DOMAIN emitted = 1 .. n - 1 /\ DOMAIN emitted' = DOMAIN emitted \cup {n}
      /\ \A i \in DOMAIN emitted : emitted'[i] = emitted[i] /\ i \in Nat /\ i < n
      /\ emitted'[n] = e /\ n \in Nat /\ IsFiniteSet(DOMAIN emitted)
  BY <1>1 DEF NewEvent
<1>3. ASSUME NEW i \in DOMAIN emitted'
      PROVE  /\ GrantedBefore(i)' =
                  {j \in 1 .. i - 1 :
                     \/ emitted[j].type = "StreamCreated" /\ emitted[j].stream = emitted'[i].stream
                     \/ /\ emitted[j].type \in {"CapabilityDelegated", "no event"}
                        /\ emitted[j].target = emitted'[i].stream
                        /\ CAP_WRITE \in emitted[j].verbs
                        /\ emitted[j].recipient = emitted'[i].sender}
             /\ RevokedBefore(i)' =
                  {j \in 1 .. i - 1 :
                     /\ emitted[j].type = "CapabilityRevoked"
                     /\ emitted[j].target = emitted'[i].stream
                     /\ CAP_WRITE \in emitted[j].verbs /\ emitted[j].sender = emitted'[i].sender}
             /\ \A j \in 1 .. i - 1 : emitted'[j] = emitted[j]
  <2>1. 1 .. i - 1 \subseteq DOMAIN emitted
    BY <1>2
  <2> QED
    BY <1>2, <2>1 DEF GrantedBefore, RevokedBefore, Told
<1> SUFFICES ASSUME NEW i \in DOMAIN emitted', emitted'[i].type = "MemoryEventSigned"
             PROVE  PermittedAt(i)'
  BY DEF SignedWithPermission, PermittedAt, GrantedBefore, RevokedBefore, Told
<1>4. CASE i \in DOMAIN emitted
  <2>1. PermittedAt(i)
    BY <1>2, <1>4 DEF SignedWithPermission, PermittedAt, GrantedBefore, RevokedBefore, Told
  <2>2. GrantedBefore(i)' = GrantedBefore(i) /\ RevokedBefore(i)' = RevokedBefore(i)
    BY <1>2, <1>3, <1>4 DEF GrantedBefore, RevokedBefore, Told
  <2> QED
    BY <1>2, <1>3, <1>4, <2>1, <2>2 DEF PermittedAt, Told
<1>5. CASE i = n
  <2> DEFINE s == e.stream
             w == e.sender
  <2>1. Extends(e) /\ Signs(e) /\ w \in Wallets /\ e.type = "MemoryEventSigned"
    BY <1>2, <1>5 DEF Transaction, AddsPlain, SetsAgent, Mints, Revokes, MakesStream, Extends,
                      Deletes, Anchors
  <2>2. \E j \in 1 .. n - 1 :
          emitted[j].type = "StreamCreated" /\ emitted[j].stream = s /\ emitted[j].sender = w
    BY <1>2, <2>1 DEF Extends, Owned, StreamsMade, Told
  <2>3. PICK c : c \in HeldBy(w, s)
    BY <2>1 DEF Signs, HeldBy
  <2>4. GivenTo(w, s) \subseteq GrantedBefore(n)' /\ RevokedBy(w, s) = RevokedBefore(n)'
    <3>0. n \in DOMAIN emitted'
      BY <1>2
    <3>1. GrantedBefore(n)' =
            {j \in 1 .. n - 1 :
               \/ emitted[j].type = "StreamCreated" /\ emitted[j].stream = emitted'[n].stream
               \/ /\ emitted[j].type \in {"CapabilityDelegated", "no event"}
                  /\ emitted[j].target = emitted'[n].stream /\ CAP_WRITE \in emitted[j].verbs
                  /\ emitted[j].recipient = emitted'[n].sender}
      BY <1>3, <3>0, Zenon
    <3>2. RevokedBefore(n)' =
            {j \in 1 .. n - 1 :
               /\ emitted[j].type = "CapabilityRevoked" /\ emitted[j].target = emitted'[n].stream
               /\ CAP_WRITE \in emitted[j].verbs /\ emitted[j].sender = emitted'[n].sender}
      BY <1>3, <3>0, Zenon
    <3>3. RevokedBy(w, s) =
            {j \in 1 .. n - 1 :
               /\ emitted[j].type = "CapabilityRevoked" /\ emitted[j].target = s
               /\ CAP_WRITE \in emitted[j].verbs /\ emitted[j].sender = w}
      BY <1>2 DEF RevokedBy, Told
    <3>4. GivenTo(w, s) \subseteq GrantedBefore(n)'
      BY <1>2, <3>1 DEF GivenTo, Told
    <3> QED
      BY <1>2, <3>2, <3>3, <3>4
  <2>5. /\ IsFiniteSet(GivenTo(w, s)) /\ IsFiniteSet(RevokedBy(w, s))
        /\ IsFiniteSet(GrantedBefore(n)')
    <3>1. GrantedBefore(n)' \subseteq DOMAIN emitted
      BY <1>2, <1>3
    <3> QED
      BY <1>1, <1>2, <3>1, GivenAndRevoked, FS_Subset
  <2>6. Cardinality(HeldBy(w, s)) > 0 /\ Cardinality(HeldBy(w, s)) \in Nat
    <3>1. DOMAIN objects = 1 .. Len(objects) /\ Len(objects) \in Nat
      BY Appended DEF ChainTypes, ObjectTypes
    <3>2. IsFiniteSet(HeldBy(w, s))
      <4>1. IsFiniteSet(DOMAIN objects)
        BY <3>1, FS_Interval
      <4>2. HeldBy(w, s) \subseteq DOMAIN objects
        BY DEF HeldBy, Owned, Objects
      <4> QED
        BY <4>1, <4>2, FS_Subset
    <3> QED
      BY <2>3, <3>2, FS_CardinalityType, FS_EmptySet
  <2>7. Cardinality(GivenTo(w, s)) > Cardinality(RevokedBy(w, s))
    BY <2>1, <2>5, <2>6, FS_CardinalityType DEF CapabilitiesCounted
  <2>8. /\ Cardinality(GrantedBefore(n)') >= Cardinality(GivenTo(w, s))
        /\ Cardinality(GrantedBefore(n)') \in Nat /\ Cardinality(GivenTo(w, s)) \in Nat
        /\ Cardinality(RevokedBy(w, s)) \in Nat
    BY <2>4, <2>5, FS_Subset, FS_CardinalityType
  <2>9. Cardinality(GrantedBefore(n)') > Cardinality(RevokedBefore(n)')
    BY <2>4, <2>7, <2>8
  <2> QED
    BY <1>2, <1>3, <1>5, <2>2, <2>9 DEF PermittedAt, Told
<1> QED
  BY <1>2, <1>4, <1>5

\* So every transaction keeps what is true of the chain.
LEMMA ChainStepKeeps ==
  ASSUME ChainInv, ChainStep
  PROVE  ChainInv' /\ Grows
<1>1. PICK e : Transaction(e)
  BY Transactions DEF ChainInv
<1>2. IsSeq(emitted') /\ ObjectTypes' /\ Grows
  BY <1>1, LastEvent DEF ChainInv, ChainTypes, Transaction
<1>3. AnchorAgrees' /\ anchor'.count \in Nat
  BY <1>1, AnchorStaysAgreed DEF ChainInv, EpochsContiguous
<1>4. (\A s \in Objects("MemoryStream") : StreamAgrees(s))'
  BY <1>1, StreamsStayAgreed DEF ChainInv, EpochsContiguous
<1>5. EventsTrue' /\ StreamsMade' /\ CapabilitiesCounted' /\ NothingAfterEnd' /\ SignedWithPermission'
  BY <1>1, EventsStayTrue, StreamsStayMade, CountStays, EndsStay, SignaturesStay DEF ChainInv
<1> QED
  BY <1>2, <1>3, <1>4, <1>5 DEF ChainInv, ChainTypes, EpochsContiguous

\* What is true of the chain is a matter of the chain alone.
LEMMA ChainStands ==
  ASSUME ChainInv, UNCHANGED chainVars
  PROVE  ChainInv' /\ Grows
<1>1. objects' = objects /\ emitted' = emitted /\ anchor' = anchor
  BY DEF chainVars
<1>2. Grows
  BY <1>1 DEF Grows, KeptObject
<1>3. ChainTypes' /\ EventsTrue' /\ StreamsMade'
  BY <1>1 DEF ChainInv, ChainTypes, ObjectTypes, IsSeq, Shaped, EventsTrue, StreamsMade, Told, Objects
<1>4. CapabilitiesCounted'
  <2>1. \A w, s : /\ GivenTo(w, s)' = GivenTo(w, s) /\ RevokedBy(w, s)' = RevokedBy(w, s)
                  /\ HeldBy(w, s)' = HeldBy(w, s)
    BY <1>1 DEF GivenTo, RevokedBy, HeldBy, Owned, Objects, Told
  <2> QED
    BY <2>1 DEF ChainInv, CapabilitiesCounted
<1>5. EpochsContiguous'
  <2>1. ASSUME NEW s PROVE StreamAgrees(s)' = StreamAgrees(s)
    <3>1. AppendsTo(s)' = AppendsTo(s)
      BY <1>1 DEF AppendsTo, Told
    <3> QED
      BY <1>1, <3>1 DEF StreamAgrees, HashOf, LastOf
  <2>2. AnchorAgrees' = AnchorAgrees
    BY <1>1 DEF AnchorAgrees, Told, LastOf
  <2>3. Objects("MemoryStream")' = Objects("MemoryStream")
    BY <1>1 DEF Objects
  <2> QED
    BY <2>1, <2>2, <2>3 DEF ChainInv, EpochsContiguous
<1>6. NothingAfterEnd'
  BY <1>1 DEF ChainInv, NothingAfterEnd, Told
<1>7. SignedWithPermission'
  <2>1. ASSUME NEW i PROVE PermittedAt(i)' = PermittedAt(i)
    <3>1. GrantedBefore(i)' = GrantedBefore(i) /\ RevokedBefore(i)' = RevokedBefore(i)
      BY <1>1 DEF GrantedBefore, RevokedBefore, Told
    <3> QED
      BY <1>1, <3>1 DEF PermittedAt, Told
  <2>2. SignedWithPermission <=>
          \A i \in DOMAIN emitted : Told(i, {"MemoryEventSigned"}) => PermittedAt(i)
    BY DEF SignedWithPermission, PermittedAt, GrantedBefore, RevokedBefore
  <2>3. SignedWithPermission' <=>
          \A i \in DOMAIN emitted' : Told(i, {"MemoryEventSigned"})' => PermittedAt(i)'
    BY DEF SignedWithPermission, PermittedAt, GrantedBefore, RevokedBefore
  <2> QED
    BY <1>1, <2>1, <2>2, <2>3 DEF ChainInv, Told
<1> QED
  BY <1>2, <1>3, <1>4, <1>5, <1>6, <1>7 DEF ChainInv

\* A chain that nobody has used yet.
LEMMA EmptyChain ==
  ASSUME ChainInit PROVE ChainInv
<1>1. objects = <<>> /\ emitted = <<>> /\ anchor.count = 0 /\ anchor.latest = Genesis
  BY DEF ChainInit
<1>2. DOMAIN objects = {} /\ DOMAIN emitted = {} /\ IsSeq(objects) /\ IsSeq(emitted)
  BY <1>1 DEF IsSeq
<1>3. CapabilitiesCounted
  <2>1. \A w, s : GivenTo(w, s) = {} /\ RevokedBy(w, s) = {} /\ HeldBy(w, s) = {}
    BY <1>2 DEF GivenTo, RevokedBy, HeldBy, Owned, Objects
  <2> QED
    BY <2>1, FS_EmptySet DEF CapabilitiesCounted
<1>4. EpochsContiguous
  BY <1>1, <1>2, FS_EmptySet DEF EpochsContiguous, AnchorAgrees, Objects
<1> QED
  BY <1>1, <1>2, <1>3, <1>4 DEF ChainInv, ChainTypes, ObjectTypes, EventsTrue, StreamsMade, Objects,
     NothingAfterEnd, SignedWithPermission

\* A chain with the wallet's workspace, agent and stream.
LEMMA PreparedChain ==
  ASSUME Prepared PROVE ChainInv
<1>1. PICK n \in Names :
        objects = <<Workspace(Wallet, n), AgentIdentity(Wallet, 1, n),
                    MemoryStream(Wallet, 2), Capability(Wallet, 3, CAP_ALL, 0)>>
  BY DEF Prepared
<1>2. /\ DOMAIN objects = {1, 2, 3, 4}
      /\ objects[1] = Workspace(Wallet, n) /\ objects[2] = AgentIdentity(Wallet, 1, n)
      /\ objects[3] = MemoryStream(Wallet, 2) /\ objects[4] = Capability(Wallet, 3, CAP_ALL, 0)
  BY <1>1
<1>3. /\ DOMAIN emitted = {1, 2, 3}
      /\ emitted[1].type = "WorkspaceCreated" /\ emitted[2].type = "AgentRegistered"
      /\ emitted[3].type = "StreamCreated" /\ emitted[3].sender = Wallet /\ emitted[3].stream = 3
  BY DEF Prepared
<1>4. anchor.count = 0 /\ anchor.latest = Genesis
  BY DEF Prepared
<1>5. IsSeq(objects) /\ IsSeq(emitted)
  BY <1>1 DEF IsSeq, Prepared
<1>6. /\ Shaped(objects[1]) /\ objects[1].kind = "Workspace"
      /\ Shaped(objects[2]) /\ objects[2].kind = "AgentIdentity"
      /\ Shaped(objects[3]) /\ objects[3].kind = "MemoryStream" /\ objects[3].owner = Wallet
      /\ objects[3].count = 0 /\ objects[3].head = Genesis
      /\ Shaped(objects[4]) /\ objects[4].kind = "Capability" /\ objects[4].owner = Wallet
      /\ objects[4].target = 3 /\ objects[4].verbs = CAP_ALL
  BY <1>2 DEF Shaped, Workspace, AgentIdentity, MemoryStream, Capability
<1>7. ChainTypes
  BY <1>2, <1>4, <1>5, <1>6 DEF ChainTypes, ObjectTypes
<1>8. Objects("MemoryStream") = {3} /\ Objects("Capability") = {4}
  BY <1>2, <1>6 DEF Objects
<1>9. EventsTrue /\ StreamsMade
  BY <1>3, <1>6, <1>8 DEF EventsTrue, StreamsMade, Told, Appends
<1>10. CapabilitiesCounted
  <2> SUFFICES ASSUME NEW w \in Wallets, NEW s
               PROVE  Cardinality(GivenTo(w, s)) =
                        Cardinality(RevokedBy(w, s)) + Cardinality(HeldBy(w, s))
    BY DEF CapabilitiesCounted
  <2>1. RevokedBy(w, s) = {}
    BY <1>3 DEF RevokedBy, Told
  <2>2. CASE w = Wallet /\ s = 3
    <3>1. GivenTo(w, s) = {3}
      BY <1>3, <2>2 DEF GivenTo, Told
    <3>2. HeldBy(w, s) = {4}
      BY <1>6, <1>8, <2>2 DEF HeldBy, Owned, CAP_ALL, CAP_WRITE
    <3>3. Cardinality({3}) = 1 /\ Cardinality({4}) = 1 /\ Cardinality({}) = 0
      BY FS_Singleton, FS_EmptySet
    <3> QED
      BY <2>1, <3>1, <3>2, <3>3
  <2>3. CASE ~(w = Wallet /\ s = 3)
    <3>1. GivenTo(w, s) = {}
      BY <1>3, <2>3 DEF GivenTo, Told
    <3>2. HeldBy(w, s) = {}
      BY <1>6, <1>8, <2>3 DEF HeldBy, Owned
    <3> QED
      BY <2>1, <3>1, <3>2, FS_EmptySet
  <2> QED
    BY <2>2, <2>3
<1>11. EpochsContiguous
  <2>1. AppendsTo(3) = {}
    BY <1>3 DEF AppendsTo, Told, Appends
  <2>2. StreamAgrees(3)
    BY <1>6, <2>1, FS_EmptySet DEF StreamAgrees
  <2>3. {i \in DOMAIN emitted : Told(i, {"ProtocolEventAnchored"})} = {}
    BY <1>3 DEF Told
  <2>4. AnchorAgrees
    BY <1>4, <2>3, FS_EmptySet DEF AnchorAgrees
  <2> QED
    BY <1>8, <2>2, <2>4 DEF EpochsContiguous
<1>12. NothingAfterEnd /\ SignedWithPermission
  BY <1>3 DEF NothingAfterEnd, SignedWithPermission, Told, Appends
<1> QED
  BY <1>7, <1>9, <1>10, <1>11, <1>12 DEF ChainInv

\* Every step of the system is a transaction, or leaves the chain as it is.
LEMMA StepsOfTheChain ==
  ASSUME [Next]_vars
  PROVE  ChainStep \/ UNCHANGED chainVars
<1>1. Wallet \in Wallets
  BY WalletAssumption
<1>2. ASSUME NEW op, NEW row, Execute(op, row) PROVE ChainStep
  BY <1>1, <1>2 DEF ChainStep, Execute, SendWorkspace, SendAgent, SendGrant, SendEvent
<1>3. CASE \E p \in Processes : Step(p)
  <2> SUFFICES ASSUME NEW p \in Processes, Step(p) PROVE ChainStep \/ UNCHANGED chainVars
    BY <1>3
  <2>1. CASE Send(p)
    BY <1>2, <2>1 DEF Send
  <2> QED
    BY <2>1 DEF Step, Get, InsertNamed, Grant, InsertGrant, Publish, UploadAgain, Upload,
                InsertEvent, Read, Download, Answer, TakeAnswer, Timeout, Fail
<1>4. CASE Land
  BY <1>2, <1>4 DEF Land
<1>5. CASE Expire
  BY <1>5 DEF Expire
<1>6. CASE \E k \in Clients :
             \/ CommitRow(k) \/ CommitLocalRow(k) \/ SendStream(k) \/ SaveMapping(k)
             \/ SaveCapability(k) \/ FailStream(k) \/ DeleteStreamRow(k)
  <2>1. ASSUME NEW k \in Clients, SendStream(k) PROVE ChainStep
    BY <1>1, <2>1 DEF SendStream, ChainStep
  <2> QED
    BY <1>6, <2>1 DEF CommitRow, CommitLocalRow, SaveMapping, SaveCapability, FailStream,
                      DeleteStreamRow
<1>7. CASE AdapterCall
  BY <1>1, <1>7 DEF AdapterCall, NewWorkspace, NewAgent, NewStatus, NewCounters, Delegate, Revoke,
                    AnchorMemory, ChainStep
<1>8. CASE Others
  BY <1>8 DEF Others, WalletCall, IdentityCall, MemoryCall, ProtocolCall, ChainStep
<1>9. CASE UNCHANGED vars
  BY <1>9 DEF vars
<1> QED
  BY <1>3, <1>4, <1>5, <1>6, <1>7, <1>8, <1>9 DEF Next, ObjectsNext

\* What the transactions of a chain say of it is so, whatever any wallet does:
\* streams are numbered and linked, nothing follows an end, nobody signs for a
\* stream without a permission.
THEOREM ChainStaysSound == Spec => []ChainSound
<1>1. Init => ChainInv
  BY EmptyChain, PreparedChain DEF Init, ObjectsInit
<1>2. ChainInv /\ [Next]_vars => ChainInv'
  BY StepsOfTheChain, ChainStepKeeps, ChainStands
<1>3. ChainInv => ChainSound
  BY DEF ChainInv, ChainSound
<1> QED
  BY <1>1, <1>2, <1>3, PTL DEF Spec

-----------------------------------------------------------------------------
(***************************************************************************)
(* What the rows of the two files rest on                                  *)
(***************************************************************************)

\* The rows of a call in progress and of its table have the same fields.
NamedRow(r) == r = [kind |-> r.kind, name |-> r.name, of |-> r.of, id |-> r.id]
GrantRow(r) == r = [stream |-> r.stream, agent |-> r.agent, verbs |-> r.verbs, id |-> r.id]
PublishRow(r) == r = [id |-> r.id, stream |-> r.stream, agent |-> r.agent, workspace |-> r.workspace]

\* What NamedBacked, GrantsBacked and EventsBacked say of one row.
BackedName(r) ==
  r.kind # "stream" =>
    /\ r.id \in Owned(Wallet, IF r.kind = "workspace" THEN "Workspace" ELSE "AgentIdentity")
    /\ objects[r.id].name = r.name
    /\ r.kind = "agent" => objects[r.id].workspace = r.of

BackedGrant(r) ==
  /\ r.id \in Objects("Capability")
  /\ objects[r.id].target = r.stream /\ objects[r.id].verbs = r.verbs

BackedEvent(r) ==
  \E i \in Anchored :
    /\ emitted[i].id = r.id /\ emitted[i].blob = r.id
    /\ emitted[i].agent = r.agent /\ emitted[i].workspace = r.workspace

\* A call that is about to insert a row has seen its transaction land.
CallSound(c) ==
  \/ c = Idle
  \/ /\ c.op \in NamedOps /\ c = [op |-> c.op, stage |-> c.stage, row |-> c.row]
     /\ NamedRow(c.row) /\ c.row.kind = c.op
     /\ c.stage = "insert" => BackedName(c.row)
  \/ /\ c.op = "grant" /\ c = [op |-> "grant", stage |-> c.stage, row |-> c.row]
     /\ GrantRow(c.row)
     /\ c.stage = "insert" => BackedGrant(c.row)
  \/ /\ c.op = "publish"
     /\ c = [op |-> "publish", stage |-> c.stage, attempt |-> c.attempt, row |-> c.row]
     /\ PublishRow(c.row)
     /\ c.stage = "insert" => BackedEvent(c.row)
  \/ /\ c.op = "read"
     /\ c = [op |-> "read", stage |-> c.stage, stream |-> c.stream, before |-> c.before,
             rows |-> c.rows, got |-> c.got]

CallsSound ==
  DOMAIN call = Processes /\ \A p \in Processes : \A c \in {call[p]} : CallSound(c)

TablesSound ==
  /\ handles \subseteq named
  /\ \A g, h \in named : g.kind = h.kind /\ g.name = h.name /\ g.of = h.of => g = h
  /\ NamedBacked /\ GrantsBacked /\ EventsBacked
  /\ IsSeq(capabilities)

\* The rows of publishes: inserted, on their way, or given up.
Publishing(p) == call[p].op = "publish"
PublishRows ==
  events \cup {call[p].row : p \in {q \in Processes : Publishing(q)}}
         \cup {t.row : t \in {u \in late : u.op = "publish"}}

\* Ids are given once; an event that an SDK anchored is of the one with its id.
IdsSound ==
  /\ ticks \in Nat
  /\ \A r \in PublishRows : r.id \in 1 .. ticks
  /\ \A r, q \in PublishRows : r.id = q.id => r = q
  /\ \A p, q \in Processes :
       Publishing(p) /\ Publishing(q) /\ p # q => call[p].row.id # call[q].row.id
  /\ returned \subseteq 1 .. ticks
  /\ \A p \in Processes : Publishing(p) => call[p].row.id \notin returned
  /\ \A i \in Anchored : emitted[i].agent # Nobody =>
       /\ emitted[i].blob \in 1 .. ticks
       /\ \A r \in PublishRows : r.id = emitted[i].blob => r.workspace = emitted[i].workspace

\* A read has, or still has to fetch, all that was returned before it began.
ReadSound(c) ==
  /\ c.rows \subseteq events /\ c.before \subseteq returned
  /\ IsSeq(c.got) /\ \A i \in DOMAIN c.got : c.got[i] \in events
  /\ \A i, j \in DOMAIN c.got : i < j => c.got[i].id < c.got[j].id
  /\ \A i \in DOMAIN c.got, r \in c.rows : c.got[i].id < r.id
  /\ \A e \in events : e.stream = c.stream /\ e.id \in c.before =>
       e \in c.rows \/ \E i \in DOMAIN c.got : c.got[i] = e
  /\ c.stage = "answered" => c.rows = {}

ReadsSound == \A p \in Processes : \A c \in {call[p]} : c.op = "read" => ReadSound(c)

\* A creator of a stream has the object and capability its transaction made,
\* which nobody else has.
CreatorSound(c) ==
  \/ c = NoStream
  \/ /\ c.stage = "send" /\ c = [stage |-> "send", stream |-> c.stream]
     /\ c.stream \in Stream \ streams.deleted
  \/ /\ c.stage \in {"map", "cap"}
     /\ c = [stage |-> c.stage, stream |-> c.stream, object |-> c.object, cap |-> c.cap]
     /\ c.stream \in Stream \ streams.deleted
     /\ c.object \in Owned(Wallet, "MemoryStream")
     /\ c.cap \in Objects("Capability") /\ objects[c.cap].target = c.object
     /\ objects[c.cap].verbs = CAP_ALL /\ objects[c.cap].until = 0
     /\ objects[c.cap].owner \in {Wallet, Destroyed}
     /\ c.stage = "map" => \A s \in DOMAIN mapping : mapping[s] # c.object
     /\ c.stage = "cap" => c.stream \in DOMAIN mapping /\ mapping[c.stream] = c.object

CreatorsSound == DOMAIN client = Clients /\ \A k \in Clients : \A c \in {client[k]} : CreatorSound(c)

\* Two of them make two streams, with an object each.
CreatorsApart ==
  \A k, l \in Clients : k # l =>
    /\ ~At(k, "idle") /\ ~At(l, "idle") => client[k].stream # client[l].stream
    /\ client[k].stage \in {"map", "cap"} /\ client[l].stage \in {"map", "cap"} =>
         client[k].object # client[l].object

NotYetMapped ==
  \A k \in Clients : client[k].stage \in {"send", "map"} => client[k].stream \notin DOMAIN mapping

\* What MayWrite looks for.
Granted(s) == \E c \in caps : c.target = mapping[s] /\ CAP_WRITE \in c.verbs /\ c.until = 0

LockedByTear ==
  \A s \in DOMAIN mapping : ~Granted(s) =>
    s \in torn \/ \E k \in Clients : At(k, "cap") /\ client[k].stream = s

StreamCounts ==
  /\ streams.made \in Nat /\ streams.deleted \subseteq Stream
  /\ streams = [made |-> streams.made, deleted |-> streams.deleted]

ObjectRowsSound ==
  /\ StreamCounts /\ OwnObject /\ CapabilityRowsTrue
  /\ CreatorsSound /\ CreatorsApart /\ NotYetMapped /\ LockedByTear

\* The events there are stay what they are.
EventsKept == \A i \in DOMAIN emitted : i \in DOMAIN emitted' /\ emitted'[i] = emitted[i]

\* Whatever the step, the chain stays true and only grows.
LEMMA ChainKept ==
  ASSUME ChainInv, [Next]_vars
  PROVE  ChainInv' /\ Grows /\ EventsKept
<1>1. CASE ChainStep
  <2>1. PICK e : Transaction(e)
    BY <1>1, Transactions DEF ChainInv
  <2>2. EventsKept
    BY <2>1, LastEvent DEF ChainInv, ChainTypes, Transaction, EventsKept
  <2> QED
    BY <1>1, <2>2, ChainStepKeeps
<1>2. CASE UNCHANGED chainVars
  BY <1>2, ChainStands DEF EventsKept, chainVars
<1> QED
  BY <1>1, <1>2, StepsOfTheChain

\* So what a row tells of stays so.
LEMMA BackedStays ==
  ASSUME Grows, EventsKept
  PROVE  /\ \A r : BackedName(r) => BackedName(r)'
         /\ \A r : BackedGrant(r) => BackedGrant(r)'
         /\ \A r : BackedEvent(r) => BackedEvent(r)'
         /\ \A c : CallSound(c) => CallSound(c)'
<1>1. \A r : BackedName(r) => BackedName(r)'
  BY DEF BackedName, Owned, Objects, Grows, KeptObject
<1>2. \A r : BackedGrant(r) => BackedGrant(r)'
  BY DEF BackedGrant, Objects, Grows, KeptObject
<1>3. \A r : BackedEvent(r) => BackedEvent(r)'
  BY DEF BackedEvent, Anchored, Told, EventsKept
<1>4. \A c : CallSound(c) => CallSound(c)'
  BY <1>1, <1>2, <1>3, Zenon DEF CallSound
<1> QED
  BY <1>1, <1>2, <1>3, <1>4

\* The calls are sound: one of them changes at a time.
LEMMA CallsStay ==
  ASSUME CallsSound, Grows, EventsKept, NEW p \in Processes, NEW c, CallSound(c)',
         call' = [call EXCEPT ![p] = c]
  PROVE  CallsSound'
<1>1. DOMAIN call' = Processes /\ call'[p] = c /\ \A q \in Processes : q # p => call'[q] = call[q]
  BY DEF CallsSound
<1>2. ASSUME NEW q \in Processes, NEW d \in {call'[q]} PROVE CallSound(d)'
  <2>1. CASE q = p
    BY <1>1, <1>2, <2>1
  <2>2. CASE q # p
    BY <1>1, <1>2, <2>2, BackedStays DEF CallsSound
  <2> QED
    BY <2>1, <2>2
<1> QED
  BY <1>1, <1>2 DEF CallsSound

\* The tables, when nothing is inserted.
LEMMA TablesStand ==
  ASSUME TablesSound, Grows, EventsKept, UNCHANGED dbVars, handles' \subseteq named
  PROVE  TablesSound'
<1>1. named' = named /\ capabilities' = capabilities /\ events' = events
  BY DEF dbVars
<1>2. NamedBacked'
  BY <1>1, BackedStays DEF TablesSound, NamedBacked, BackedName
<1>3. GrantsBacked'
  BY <1>1, BackedStays DEF TablesSound, GrantsBacked, BackedGrant
<1>4. EventsBacked'
  BY <1>1, BackedStays DEF TablesSound, EventsBacked, BackedEvent
<1> QED
  BY <1>1, <1>2, <1>3, <1>4 DEF TablesSound, IsSeq

\* What a call that begins, goes on or ends leaves of the invariant.
LEMMA IdleSound == CallSound(Idle) /\ CallSound(Idle)'
BY Zenon DEF CallSound

LEMMA CallsStand ==
  ASSUME CallsSound, Grows, EventsKept, UNCHANGED call
  PROVE  CallsSound'
BY BackedStays DEF CallsSound

\* Get or create begins.
LEMMA GetKeeps ==
  ASSUME TablesSound, CallsSound, Grows, EventsKept, NEW p \in Processes, Get(p)
  PROVE  (TablesSound /\ CallsSound)'
<1>1. ASSUME NEW kind, NEW name, NEW of, Load(p, kind, name, of)
      PROVE  UNCHANGED dbVars /\ handles' \subseteq named /\ CallsSound'
  <2>1. /\ UNCHANGED dbVars /\ handles' = handles \cup Named(kind, name, of)
        /\ call' = [call EXCEPT ![p] = Idle]
    BY <1>1 DEF Load, Begins
  <2> QED
    BY <2>1, CallsStay, IdleSound DEF Named, TablesSound
<1>2. ASSUME NEW kind \in NamedOps, NEW name, NEW of, Create(p, kind, name, of)
      PROVE  UNCHANGED dbVars /\ handles' \subseteq named /\ CallsSound'
  <2>1. PICK i : i = -(ticks + 1)
    OBVIOUS
  <2> DEFINE row == [kind |-> kind, name |-> name, of |-> of, id |-> NoId]
             made == [kind |-> kind, name |-> name, of |-> of, id |-> i]
             c == IF kind = "stream" THEN [op |-> kind, stage |-> "insert", row |-> made]
                                     ELSE [op |-> kind, stage |-> "send", row |-> row]
  <2>2. [row EXCEPT !.id = i] = made
    OBVIOUS
  <2>3. UNCHANGED dbVars /\ UNCHANGED handles /\ call' = [call EXCEPT ![p] = c]
    <3>1. CASE kind = "stream"
      BY <1>2, <2>1, <2>2, <3>1, Zenon DEF Create, Begins
    <3>2. CASE kind # "stream"
      BY <1>2, <3>2, Zenon DEF Create, Begins
    <3> QED
      BY <3>1, <3>2
  <2>4. CallSound(c)'
    <3>1. CASE kind = "stream"
      <4>1. c = [op |-> kind, stage |-> "insert", row |-> made] /\ c.row = made
        BY <3>1
      <4>2. BackedName(made)'
        BY <3>1 DEF BackedName
      <4> QED
        BY <3>1, <4>1, <4>2 DEF CallSound, NamedRow, NamedOps
    <3>2. CASE kind # "stream"
      BY <3>2 DEF CallSound, NamedRow, NamedOps
    <3> QED
      BY <3>1, <3>2
  <2> HIDE DEF c
  <2> QED
    BY <2>3, <2>4, CallsStay DEF TablesSound
<1>3. UNCHANGED dbVars /\ handles' \subseteq named /\ CallsSound'
  <2>1. "workspace" \in NamedOps /\ "agent" \in NamedOps /\ "stream" \in NamedOps
    BY DEF NamedOps
  <2> QED
    BY <1>1, <1>2, <2>1, Zenon DEF Get
<1> QED
  BY <1>3, TablesStand

\* The row of a workspace, agent or stream is inserted.
LEMMA InsertNamedKeeps ==
  ASSUME TablesSound, CallsSound, Grows, EventsKept, NEW p \in Processes, InsertNamed(p)
  PROVE  (TablesSound /\ CallsSound)'
<1> DEFINE r == call[p].row
<1>1. /\ call[p].op \in NamedOps /\ call[p].stage = "insert" /\ ~Taken(r)
      /\ named' = named \cup {r} /\ handles' = handles \cup {r}
      /\ call' = [call EXCEPT ![p] = Idle] /\ UNCHANGED <<capabilities, events>>
  BY DEF InsertNamed, InCall, Ends
<1>2. BackedName(r)
  BY <1>1 DEF CallsSound, CallSound, Idle, NamedOps
<1>3. PICK q : q = r /\ BackedName(q)'
  BY <1>2, BackedStays
<1>4. NamedBacked'
  BY <1>1, <1>3, BackedStays DEF TablesSound, NamedBacked, BackedName
<1>5. GrantsBacked' /\ EventsBacked' /\ IsSeq(capabilities')
  BY <1>1, BackedStays DEF TablesSound, GrantsBacked, BackedGrant, EventsBacked, BackedEvent, IsSeq
<1>6. \A g, h \in named' : g.kind = h.kind /\ g.name = h.name /\ g.of = h.of => g = h
  BY <1>1 DEF TablesSound, Taken, Named
<1>7. handles' \subseteq named'
  BY <1>1 DEF TablesSound
<1>8. CallsSound'
  BY <1>1, CallsStay, IdleSound
<1> QED
  BY <1>4, <1>5, <1>6, <1>7, <1>8 DEF TablesSound, IsSeq

\* The row of a grant is inserted.
LEMMA InsertGrantKeeps ==
  ASSUME TablesSound, CallsSound, Grows, EventsKept, NEW p \in Processes, InsertGrant(p)
  PROVE  (TablesSound /\ CallsSound)'
<1> DEFINE r == call[p].row
<1>1. /\ call[p].op = "grant" /\ call[p].stage = "insert"
      /\ capabilities' = Append(capabilities, r)
      /\ call' = [call EXCEPT ![p] = Idle] /\ UNCHANGED <<named, handles, events>>
  BY DEF InsertGrant, InCall, Ends
<1>2. BackedGrant(r)
  BY <1>1 DEF CallsSound, CallSound, Idle, NamedOps
<1>3. PICK q : q = r /\ BackedGrant(q)'
  BY <1>2, BackedStays
<1>4. NamedBacked' /\ EventsBacked' /\ handles' \subseteq named'
  BY <1>1, BackedStays DEF TablesSound, NamedBacked, BackedName, EventsBacked, BackedEvent
<1>5. /\ IsSeq(capabilities')
      /\ DOMAIN capabilities' = DOMAIN capabilities \cup {Len(capabilities) + 1}
      /\ \A i \in DOMAIN capabilities : capabilities'[i] = capabilities[i]
      /\ capabilities'[Len(capabilities) + 1] = q
  BY <1>1, <1>3, Appended DEF TablesSound
<1>6. \A i \in DOMAIN capabilities' : \A d \in {capabilities'[i]} : BackedGrant(d)'
  BY <1>3, <1>5, BackedStays DEF TablesSound, GrantsBacked, BackedGrant
<1>7. GrantsBacked'
  BY <1>6 DEF GrantsBacked, BackedGrant
<1>8. CallsSound'
  BY <1>1, CallsStay, IdleSound
<1>9. \A g, h \in named' : g.kind = h.kind /\ g.name = h.name /\ g.of = h.of => g = h
  BY <1>1 DEF TablesSound
<1> QED
  BY <1>4, <1>5, <1>7, <1>8, <1>9 DEF TablesSound, IsSeq

\* The row of a publish is inserted.
LEMMA InsertEventKeeps ==
  ASSUME TablesSound, CallsSound, Grows, EventsKept, NEW p \in Processes, InsertEvent(p)
  PROVE  (TablesSound /\ CallsSound)'
<1> DEFINE r == call[p].row
<1>1. /\ call[p].op = "publish" /\ call[p].stage = "insert"
      /\ events' = events \cup {r}
      /\ call' = [call EXCEPT ![p] = Idle] /\ UNCHANGED <<named, handles, capabilities>>
  BY DEF InsertEvent, InCall, Ends
<1>2. BackedEvent(r)
  BY <1>1 DEF CallsSound, CallSound, Idle, NamedOps
<1>3. PICK q : q = r /\ BackedEvent(q)'
  BY <1>2, BackedStays
<1>4. NamedBacked' /\ GrantsBacked' /\ handles' \subseteq named' /\ IsSeq(capabilities')
  BY <1>1, BackedStays DEF TablesSound, NamedBacked, BackedName, GrantsBacked, BackedGrant, IsSeq
<1>5. EventsBacked'
  BY <1>1, <1>3, BackedStays DEF TablesSound, EventsBacked, BackedEvent
<1>6. CallsSound'
  BY <1>1, CallsStay, IdleSound
<1>7. \A g, h \in named' : g.kind = h.kind /\ g.name = h.name /\ g.of = h.of => g = h
  BY <1>1 DEF TablesSound
<1> QED
  BY <1>4, <1>5, <1>6, <1>7 DEF TablesSound, IsSeq

\* A call begins, and is not yet at its row.
LEMMA BeginKeeps ==
  ASSUME TablesSound, CallsSound, Grows, EventsKept, NEW p \in Processes,
         Grant(p) \/ Publish(p) \/ Read(p)
  PROVE  (TablesSound /\ CallsSound)'
<1>1. UNCHANGED dbVars /\ UNCHANGED handles
  BY DEF Grant, Publish, Read
<1>2. CASE Grant(p)
  <2>1. PICK a, s \in handles, g \in Grants :
          Begins(p, [op |-> "grant", stage |-> "send",
                     row |-> [stream |-> s.id, agent |-> a.id, verbs |-> g, id |-> NoId]])
    BY <1>2 DEF Grant
  <2> DEFINE c == [op |-> "grant", stage |-> "send",
                   row |-> [stream |-> s.id, agent |-> a.id, verbs |-> g, id |-> NoId]]
  <2>2. CallSound(c)'
    BY DEF CallSound, GrantRow
  <2>3. call' = [call EXCEPT ![p] = c]
    BY <2>1 DEF Begins
  <2> HIDE DEF c
  <2> QED
    BY <1>1, <2>2, <2>3, CallsStay, TablesStand DEF TablesSound
<1>3. CASE Publish(p)
  <2>0. PICK i : i = ticks + 1
    OBVIOUS
  <2>1. PICK a, s \in handles :
          Begins(p, [op |-> "publish", stage |-> "upload", attempt |-> 0,
                        row |-> [id |-> i, stream |-> s.id, agent |-> a.id, workspace |-> a.of]])
    BY <1>3, <2>0 DEF Publish
  <2> DEFINE c == [op |-> "publish", stage |-> "upload", attempt |-> 0,
                   row |-> [id |-> i, stream |-> s.id, agent |-> a.id, workspace |-> a.of]]
  <2>2. CallSound(c)'
    BY DEF CallSound, PublishRow
  <2>3. call' = [call EXCEPT ![p] = c]
    BY <2>1 DEF Begins
  <2> HIDE DEF c
  <2> QED
    BY <1>1, <2>2, <2>3, CallsStay, TablesStand DEF TablesSound
<1>4. CASE Read(p)
  <2>1. PICK s, before, rows :
          Begins(p, [op |-> "read", stage |-> "download", stream |-> s.id, before |-> before,
                     rows |-> rows, got |-> <<>>])
    BY <1>4 DEF Read
  <2> DEFINE c == [op |-> "read", stage |-> "download", stream |-> s.id, before |-> before,
                   rows |-> rows, got |-> <<>>]
  <2>2. CallSound(c)'
    BY DEF CallSound
  <2>3. call' = [call EXCEPT ![p] = c]
    BY <2>1 DEF Begins
  <2> HIDE DEF c
  <2> QED
    BY <1>1, <2>2, <2>3, CallsStay, TablesStand DEF TablesSound
<1> QED
  BY <1>2, <1>3, <1>4

\* A call goes on, away from the tables and the chain.
LEMMA GoOnKeeps ==
  ASSUME TablesSound, CallsSound, Grows, EventsKept, NEW p \in Processes,
         UploadAgain(p) \/ Upload(p) \/ Download(p) \/ Answer(p)
  PROVE  (TablesSound /\ CallsSound)'
<1>1. UNCHANGED dbVars /\ UNCHANGED handles
  BY DEF UploadAgain, Upload, Download, Answer
<1>2. PICK c : c = call[p] /\ CallSound(c)
  BY DEF CallsSound
<1>3. \E d : CallSound(d)' /\ call' = [call EXCEPT ![p] = d]
  <2>1. CASE UploadAgain(p) \/ Upload(p)
    <3>1. /\ c.op = "publish" /\ c.stage = "upload" /\ PublishRow(c.row)
          /\ c = [op |-> "publish", stage |-> c.stage, attempt |-> c.attempt, row |-> c.row]
      BY <1>2, <2>1 DEF UploadAgain, Upload, InCall, CallSound, Idle, NamedOps
    <3>2. CASE UploadAgain(p)
      <4> DEFINE n == c.attempt + 1
                 d == [c EXCEPT !.attempt = n]
      <4>1. d = [op |-> "publish", stage |-> "upload", attempt |-> n, row |-> c.row]
        BY <3>1
      <4>2. call' = [call EXCEPT ![p] = d]
        BY <1>2, <3>2 DEF UploadAgain
      <4> HIDE DEF d, n
      <4> QED
        BY <3>1, <4>1, <4>2 DEF CallSound, PublishRow
    <3>3. CASE Upload(p)
      <4> DEFINE d == [c EXCEPT !.stage = "send"]
      <4>1. d = [op |-> "publish", stage |-> "send", attempt |-> c.attempt, row |-> c.row]
        BY <3>1
      <4>2. call' = [call EXCEPT ![p] = d]
        BY <1>2, <3>3 DEF Upload
      <4> HIDE DEF d
      <4> QED
        BY <3>1, <4>1, <4>2 DEF CallSound, PublishRow
    <3> QED
      BY <2>1, <3>2, <3>3
  <2>2. CASE Download(p) \/ Answer(p)
    <3>1. /\ c.op = "read"
          /\ c = [op |-> "read", stage |-> c.stage, stream |-> c.stream, before |-> c.before,
                  rows |-> c.rows, got |-> c.got]
      BY <1>2, <2>2 DEF Download, Answer, InCall, CallSound, Idle, NamedOps
    <3>2. CASE Download(p)
      <4>1. PICK r \in Oldest(c.rows) :
              call' = [call EXCEPT ![p].rows = @ \ {r}, ![p].got = Append(@, r)]
        BY <1>2, <3>2 DEF Download
      <4> DEFINE left0 == c.rows \ {r}
                 more == Append(c.got, r)
                 u == [c EXCEPT !.rows = left0]
                 d == [u EXCEPT !.got = more]
      <4>2. call' = [call EXCEPT ![p] = d]
        BY <1>2, <4>1
      <4> HIDE DEF left0, more
      <4>3. u = [op |-> "read", stage |-> c.stage, stream |-> c.stream, before |-> c.before,
                 rows |-> left0, got |-> c.got]
        BY <3>1
      <4> HIDE DEF u
      <4>4. d = [op |-> "read", stage |-> c.stage, stream |-> c.stream, before |-> c.before,
                 rows |-> left0, got |-> more]
        BY <4>3
      <4> HIDE DEF d
      <4> QED
        BY <4>2, <4>4 DEF CallSound
    <3>3. CASE Answer(p)
      <4> DEFINE d == [c EXCEPT !.stage = "answered"]
      <4>1. d = [op |-> "read", stage |-> "answered", stream |-> c.stream, before |-> c.before,
                 rows |-> c.rows, got |-> c.got]
        BY <3>1
      <4>2. call' = [call EXCEPT ![p] = d]
        BY <1>2, <3>3 DEF Answer
      <4> HIDE DEF d
      <4> QED
        BY <4>1, <4>2 DEF CallSound
    <3> QED
      BY <2>2, <3>2, <3>3
  <2> QED
    BY <2>1, <2>2
<1> QED
  BY <1>1, <1>3, CallsStay, TablesStand DEF TablesSound

\* A call ends without a row.
LEMMA EndKeeps ==
  ASSUME TablesSound, CallsSound, Grows, EventsKept, NEW p \in Processes,
         TakeAnswer(p) \/ Timeout(p) \/ Fail(p)
  PROVE  (TablesSound /\ CallsSound)'
<1>1. UNCHANGED dbVars /\ UNCHANGED handles /\ call' = [call EXCEPT ![p] = Idle]
  BY DEF TakeAnswer, Timeout, Fail, Ends
<1> QED
  BY <1>1, CallsStay, IdleSound, TablesStand DEF TablesSound

\* A publish keeps its row, and no call changes its kind.
LEMMA IdentifiedAs ==
  ASSUME NEW c, CallSound(c), c.op \in TxOps
  PROVE  /\ c.op = "publish" =>
              Identified(c) = [op |-> "publish", stage |-> "insert", attempt |-> c.attempt,
                               row |-> c.row]
         /\ Identified(c).op = c.op
<1>1. CASE c.op = "publish"
  <2> DEFINE r == c.row
             i == r.id
             n == [r EXCEPT !.id = i]
             u == [c EXCEPT !.stage = "insert"]
  <2>1. /\ c = [op |-> "publish", stage |-> c.stage, attempt |-> c.attempt, row |-> r]
        /\ PublishRow(r)
    BY <1>1 DEF CallSound, Idle, NamedOps
  <2>2. Identified(c) = [u EXCEPT !.row = n]
    BY <1>1 DEF Identified
  <2>3. n = r
    BY <2>1 DEF PublishRow
  <2> HIDE DEF n
  <2>4. u = [op |-> "publish", stage |-> "insert", attempt |-> c.attempt, row |-> r]
    BY <2>1
  <2> HIDE DEF u
  <2>5. [u EXCEPT !.row = n] =
          [op |-> "publish", stage |-> "insert", attempt |-> c.attempt, row |-> r]
    BY <2>3, <2>4
  <2> QED
    BY <1>1, <2>2, <2>5
<1>2. CASE c.op # "publish"
  <2> DEFINE r == c.row
             n == [r EXCEPT !.id = NewId]
             u == [c EXCEPT !.stage = "insert"]
  <2>1. c = [op |-> c.op, stage |-> c.stage, row |-> r]
    BY <1>2 DEF CallSound, TxOps, NamedOps, Idle
  <2>2. Identified(c) = [u EXCEPT !.row = n]
    BY <1>2 DEF Identified
  <2> HIDE DEF n
  <2>3. u = [op |-> c.op, stage |-> "insert", row |-> r]
    BY <2>1
  <2> HIDE DEF u
  <2>4. [u EXCEPT !.row = n] = [op |-> c.op, stage |-> "insert", row |-> n]
    BY <2>3
  <2> QED
    BY <1>2, <2>2, <2>4
<1> QED
  BY <1>1, <1>2

\* The transaction of a call lands while it waits: the row has what it made.
LEMMA SendKeeps ==
  ASSUME ChainTypes, TablesSound, CallsSound, Grows, EventsKept, NEW p \in Processes, Send(p)
  PROVE  (TablesSound /\ CallsSound)'
<1>1. UNCHANGED dbVars /\ UNCHANGED handles
  BY DEF Send
<1>2. PICK c : c = call[p] /\ CallSound(c)
  BY DEF CallsSound
<1>3. /\ c.op \in TxOps /\ c.stage = "send" /\ Execute(c.op, c.row)
      /\ call' = [call EXCEPT ![p] = Identified(c)]
  BY <1>2 DEF Send, InCall
<1>4. PICK new : new = NewId
  OBVIOUS
<1>5. ASSUME NEW x, objects' = Append(objects, x)
      PROVE  new \in DOMAIN objects' /\ objects'[new] = x
  BY <1>4, <1>5, Appended DEF ChainTypes, ObjectTypes, NewId
<1>6. CASE c.op \in {"workspace", "agent"}
  <2> DEFINE r == c.row
             made == [kind |-> c.op, name |-> r.name, of |-> r.of, id |-> new]
             d == [op |-> c.op, stage |-> "insert", row |-> made]
  <2>1. /\ c = [op |-> c.op, stage |-> c.stage, row |-> r]
        /\ r = [kind |-> c.op, name |-> r.name, of |-> r.of, id |-> r.id]
    BY <1>2, <1>6 DEF CallSound, Idle, NamedRow, NamedOps
  <2>2. [r EXCEPT !.id = new] = made
    BY <2>1
  <2>3. Identified(c) = d
    <3> DEFINE n == [r EXCEPT !.id = new]
           u == [c EXCEPT !.stage = "insert"]
    <3>1. Identified(c) = [u EXCEPT !.row = n]
      BY <1>4, <1>6 DEF Identified
    <3> HIDE DEF n
    <3>2. u = [op |-> c.op, stage |-> "insert", row |-> r]
      BY <2>1
    <3> HIDE DEF u
    <3>3. [u EXCEPT !.row = n] = [op |-> c.op, stage |-> "insert", row |-> n]
      BY <3>2
    <3> QED
      BY <2>2, <3>1, <3>3 DEF n
  <2>4. BackedName(made)'
    <3>1. CASE c.op = "workspace"
      <4>1. objects' = Append(objects, Workspace(Wallet, r.name))
        BY <1>3, <3>1 DEF Execute, SendWorkspace, CreateWorkspace
      <4> QED
        BY <1>5, <3>1, <4>1 DEF BackedName, Owned, Objects, Workspace
    <3>2. CASE c.op = "agent"
      <4>1. objects' = Append(objects, AgentIdentity(Wallet, r.of, r.name))
        BY <1>3, <3>2 DEF Execute, SendAgent, RegisterAgent
      <4> QED
        BY <1>5, <3>2, <4>1 DEF BackedName, Owned, Objects, AgentIdentity
    <3> QED
      BY <1>6, <3>1, <3>2
  <2>5. CallSound(d)'
    BY <1>6, <2>4 DEF CallSound, NamedRow, NamedOps
  <2> HIDE DEF d
  <2> QED
    BY <1>1, <1>3, <2>3, <2>5, CallsStay, TablesStand DEF TablesSound
<1>7. CASE c.op = "grant"
  <2> DEFINE r == c.row
             made == [stream |-> r.stream, agent |-> r.agent, verbs |-> r.verbs, id |-> new]
             d == [op |-> "grant", stage |-> "insert", row |-> made]
  <2>1. /\ c = [op |-> "grant", stage |-> c.stage, row |-> r]
        /\ r = [stream |-> r.stream, agent |-> r.agent, verbs |-> r.verbs, id |-> r.id]
    BY <1>2, <1>7 DEF CallSound, Idle, GrantRow, NamedOps
  <2>2. [r EXCEPT !.id = new] = made
    BY <2>1
  <2>3. Identified(c) = d
    <3> DEFINE n == [r EXCEPT !.id = new]
           u == [c EXCEPT !.stage = "insert"]
    <3>1. Identified(c) = [u EXCEPT !.row = n]
      BY <1>4, <1>7 DEF Identified
    <3> HIDE DEF n
    <3>2. u = [op |-> "grant", stage |-> "insert", row |-> r]
      BY <2>1
    <3> HIDE DEF u
    <3>3. [u EXCEPT !.row = n] = [op |-> "grant", stage |-> "insert", row |-> n]
      BY <3>2
    <3> QED
      BY <2>2, <3>1, <3>3 DEF n
  <2>4. BackedGrant(made)'
    <3>1. objects' = Append(objects, Capability(Wallet, r.stream, r.verbs, 0))
      BY <1>3, <1>7 DEF Execute, SendGrant, DelegateCapability
    <3> QED
      BY <1>5, <3>1 DEF BackedGrant, Objects, Capability
  <2>5. CallSound(d)'
    BY <2>4 DEF CallSound, GrantRow
  <2> HIDE DEF d
  <2> QED
    BY <1>1, <1>3, <2>3, <2>5, CallsStay, TablesStand DEF TablesSound
<1>8. CASE c.op = "publish"
  <2> DEFINE r == c.row
             d == [op |-> "publish", stage |-> "insert", attempt |-> c.attempt, row |-> r]
  <2>1. /\ c = [op |-> "publish", stage |-> c.stage, attempt |-> c.attempt, row |-> r]
        /\ PublishRow(r)
    BY <1>2, <1>8 DEF CallSound, Idle, NamedOps
  <2>2. Identified(c) = d
    BY <1>2, <1>8, IdentifiedAs DEF TxOps
  <2>3. BackedEvent(r)'
    <3>1. Emits([sender |-> Wallet, type |-> "ProtocolEventAnchored", id |-> r.id, blob |-> r.id,
                 agent |-> r.agent, workspace |-> r.workspace])
      BY <1>3, <1>8 DEF Execute, SendEvent, AnchorEvent
    <3>2. PICK n : /\ n \in DOMAIN emitted' /\ emitted'[n].type = "ProtocolEventAnchored"
                   /\ emitted'[n].id = r.id /\ emitted'[n].blob = r.id
                   /\ emitted'[n].agent = r.agent /\ emitted'[n].workspace = r.workspace
      <4> DEFINE e == [sender |-> Wallet, type |-> "ProtocolEventAnchored", id |-> r.id,
                       blob |-> r.id, agent |-> r.agent, workspace |-> r.workspace]
      <4>1. PICK n : n \in DOMAIN emitted' /\ emitted'[n] = e
        BY <3>1, LastEvent DEF ChainTypes
      <4> QED
        BY <4>1
    <3> QED
      BY <3>2 DEF BackedEvent, Anchored, Told
  <2>4. CallSound(d)'
    BY <2>1, <2>3 DEF CallSound, PublishRow
  <2> HIDE DEF d
  <2> QED
    BY <1>1, <1>3, <2>2, <2>4, CallsStay, TablesStand DEF TablesSound
<1> QED
  BY <1>3, <1>6, <1>7, <1>8 DEF TxOps

\* So every step keeps the tables sound.
LEMMA TablesKept ==
  ASSUME ChainInv, TablesSound, CallsSound, [Next]_vars
  PROVE  (TablesSound /\ CallsSound)'
<1>1. Grows /\ EventsKept /\ ChainTypes
  BY ChainKept DEF ChainInv
<1>2. CASE \E p \in Processes : Step(p)
  BY <1>1, <1>2, GetKeeps, InsertNamedKeeps, InsertGrantKeeps, InsertEventKeeps, BeginKeeps,
     GoOnKeeps, EndKeeps, SendKeeps DEF Step
<1>3. CASE UNCHANGED <<dbVars, call, handles>>
  BY <1>1, <1>3, TablesStand, CallsStand DEF TablesSound
<1>4. Land \/ Expire \/ (ObjectsNext /\ UNCHANGED liveVars) \/ UNCHANGED vars
        => UNCHANGED <<dbVars, call, handles>>
  BY DEF Land, Expire, liveVars, vars
<1> QED
  BY <1>2, <1>3, <1>4 DEF Next

\* What a step anchors: nothing of an SDK's, or the row r.
NoneAnchored == \A i \in Anchored' : i \in Anchored \/ emitted'[i].agent = Nobody
RowAnchored(r) ==
  \A i \in Anchored' :
    i \in Anchored \/ (emitted'[i].blob = r.id /\ emitted'[i].workspace = r.workspace)

LEMMA OneAnchored ==
  ASSUME ChainTypes, NEW e, Emits(e)
  PROVE  /\ (e.type = "ProtocolEventAnchored" => e.agent = Nobody) => NoneAnchored
         /\ \A r : e.blob = r.id /\ e.workspace = r.workspace => RowAnchored(r)
<1>1. PICK n \in Nat :
        /\ DOMAIN emitted' = DOMAIN emitted \cup {n} /\ emitted'[n] = e
        /\ \A i \in DOMAIN emitted : emitted'[i] = emitted[i]
  BY LastEvent DEF ChainTypes
<1>2. \A i \in Anchored' : i \in Anchored \/ (i = n /\ e.type = "ProtocolEventAnchored")
  BY <1>1 DEF Anchored, Told
<1> QED
  BY <1>1, <1>2 DEF NoneAnchored, RowAnchored

LEMMA ExecuteAnchors ==
  ASSUME ChainTypes, NEW op, NEW row, Execute(op, row)
  PROVE  NoneAnchored \/ (op = "publish" /\ RowAnchored(row))
<1>1. CASE op = "workspace" /\ SendWorkspace(row)
  BY <1>1, OneAnchored DEF SendWorkspace, CreateWorkspace
<1>2. CASE op = "agent" /\ SendAgent(row)
  BY <1>2, OneAnchored DEF SendAgent, RegisterAgent
<1>3. CASE op = "grant" /\ SendGrant(row)
  BY <1>3, OneAnchored DEF SendGrant, DelegateCapability
<1>4. CASE op = "publish" /\ SendEvent(row)
  <2> DEFINE e == [sender |-> Wallet, type |-> "ProtocolEventAnchored", id |-> row.id,
                   blob |-> row.id, agent |-> row.agent, workspace |-> row.workspace]
  <2>1. Emits(e)
    BY <1>4 DEF SendEvent, AnchorEvent
  <2> QED
    BY <1>4, <2>1, OneAnchored
<1> QED
  BY <1>1, <1>2, <1>3, <1>4 DEF Execute

\* Those who are not the SDK anchor nothing of an agent's.
LEMMA OthersAnchor ==
  ASSUME ChainTypes, ObjectsNext
  PROVE  NoneAnchored
<1>1. UNCHANGED chainVars => NoneAnchored
  BY DEF chainVars, NoneAnchored, Anchored, Told
<1>2. ASSUME NEW e, Emits(e), e.type # "ProtocolEventAnchored" PROVE NoneAnchored
  BY <1>2, OneAnchored
<1>3. ASSUME NEW w, NEW n, CreateWorkspace(w, n) PROVE NoneAnchored
  BY <1>2, <1>3 DEF CreateWorkspace
<1>4. ASSUME NEW w, NEW ws, NEW n, RegisterAgent(w, ws, n) PROVE NoneAnchored
  BY <1>2, <1>4 DEF RegisterAgent
<1>5. ASSUME NEW w, NEW a, NEW st, UpdateAgentStatus(w, a, st) PROVE NoneAnchored
  BY <1>2, <1>5 DEF UpdateAgentStatus
<1>6. ASSUME NEW w, NEW a, IncrementCounters(w, a, 1) PROVE NoneAnchored
  BY <1>2, <1>6 DEF IncrementCounters
<1>7. ASSUME NEW w, NEW t, NEW g, NEW r, NEW u,
             DelegateCapability(w, t, g, r, u) \/ MintCapability(w, t, g, r, u)
      PROVE  NoneAnchored
  BY <1>2, <1>7 DEF DelegateCapability, MintCapability
<1>8. ASSUME NEW w, NEW c, RevokeCapability(w, c) PROVE NoneAnchored
  BY <1>2, <1>8 DEF RevokeCapability
<1>9. ASSUME NEW w, NEW a, CreateStream(w, a) PROVE NoneAnchored
  BY <1>2, <1>9 DEF CreateStream
<1>10. ASSUME NEW w, NEW s, DeleteStream(w, s) PROVE NoneAnchored
  BY <1>2, <1>10 DEF DeleteStream
<1>11. ASSUME NEW w, NEW s, NEW p, NEW h, AppendEvent(w, s, p, h) PROVE NoneAnchored
  BY <1>2, <1>11 DEF AppendEvent
<1>12. ASSUME NEW w, NEW ws, NEW a, NEW c, NEW s, NEW p, NEW h,
              AppendSignedEvent(w, ws, a, c, s, p, h, h)
       PROVE  NoneAnchored
  BY <1>2, <1>12 DEF AppendSignedEvent
<1>13. ASSUME NEW w, NEW h, NEW ws, AnchorEvent(w, h, h, Nobody, ws) PROVE NoneAnchored
  <2> DEFINE e == [sender |-> w, type |-> "ProtocolEventAnchored", id |-> h, blob |-> h,
                   agent |-> Nobody, workspace |-> ws]
  <2>1. Emits(e)
    BY <1>13 DEF AnchorEvent
  <2> QED
    BY <2>1, OneAnchored
<1>14. CASE \E k \in Clients :
              \/ CommitRow(k) \/ CommitLocalRow(k) \/ SendStream(k) \/ SaveMapping(k)
              \/ SaveCapability(k) \/ FailStream(k) \/ DeleteStreamRow(k)
  BY <1>1, <1>9, <1>14 DEF CommitRow, CommitLocalRow, SendStream, SaveMapping, SaveCapability,
                           FailStream, DeleteStreamRow
<1>15. CASE AdapterCall
  BY <1>3, <1>4, <1>5, <1>6, <1>7, <1>8, <1>11, <1>15
     DEF AdapterCall, NewWorkspace, NewAgent, NewStatus, NewCounters, Delegate, Revoke, AnchorMemory
<1>16. CASE Others
  BY <1>3, <1>4, <1>5, <1>6, <1>7, <1>8, <1>9, <1>10, <1>11, <1>12, <1>13, <1>16
     DEF Others, WalletCall, IdentityCall, MemoryCall, ProtocolCall
<1> QED
  BY <1>14, <1>15, <1>16 DEF ObjectsNext

\* A step that gives no id.
PublishesStand ==
  \A p \in Processes : Publishing(p)' => Publishing(p) /\ call'[p].row = call[p].row

LEMMA IdsStand ==
  ASSUME IdsSound, EventsKept, ticks' \in Nat, ticks' >= ticks, PublishesStand,
         events' \subseteq PublishRows,
         \A t \in late' : t.op = "publish" => t.row \in PublishRows,
         returned' \subseteq 1 .. ticks',
         \A p \in Processes : Publishing(p)' => call'[p].row.id \notin returned',
         NoneAnchored \/ \E r \in PublishRows : RowAnchored(r)
  PROVE  IdsSound'
<1>1. PublishRows' \subseteq PublishRows
  BY DEF PublishesStand, PublishRows
<1>2. /\ ticks \in Nat /\ \A r \in PublishRows : r.id \in 1 .. ticks
      /\ \A r, q \in PublishRows : r.id = q.id => r = q
      /\ \A i \in Anchored : emitted[i].agent # Nobody =>
           /\ emitted[i].blob \in 1 .. ticks
           /\ \A r \in PublishRows : r.id = emitted[i].blob => r.workspace = emitted[i].workspace
  BY DEF IdsSound
<1>3. ASSUME NEW i \in Anchored', emitted'[i].agent # Nobody
      PROVE  /\ emitted'[i].blob \in 1 .. ticks'
             /\ \A r \in PublishRows' : r.id = emitted'[i].blob => r.workspace = emitted'[i].workspace
  <2>1. CASE i \in Anchored
    <3>1. emitted'[i] = emitted[i]
      BY <2>1 DEF EventsKept, Anchored
    <3> QED
      BY <1>1, <1>2, <1>3, <2>1, <3>1
  <2>2. CASE i \notin Anchored
    <3>1. PICK r \in PublishRows : emitted'[i].blob = r.id /\ emitted'[i].workspace = r.workspace
      BY <1>3, <2>2 DEF NoneAnchored, RowAnchored
    <3> QED
      BY <1>1, <1>2, <3>1
  <2> QED
    BY <2>1, <2>2
<1>4. \A p, q \in Processes :
        Publishing(p)' /\ Publishing(q)' /\ p # q => call'[p].row.id # call'[q].row.id
  BY DEF PublishesStand, IdsSound
<1>5. \A r \in PublishRows' : r.id \in 1 .. ticks'
  BY <1>1, <1>2
<1>6. \A r, q \in PublishRows' : r.id = q.id => r = q
  BY <1>1, <1>2
<1> QED
  BY <1>3, <1>4, <1>5, <1>6 DEF IdsSound

\* A call that changes, without a new publish.
LEMMA OnePublish ==
  ASSUME CallsSound, NEW p \in Processes, NEW c, call' = [call EXCEPT ![p] = c],
         c.op = "publish" => Publishing(p) /\ c.row = call[p].row
  PROVE  /\ PublishesStand
         /\ \A q \in Processes : Publishing(q)' => call'[q].row = call[q].row /\ Publishing(q)
         /\ c.op # "publish" => \A q \in Processes : Publishing(q)' => q # p
BY DEF CallsSound, PublishesStand, Publishing

\* The rows of publishes, where they are.
LEMMA PublishRowsAre ==
  /\ events \subseteq PublishRows
  /\ \A p \in Processes : Publishing(p) => call[p].row \in PublishRows
  /\ \A t \in late : t.op = "publish" => t.row \in PublishRows
BY DEF PublishRows

\* A step of a call that neither begins a publish, nor ends one, nor sends.
LEMMA QuietKeepsIds ==
  ASSUME CallsSound, IdsSound, EventsKept, NEW p \in Processes, NEW c,
         call' = [call EXCEPT ![p] = c], c.op = "publish" => Publishing(p) /\ c.row = call[p].row,
         UNCHANGED <<events, late, returned>>, UNCHANGED chainVars, ticks' \in {ticks, ticks + 1}
  PROVE  IdsSound'
<1>1. NoneAnchored
  BY DEF chainVars, NoneAnchored, Anchored, Told
<1>2. ticks' \in Nat /\ ticks' >= ticks /\ returned' \subseteq 1 .. ticks'
  <2>1. ticks \in Nat /\ returned \subseteq 1 .. ticks
    BY DEF IdsSound
  <2>2. 1 .. ticks \subseteq 1 .. ticks'
    BY <2>1
  <2> QED
    BY <2>1, <2>2
<1>3. \A q \in Processes : Publishing(q)' => call'[q].row.id \notin returned'
  <2>1. \A q \in Processes : Publishing(q)' => call'[q].row = call[q].row /\ Publishing(q)
    BY OnePublish
  <2> QED
    BY <2>1 DEF IdsSound
<1>4. events' \subseteq PublishRows /\ \A t \in late' : t.op = "publish" => t.row \in PublishRows
  BY PublishRowsAre
<1> QED
  BY <1>1, <1>2, <1>3, <1>4, OnePublish, IdsStand

\* A publish begins: its id is new.
LEMMA PublishKeepsIds ==
  ASSUME CallsSound, IdsSound, EventsKept, NEW p \in Processes, Publish(p)
  PROVE  IdsSound'
<1>1. PICK i : i = ticks + 1
  OBVIOUS
<1>2. PICK a, s \in handles :
        Begins(p, [op |-> "publish", stage |-> "upload", attempt |-> 0,
                   row |-> [id |-> i, stream |-> s.id, agent |-> a.id, workspace |-> a.of]])
  BY <1>1 DEF Publish
<1> DEFINE r == [id |-> i, stream |-> s.id, agent |-> a.id, workspace |-> a.of]
           c == [op |-> "publish", stage |-> "upload", attempt |-> 0, row |-> r]
<1>3. /\ call' = [call EXCEPT ![p] = c] /\ call[p] = Idle
      /\ UNCHANGED <<events, late, returned>> /\ UNCHANGED chainVars /\ ticks' = i
  BY <1>1, <1>2, Zenon DEF Publish, Begins, dbVars
<1>4. /\ ticks \in Nat /\ i = ticks + 1 /\ \A q \in PublishRows : q.id \in 1 .. ticks
      /\ returned \subseteq 1 .. ticks
  BY <1>1 DEF IdsSound
<1>5. call'[p] = c /\ (\A q \in Processes : q # p => call'[q] = call[q]) /\ c.row = r /\ r.id = i
  BY <1>3 DEF CallsSound
<1> HIDE DEF c, r
<1>6. PublishRows' \subseteq PublishRows \cup {r}
  BY <1>3, <1>5, PublishRowsAre DEF PublishRows, Publishing
<1>7. ASSUME NEW q \in Processes, Publishing(q)', q # p
      PROVE  Publishing(q) /\ call'[q].row = call[q].row /\ call[q].row \in PublishRows
  BY <1>5, <1>7, PublishRowsAre DEF Publishing
<1>8. \A q \in PublishRows' : q.id \in 1 .. ticks'
  BY <1>3, <1>4, <1>5, <1>6
<1>9. \A q, t \in PublishRows' : q.id = t.id => q = t
  BY <1>4, <1>5, <1>6 DEF IdsSound
<1>10. ASSUME NEW q \in Processes, NEW t \in Processes, Publishing(q)', Publishing(t)', q # t
       PROVE  call'[q].row.id # call'[t].row.id
  <2>1. CASE q # p /\ t # p
    BY <1>7, <1>10, <2>1 DEF IdsSound
  <2>2. CASE q = p
    <3>1. call'[t].row.id \in 1 .. ticks
      BY <1>4, <1>7, <1>10, <2>2
    <3> QED
      BY <1>4, <1>5, <2>2, <3>1
  <2>3. CASE t = p
    <3>1. call'[q].row.id \in 1 .. ticks
      BY <1>4, <1>7, <1>10, <2>3
    <3> QED
      BY <1>4, <1>5, <2>3, <3>1
  <2> QED
    BY <2>1, <2>2, <2>3
<1>11. ASSUME NEW q \in Processes, Publishing(q)' PROVE call'[q].row.id \notin returned'
  <2>1. CASE q = p
    BY <1>3, <1>4, <1>5, <2>1
  <2>2. CASE q # p
    BY <1>3, <1>7, <1>11, <2>2 DEF IdsSound
  <2> QED
    BY <2>1, <2>2
<1>12. ASSUME NEW j \in Anchored', emitted'[j].agent # Nobody
       PROVE  /\ emitted'[j].blob \in 1 .. ticks'
              /\ \A q \in PublishRows' : q.id = emitted'[j].blob => q.workspace = emitted'[j].workspace
  <2>1. j \in Anchored /\ emitted'[j] = emitted[j]
    BY <1>3 DEF chainVars, Anchored, Told
  <2>2. /\ emitted[j].blob \in 1 .. ticks
        /\ \A q \in PublishRows : q.id = emitted[j].blob => q.workspace = emitted[j].workspace
    BY <1>12, <2>1 DEF IdsSound
  <2> QED
    BY <1>3, <1>4, <1>5, <1>6, <2>1, <2>2
<1>13. ticks' \in Nat /\ returned' \subseteq 1 .. ticks'
  BY <1>3, <1>4
<1> QED
  BY <1>8, <1>9, <1>10, <1>11, <1>12, <1>13 DEF IdsSound

\* So every step keeps the ids sound.
LEMMA IdsKept ==
  ASSUME ChainInv, CallsSound, IdsSound, [Next]_vars
  PROVE  IdsSound'
<1>1. EventsKept /\ ChainTypes
  BY ChainKept DEF ChainInv
<1>2. UNCHANGED chainVars => NoneAnchored
  BY DEF chainVars, NoneAnchored, Anchored, Told
<1>3. CASE \E p \in Processes : Step(p)
  <2> SUFFICES ASSUME NEW p \in Processes, Step(p) PROVE IdsSound'
    BY <1>3
  <2>1. PICK c : c = call[p] /\ CallSound(c)
    BY DEF CallsSound
  <2>2. ASSUME NEW d, call' = [call EXCEPT ![p] = d], d.op # "publish",
               UNCHANGED <<events, late, returned>>, UNCHANGED chainVars,
               ticks' \in {ticks, ticks + 1}
        PROVE  IdsSound'
    BY <1>1, <2>2, QuietKeepsIds
  <2>3. Idle.op # "publish"
    BY DEF Idle
  <2>4. CASE Get(p)
    <3>1. ASSUME NEW kind, NEW name, NEW of, Load(p, kind, name, of)
          PROVE  call' = [call EXCEPT ![p] = Idle] /\ ticks' = ticks /\ UNCHANGED dbVars
      BY <3>1, Zenon DEF Load, Begins
    <3>2. ASSUME NEW kind \in NamedOps, NEW name, NEW of, Create(p, kind, name, of)
          PROVE  /\ ticks' \in {ticks, ticks + 1} /\ UNCHANGED dbVars
                 /\ \E d : d.op # "publish" /\ call' = [call EXCEPT ![p] = d]
      <4> DEFINE row == [kind |-> kind, name |-> name, of |-> of, id |-> NoId]
                 d1 == [op |-> kind, stage |-> "insert", row |-> [row EXCEPT !.id = -(ticks + 1)]]
                 d2 == [op |-> kind, stage |-> "send", row |-> row]
      <4>1. d1.op # "publish" /\ d2.op # "publish"
        BY DEF NamedOps
      <4>2. CASE kind = "stream"
        <5>1. call' = [call EXCEPT ![p] = d1] /\ ticks' = ticks + 1 /\ UNCHANGED dbVars
          BY <3>2, <4>2, Zenon DEF Create, Begins
        <5> HIDE DEF d1, d2
        <5> QED
          BY <4>1, <5>1
      <4>3. CASE kind # "stream"
        <5>1. call' = [call EXCEPT ![p] = d2] /\ ticks' = ticks /\ UNCHANGED dbVars
          BY <3>2, <4>3, Zenon DEF Create, Begins
        <5> HIDE DEF d1, d2
        <5> QED
          BY <4>1, <5>1
      <4> QED
        BY <4>2, <4>3
    <3>3. /\ ticks' \in {ticks, ticks + 1} /\ UNCHANGED dbVars
          /\ \E d : d.op # "publish" /\ call' = [call EXCEPT ![p] = d]
      <4>1. "workspace" \in NamedOps /\ "agent" \in NamedOps /\ "stream" \in NamedOps
        BY DEF NamedOps
      <4>2. CASE \E kind, name, of : Load(p, kind, name, of)
        BY <3>1, <4>2, <2>3
      <4>3. CASE \E kind \in NamedOps, name \in Names : \E of : Create(p, kind, name, of)
        BY <3>2, <4>3
      <4> QED
        BY <2>4, <4>1, <4>2, <4>3, Zenon DEF Get
    <3>4. UNCHANGED <<late, returned>> /\ UNCHANGED chainVars /\ UNCHANGED events
      BY <2>4, <3>3 DEF Get, dbVars
    <3> QED
      BY <2>2, <3>3, <3>4
  <2>5. CASE InsertNamed(p) \/ InsertGrant(p) \/ TakeAnswer(p) \/ Fail(p)
    BY <2>2, <2>3, <2>5 DEF InsertNamed, InsertGrant, TakeAnswer, Fail, Ends, dbVars
  <2>6. CASE Grant(p)
    <3>1. PICK a, s \in handles, g \in Grants :
            Begins(p, [op |-> "grant", stage |-> "send",
                       row |-> [stream |-> s.id, agent |-> a.id, verbs |-> g, id |-> NoId]])
      BY <2>6 DEF Grant
    <3> DEFINE d == [op |-> "grant", stage |-> "send",
                     row |-> [stream |-> s.id, agent |-> a.id, verbs |-> g, id |-> NoId]]
    <3>2. call' = [call EXCEPT ![p] = d] /\ d.op # "publish"
      BY <3>1 DEF Begins
    <3> HIDE DEF d
    <3> QED
      BY <2>2, <2>6, <3>2 DEF Grant, dbVars
  <2>7. CASE Read(p)
    <3>1. PICK s, before, rows :
            Begins(p, [op |-> "read", stage |-> "download", stream |-> s.id, before |-> before,
                       rows |-> rows, got |-> <<>>])
      BY <2>7 DEF Read
    <3> DEFINE d == [op |-> "read", stage |-> "download", stream |-> s.id, before |-> before,
                     rows |-> rows, got |-> <<>>]
    <3>2. call' = [call EXCEPT ![p] = d] /\ d.op # "publish"
      BY <3>1 DEF Begins
    <3> HIDE DEF d
    <3> QED
      BY <2>2, <2>7, <3>2 DEF Read, dbVars
  <2>8. CASE Download(p) \/ Answer(p)
    <3>1. c.op = "read" /\ DOMAIN c = {"op", "stage", "stream", "before", "rows", "got"}
      BY <2>1, <2>8 DEF Download, Answer, InCall, CallSound, Idle, NamedOps
    <3>2. CASE Download(p)
      <4>1. PICK r : call' = [call EXCEPT ![p].rows = @ \ {r}, ![p].got = Append(@, r)]
        BY <3>2 DEF Download
      <4> DEFINE less == c.rows \ {r}
                 more == Append(c.got, r)
                 u == [c EXCEPT !.rows = less]
                 d == [u EXCEPT !.got = more]
      <4>2. call' = [call EXCEPT ![p] = d]
        BY <2>1, <4>1
      <4> HIDE DEF less, more
      <4>3. u.op = "read" /\ DOMAIN u = DOMAIN c
        BY <3>1
      <4> HIDE DEF u
      <4>4. d.op = "read"
        BY <3>1, <4>3
      <4> HIDE DEF d
      <4> QED
        BY <2>2, <3>2, <4>2, <4>4 DEF Download, dbVars
    <3>3. CASE Answer(p)
      <4> DEFINE d == [c EXCEPT !.stage = "answered"]
      <4>1. call' = [call EXCEPT ![p] = d] /\ d.op = "read"
        BY <2>1, <3>1, <3>3 DEF Answer
      <4> HIDE DEF d
      <4> QED
        BY <2>2, <3>3, <4>1 DEF Answer, dbVars
    <3> QED
      BY <2>8, <3>2, <3>3
  <2>9. CASE UploadAgain(p) \/ Upload(p)
    <3>1. /\ c.op = "publish"
          /\ c = [op |-> "publish", stage |-> c.stage, attempt |-> c.attempt, row |-> c.row]
      BY <2>1, <2>9 DEF UploadAgain, Upload, InCall, CallSound, Idle, NamedOps
    <3>2. \E d : call' = [call EXCEPT ![p] = d] /\ d.op = "publish" /\ d.row = c.row
      <4>1. CASE UploadAgain(p)
        <5> DEFINE n == c.attempt + 1
                   d == [c EXCEPT !.attempt = n]
        <5>1. call' = [call EXCEPT ![p] = d]
          BY <2>1, <4>1 DEF UploadAgain
        <5> HIDE DEF n
        <5>2. d.op = "publish" /\ d.row = c.row
          BY <3>1
        <5> HIDE DEF d
        <5> QED
          BY <5>1, <5>2
      <4>2. CASE Upload(p)
        <5> DEFINE d == [c EXCEPT !.stage = "send"]
        <5>1. call' = [call EXCEPT ![p] = d] /\ d.op = "publish" /\ d.row = c.row
          BY <2>1, <3>1, <4>2 DEF Upload
        <5> HIDE DEF d
        <5> QED
          BY <5>1
      <4> QED
        BY <2>9, <4>1, <4>2
    <3>3. Publishing(p) /\ c.row = call[p].row
      BY <2>1, <3>1 DEF Publishing
    <3> QED
      BY <1>1, <2>9, <3>2, <3>3, QuietKeepsIds DEF UploadAgain, Upload, dbVars
  <2>10. CASE Publish(p)
    BY <1>1, <2>10, PublishKeepsIds
  <2>11. CASE InsertEvent(p)
    <3>1. /\ Publishing(p) /\ call' = [call EXCEPT ![p] = Idle]
          /\ events' = events \cup {call[p].row} /\ returned' = returned \cup {call[p].row.id}
          /\ UNCHANGED <<ticks, late>> /\ UNCHANGED chainVars
      BY <2>11 DEF InsertEvent, InCall, Ends, Publishing
    <3>2. /\ PublishesStand
          /\ \A q \in Processes : Publishing(q)' =>
               q # p /\ Publishing(q) /\ call'[q].row = call[q].row
      BY <2>3, <3>1, OnePublish
    <3>3. events' \subseteq PublishRows /\ \A t \in late' : t.op = "publish" => t.row \in PublishRows
      BY <3>1, PublishRowsAre
    <3>4. ticks' \in Nat /\ ticks' >= ticks /\ returned' \subseteq 1 .. ticks'
      <4>1. ticks \in Nat /\ returned \subseteq 1 .. ticks /\ call[p].row.id \in 1 .. ticks
        BY <3>1, PublishRowsAre DEF IdsSound
      <4>2. ticks' = ticks /\ returned' = returned \cup {call[p].row.id}
        BY <3>1
      <4>3. ticks' \in Nat /\ ticks' >= ticks
        BY <4>1, <4>2
      <4>4. \A x \in returned' : x \in 1 .. ticks
        BY <4>1, <4>2
      <4> QED
        BY <4>2, <4>3, <4>4
    <3>5. \A q \in Processes : Publishing(q)' => call'[q].row.id \notin returned'
      BY <3>1, <3>2 DEF IdsSound
    <3> QED
      BY <1>1, <1>2, <3>1, <3>2, <3>3, <3>4, <3>5, IdsStand
  <2>12. CASE Timeout(p)
    <3>1. /\ call' = [call EXCEPT ![p] = Idle]
          /\ late' = late \cup {[op |-> call[p].op, row |-> call[p].row]}
          /\ UNCHANGED <<ticks, events, returned>> /\ UNCHANGED chainVars
      BY <2>12 DEF Timeout, Ends, dbVars
    <3>2. /\ PublishesStand
          /\ \A q \in Processes : Publishing(q)' => Publishing(q) /\ call'[q].row = call[q].row
      BY <2>3, <3>1, OnePublish
    <3>3. events' \subseteq PublishRows /\ \A t \in late' : t.op = "publish" => t.row \in PublishRows
      BY <3>1, PublishRowsAre DEF Publishing
    <3>4. ticks' \in Nat /\ ticks' >= ticks /\ returned' \subseteq 1 .. ticks'
      BY <3>1 DEF IdsSound
    <3>5. \A q \in Processes : Publishing(q)' => call'[q].row.id \notin returned'
      BY <3>1, <3>2 DEF IdsSound
    <3> QED
      BY <1>1, <1>2, <3>1, <3>2, <3>3, <3>4, <3>5, IdsStand
  <2>13. CASE Send(p)
    <3>1. /\ c.op \in TxOps /\ Execute(c.op, c.row) /\ call' = [call EXCEPT ![p] = Identified(c)]
          /\ UNCHANGED <<ticks, events, late, returned>>
      BY <2>1, <2>13 DEF Send, InCall, dbVars
    <3>2. PICK d : d = Identified(c)
      OBVIOUS
    <3>3. d.op = "publish" => Publishing(p) /\ d.row = call[p].row
      BY <2>1, <3>1, <3>2, IdentifiedAs DEF Publishing
    <3>4. NoneAnchored \/ \E r \in PublishRows : RowAnchored(r)
      BY <1>1, <2>1, <3>1, ExecuteAnchors, PublishRowsAre DEF Publishing
    <3>5. /\ PublishesStand
          /\ \A q \in Processes : Publishing(q)' => Publishing(q) /\ call'[q].row = call[q].row
      BY <3>1, <3>2, <3>3, OnePublish
    <3>6. ticks' \in Nat /\ ticks' >= ticks /\ returned' \subseteq 1 .. ticks'
      BY <3>1 DEF IdsSound
    <3>7. \A q \in Processes : Publishing(q)' => call'[q].row.id \notin returned'
      BY <3>1, <3>5 DEF IdsSound
    <3> QED
      BY <1>1, <3>1, <3>4, <3>5, <3>6, <3>7, PublishRowsAre, IdsStand
  <2> QED
    BY <2>4, <2>5, <2>6, <2>7, <2>8, <2>9, <2>10, <2>11, <2>12, <2>13 DEF Step
<1>4. ASSUME UNCHANGED <<call, events, returned, ticks>>, late' \subseteq late,
             NoneAnchored \/ \E r \in PublishRows : RowAnchored(r)
      PROVE  IdsSound'
  <2>1. PublishesStand
    BY <1>4 DEF PublishesStand, Publishing
  <2>2. ticks' \in Nat /\ ticks' >= ticks /\ returned' \subseteq 1 .. ticks'
    BY <1>4 DEF IdsSound
  <2>3. \A q \in Processes : Publishing(q)' => call'[q].row.id \notin returned'
    BY <1>4 DEF IdsSound, Publishing
  <2> QED
    BY <1>1, <1>4, <2>1, <2>2, <2>3, PublishRowsAre, IdsStand
<1>5. CASE Land
  <2>1. PICK t \in late : Execute(t.op, t.row) /\ late' = late \ {t}
    BY <1>5 DEF Land
  <2>2. NoneAnchored \/ \E r \in PublishRows : RowAnchored(r)
    BY <1>1, <2>1, ExecuteAnchors, PublishRowsAre
  <2> QED
    BY <1>4, <1>5, <2>1, <2>2 DEF Land, dbVars
<1>6. CASE Expire
  BY <1>2, <1>4, <1>6 DEF Expire, dbVars
<1>7. CASE ObjectsNext /\ UNCHANGED liveVars
  BY <1>1, <1>4, <1>7, OthersAnchor DEF liveVars, dbVars
<1>8. CASE UNCHANGED vars
  BY <1>2, <1>4, <1>8 DEF vars, liveVars, dbVars
<1> QED
  BY <1>3, <1>5, <1>6, <1>7, <1>8 DEF Next

\* What a step of one call leaves of the reads.
LEMMA ReadsStand ==
  ASSUME CallsSound, ReadsSound, NEW p \in Processes, NEW d, call' = [call EXCEPT ![p] = d],
         d.op = "read" => ReadSound(d)',
         \A c : ReadSound(c) => ReadSound(c)'
  PROVE  ReadsSound'
<1>1. call'[p] = d /\ \A q \in Processes : q # p => call'[q] = call[q]
  BY DEF CallsSound
<1>2. ASSUME NEW q \in Processes, NEW c \in {call'[q]}, c.op = "read" PROVE ReadSound(c)'
  BY <1>1, <1>2 DEF ReadsSound
<1> QED
  BY <1>2 DEF ReadsSound

\* A row is fetched: the oldest that is left.
LEMMA DownloadKeeps ==
  ASSUME IdsSound, NEW c, ReadSound(c), NEW r \in Oldest(c.rows), NEW d,
         d = [op |-> "read", stage |-> "download", stream |-> c.stream, before |-> c.before,
              rows |-> c.rows \ {r}, got |-> Append(c.got, r)]
  PROVE  ReadSound(d)
<1> DEFINE n == Len(c.got) + 1
<1>1. /\ IsSeq(d.got) /\ DOMAIN c.got = 1 .. Len(c.got) /\ Len(c.got) \in Nat
      /\ DOMAIN d.got = DOMAIN c.got \cup {n} /\ n \notin DOMAIN c.got
      /\ \A i \in DOMAIN c.got : d.got[i] = c.got[i]
      /\ d.got[n] = r
  BY Appended DEF ReadSound
<1>2. \A i \in DOMAIN c.got : i \in Nat /\ i < n
  BY <1>1
<1> HIDE DEF n
<1>3. \A e \in events : e.id \in Nat /\ \A f \in events : e.id = f.id => e = f
  <2>1. \A e \in PublishRows : e.id \in 1 .. ticks /\ \A f \in PublishRows : e.id = f.id => e = f
    BY DEF IdsSound
  <2> QED
    BY <2>1, PublishRowsAre
<1>4. /\ c.rows \subseteq events /\ c.before \subseteq returned /\ r \in c.rows
      /\ \A q \in c.rows : r.id <= q.id
  BY DEF ReadSound, Oldest
<1>5. \A q \in c.rows \ {r} : r.id < q.id
  BY <1>3, <1>4
<1>6. /\ \A i \in DOMAIN c.got : c.got[i] \in events
      /\ \A i, j \in DOMAIN c.got : i < j => c.got[i].id < c.got[j].id
      /\ \A i \in DOMAIN c.got : \A q \in c.rows : c.got[i].id < q.id
      /\ \A e \in events : e.stream = c.stream /\ e.id \in c.before =>
           e \in c.rows \/ \E i \in DOMAIN c.got : c.got[i] = e
  BY DEF ReadSound
<1>7. \A i \in DOMAIN d.got : d.got[i] \in events
  BY <1>1, <1>4, <1>6
<1>8. \A i, j \in DOMAIN d.got : i < j => d.got[i].id < d.got[j].id
  <2>1. ASSUME NEW i \in DOMAIN d.got, NEW j \in DOMAIN d.got, i < j
        PROVE  d.got[i].id < d.got[j].id
    <3>1. CASE j = n
      <4>1. i \in DOMAIN c.got
        BY <1>1, <1>2, <2>1, <3>1
      <4> QED
        BY <1>1, <1>4, <1>6, <3>1, <4>1
    <3>2. CASE j # n
      <4>1. i \in DOMAIN c.got /\ j \in DOMAIN c.got
        BY <1>1, <1>2, <2>1, <3>2
      <4> QED
        BY <1>1, <1>6, <2>1, <4>1
    <3> QED
      BY <3>1, <3>2
  <2> QED
    BY <2>1
<1>9. \A i \in DOMAIN d.got : \A q \in d.rows : d.got[i].id < q.id
  BY <1>1, <1>5, <1>6
<1>10. \A e \in events : e.stream = d.stream /\ e.id \in d.before =>
         e \in d.rows \/ \E i \in DOMAIN d.got : d.got[i] = e
  BY <1>1, <1>6
<1>11. d.rows \subseteq events /\ d.before \subseteq returned /\ d.stage # "answered"
  BY <1>4
<1> QED
  BY <1>1, <1>7, <1>8, <1>9, <1>10, <1>11 DEF ReadSound

\* So every step keeps what the reads have.
LEMMA ReadsKept ==
  ASSUME CallsSound, IdsSound, ReadsSound, [Next]_vars
  PROVE  ReadsSound'
<1>1. ASSUME UNCHANGED <<events, returned>> PROVE \A c : ReadSound(c) => ReadSound(c)'
  BY <1>1 DEF ReadSound
<1>2. CASE \E p \in Processes : Step(p)
  <2> SUFFICES ASSUME NEW p \in Processes, Step(p) PROVE ReadsSound'
    BY <1>2
  <2>1. PICK c : c = call[p] /\ CallSound(c)
    BY DEF CallsSound
  <2>2. ASSUME NEW d, call' = [call EXCEPT ![p] = d], d.op # "read",
               UNCHANGED <<events, returned>>
        PROVE  ReadsSound'
    BY <1>1, <2>2, ReadsStand
  <2>3. Idle.op # "read"
    BY DEF Idle
  <2>4. CASE Get(p)
    <3>1. ASSUME NEW kind, NEW name, NEW of, Load(p, kind, name, of)
          PROVE  call' = [call EXCEPT ![p] = Idle] /\ UNCHANGED dbVars
      BY <3>1, Zenon DEF Load, Begins
    <3>2. ASSUME NEW kind \in NamedOps, NEW name, NEW of, Create(p, kind, name, of)
          PROVE  UNCHANGED dbVars /\ \E d : d.op # "read" /\ call' = [call EXCEPT ![p] = d]
      <4> DEFINE row == [kind |-> kind, name |-> name, of |-> of, id |-> NoId]
                 d1 == [op |-> kind, stage |-> "insert", row |-> [row EXCEPT !.id = -(ticks + 1)]]
                 d2 == [op |-> kind, stage |-> "send", row |-> row]
      <4>1. d1.op # "read" /\ d2.op # "read"
        BY DEF NamedOps
      <4>2. CASE kind = "stream"
        <5>1. call' = [call EXCEPT ![p] = d1] /\ UNCHANGED dbVars
          BY <3>2, <4>2, Zenon DEF Create, Begins
        <5> HIDE DEF d1, d2
        <5> QED
          BY <4>1, <5>1
      <4>3. CASE kind # "stream"
        <5>1. call' = [call EXCEPT ![p] = d2] /\ UNCHANGED dbVars
          BY <3>2, <4>3, Zenon DEF Create, Begins
        <5> HIDE DEF d1, d2
        <5> QED
          BY <4>1, <5>1
      <4> QED
        BY <4>2, <4>3
    <3>3. UNCHANGED dbVars /\ \E d : d.op # "read" /\ call' = [call EXCEPT ![p] = d]
      <4>1. "workspace" \in NamedOps /\ "agent" \in NamedOps /\ "stream" \in NamedOps
        BY DEF NamedOps
      <4>2. CASE \E kind, name, of : Load(p, kind, name, of)
        BY <3>1, <4>2, <2>3
      <4>3. CASE \E kind \in NamedOps, name \in Names : \E of : Create(p, kind, name, of)
        BY <3>2, <4>3
      <4> QED
        BY <2>4, <4>1, <4>2, <4>3, Zenon DEF Get
    <3> QED
      BY <2>2, <2>4, <3>3 DEF Get, dbVars
  <2>5. CASE InsertNamed(p) \/ InsertGrant(p) \/ TakeAnswer(p) \/ Fail(p) \/ Timeout(p)
    BY <2>2, <2>3, <2>5 DEF InsertNamed, InsertGrant, TakeAnswer, Fail, Timeout, Ends, dbVars
  <2>6. CASE Grant(p)
    <3>1. PICK a, s \in handles, g \in Grants :
            Begins(p, [op |-> "grant", stage |-> "send",
                       row |-> [stream |-> s.id, agent |-> a.id, verbs |-> g, id |-> NoId]])
      BY <2>6 DEF Grant
    <3> DEFINE d == [op |-> "grant", stage |-> "send",
                     row |-> [stream |-> s.id, agent |-> a.id, verbs |-> g, id |-> NoId]]
    <3>2. call' = [call EXCEPT ![p] = d] /\ d.op # "read"
      BY <3>1 DEF Begins
    <3> HIDE DEF d
    <3> QED
      BY <2>2, <2>6, <3>2 DEF Grant, dbVars
  <2>7. CASE Publish(p)
    <3>1. PICK a, s \in handles :
            Begins(p, [op |-> "publish", stage |-> "upload", attempt |-> 0,
                       row |-> [id |-> ticks + 1, stream |-> s.id, agent |-> a.id,
                                workspace |-> a.of]])
      BY <2>7 DEF Publish
    <3> DEFINE d == [op |-> "publish", stage |-> "upload", attempt |-> 0,
                     row |-> [id |-> ticks + 1, stream |-> s.id, agent |-> a.id,
                              workspace |-> a.of]]
    <3>2. call' = [call EXCEPT ![p] = d] /\ d.op # "read"
      BY <3>1 DEF Begins
    <3> HIDE DEF d
    <3> QED
      BY <2>2, <2>7, <3>2 DEF Publish, dbVars
  <2>8. CASE UploadAgain(p) \/ Upload(p)
    <3>1. /\ c.op = "publish"
          /\ c = [op |-> "publish", stage |-> c.stage, attempt |-> c.attempt, row |-> c.row]
      BY <2>1, <2>8 DEF UploadAgain, Upload, InCall, CallSound, Idle, NamedOps
    <3>2. \E d : call' = [call EXCEPT ![p] = d] /\ d.op = "publish"
      <4>1. CASE UploadAgain(p)
        <5> DEFINE n == c.attempt + 1
                   d == [c EXCEPT !.attempt = n]
        <5>1. call' = [call EXCEPT ![p] = d]
          BY <2>1, <4>1 DEF UploadAgain
        <5> HIDE DEF n
        <5>2. d.op = "publish"
          BY <3>1
        <5> HIDE DEF d
        <5> QED
          BY <5>1, <5>2
      <4>2. CASE Upload(p)
        <5> DEFINE d == [c EXCEPT !.stage = "send"]
        <5>1. call' = [call EXCEPT ![p] = d] /\ d.op = "publish"
          BY <2>1, <3>1, <4>2 DEF Upload
        <5> HIDE DEF d
        <5> QED
          BY <5>1
      <4> QED
        BY <2>8, <4>1, <4>2
    <3> QED
      BY <2>2, <2>8, <3>2 DEF UploadAgain, Upload, dbVars
  <2>9. CASE Send(p)
    <3>1. PICK d : d = Identified(c)
      OBVIOUS
    <3>2. call' = [call EXCEPT ![p] = d] /\ d.op # "read"
      <4>1. call' = [call EXCEPT ![p] = Identified(c)] /\ c.op \in TxOps
        BY <2>1, <2>9 DEF Send, InCall
      <4> QED
        BY <2>1, <3>1, <4>1, IdentifiedAs DEF TxOps
    <3> QED
      BY <2>2, <2>9, <3>2 DEF Send, dbVars
  <2>10. CASE InsertEvent(p)
    <3>1. /\ Publishing(p) /\ call' = [call EXCEPT ![p] = Idle]
          /\ events' = events \cup {call[p].row} /\ returned' = returned \cup {call[p].row.id}
      BY <2>10 DEF InsertEvent, InCall, Ends, Publishing
    <3>2. call[p].row.id \notin returned
      BY <3>1 DEF IdsSound
    <3>3. ASSUME NEW d, ReadSound(d) PROVE ReadSound(d)'
      BY <3>1, <3>2, <3>3 DEF ReadSound
    <3> QED
      BY <2>3, <3>1, <3>3, ReadsStand
  <2>11. CASE Read(p)
    <3>1. PICK s, before, rows :
            /\ Begins(p, [op |-> "read", stage |-> "download", stream |-> s.id, before |-> before,
                          rows |-> rows, got |-> <<>>])
            /\ before = returned /\ rows = {e \in events : e.stream = s.id}
      BY <2>11 DEF Read
    <3> DEFINE d == [op |-> "read", stage |-> "download", stream |-> s.id, before |-> before,
                     rows |-> rows, got |-> <<>>]
    <3>2. call' = [call EXCEPT ![p] = d] /\ UNCHANGED <<events, returned>>
      BY <2>11, <3>1 DEF Begins, Read, dbVars
    <3>3. ReadSound(d)
      BY <3>1 DEF ReadSound, IsSeq
    <3>4. ReadSound(d)'
      BY <1>1, <3>2, <3>3
    <3> HIDE DEF d
    <3> QED
      BY <1>1, <3>2, <3>4, ReadsStand
  <2>12. CASE Download(p) \/ Answer(p)
    <3>1. /\ c.op = "read" /\ c.stage = "download" /\ ReadSound(c)
          /\ c = [op |-> "read", stage |-> c.stage, stream |-> c.stream, before |-> c.before,
                  rows |-> c.rows, got |-> c.got]
      BY <2>1, <2>12 DEF Download, Answer, InCall, CallSound, Idle, NamedOps, ReadsSound
    <3>2. UNCHANGED <<events, returned>>
      BY <2>12 DEF Download, Answer, dbVars
    <3>3. \E d : call' = [call EXCEPT ![p] = d] /\ ReadSound(d)
      <4>1. CASE Download(p)
        <5>1. PICK r \in Oldest(c.rows) :
                call' = [call EXCEPT ![p].rows = @ \ {r}, ![p].got = Append(@, r)]
          BY <2>1, <4>1 DEF Download
        <5> DEFINE less == c.rows \ {r}
                   more == Append(c.got, r)
                   u == [c EXCEPT !.rows = less]
                   d == [u EXCEPT !.got = more]
        <5>2. call' = [call EXCEPT ![p] = d]
          BY <2>1, <5>1
        <5> HIDE DEF less, more
        <5>3. u = [op |-> "read", stage |-> c.stage, stream |-> c.stream, before |-> c.before,
                   rows |-> less, got |-> c.got]
          BY <3>1
        <5> HIDE DEF u
        <5>4. d = [op |-> "read", stage |-> "download", stream |-> c.stream, before |-> c.before,
                   rows |-> less, got |-> more]
          BY <3>1, <5>3
        <5> HIDE DEF d
        <5>5. ReadSound(d)
          BY <3>1, <5>4, DownloadKeeps DEF less, more
        <5> QED
          BY <5>2, <5>5
      <4>2. CASE Answer(p)
        <5> DEFINE d == [c EXCEPT !.stage = "answered"]
        <5>1. call' = [call EXCEPT ![p] = d] /\ c.rows = {}
          BY <2>1, <4>2 DEF Answer
        <5>2. d = [op |-> "read", stage |-> "answered", stream |-> c.stream, before |-> c.before,
                   rows |-> c.rows, got |-> c.got]
          BY <3>1
        <5> HIDE DEF d
        <5>3. ReadSound(d)
          BY <3>1, <5>1, <5>2 DEF ReadSound
        <5> QED
          BY <5>1, <5>3
      <4> QED
        BY <2>12, <4>1, <4>2
    <3>4. PICK d : call' = [call EXCEPT ![p] = d] /\ ReadSound(d)
      BY <3>3
    <3> QED
      BY <1>1, <3>2, <3>4, ReadsStand
  <2> QED
    BY <2>4, <2>5, <2>6, <2>7, <2>8, <2>9, <2>10, <2>11, <2>12 DEF Step
<1>3. CASE UNCHANGED <<call, events, returned>>
  BY <1>1, <1>3 DEF ReadsSound
<1>4. Land \/ Expire \/ (ObjectsNext /\ UNCHANGED liveVars) \/ UNCHANGED vars
        => UNCHANGED <<call, events, returned>>
  BY DEF Land, Expire, liveVars, dbVars, vars
<1> QED
  BY <1>2, <1>3, <1>4 DEF Next

\* A page that is large enough holds them all.
LEMMA WholePage ==
  ASSUME NEW evs, IsFiniteSet(evs), evs \subseteq Nat, Cardinality(evs) <= Page
  PROVE  FirstPage(evs) = evs
<1> SUFFICES ASSUME NEW i \in evs PROVE Cardinality({j \in evs : j < i}) < Page
  BY DEF FirstPage
<1> DEFINE S == {j \in evs : j < i}
<1>1. S \subseteq evs /\ i \notin S
  OBVIOUS
<1>2. S \subseteq evs \ {i} /\ IsFiniteSet(evs \ {i}) /\ Cardinality(evs \ {i}) = Cardinality(evs) - 1
  BY <1>1, FS_RemoveElement
<1>3. Cardinality(S) <= Cardinality(evs) - 1 /\ Cardinality(S) \in Nat /\ Cardinality(evs) \in Nat
  BY <1>2, FS_Subset, FS_CardinalityType
<1> QED
  BY <1>3, PageAssumption

\* What the rows and the events say of each other is found on the chain.
LEMMA RowsAreFound ==
  ASSUME ChainInv, TablesSound, IdsSound
  PROVE  FoundOnChain
<1>1. IsFiniteSet(Anchored) /\ Anchored \subseteq Nat
  <2>1. DOMAIN emitted = 1 .. Len(emitted) /\ Len(emitted) \in Nat
    BY Appended DEF ChainInv, ChainTypes
  <2>2. IsFiniteSet(DOMAIN emitted) /\ DOMAIN emitted \subseteq Nat
    BY <2>1, FS_Interval
  <2> QED
    BY <2>2, FS_Subset DEF Anchored
<1> SUFFICES ASSUME NEW ws, NEW nodeSelects \in BOOLEAN
             PROVE  LET found == QueryEventsByWorkspace(ws, nodeSelects)
                        pages == IF nodeSelects THEN Of(Anchored, ws) ELSE Anchored
                        theirs == BlobIds({i \in Of(Anchored, ws) : emitted[i].agent = Nobody})
                    IN /\ Cardinality(pages) <= Page =>
                            {e.id : e \in {f \in events : f.workspace = ws}} \subseteq found
                       /\ \A e \in events : e.id \in found => e.workspace = ws \/ e.id \in theirs
                       /\ nodeSelects \/ found \subseteq QueryAnchoredEvents
  BY DEF FoundOnChain
<1> DEFINE found == QueryEventsByWorkspace(ws, nodeSelects)
           pages == IF nodeSelects THEN Of(Anchored, ws) ELSE Anchored
           theirs == BlobIds({i \in Of(Anchored, ws) : emitted[i].agent = Nobody})
<1>2. Of(Anchored, ws) \subseteq Anchored /\ IsFiniteSet(Of(Anchored, ws))
  BY <1>1, FS_Subset DEF Of
<1>3. ASSUME NEW e \in events, e.workspace = ws, Cardinality(pages) <= Page PROVE e.id \in found
  <2>1. PICK i \in Anchored : emitted[i].blob = e.id /\ emitted[i].workspace = ws
    BY <1>3 DEF TablesSound, EventsBacked
  <2>2. i \in Of(Anchored, ws)
    BY <2>1 DEF Of
  <2>3. CASE nodeSelects
    <3>1. FirstPage(Of(Anchored, ws)) = Of(Anchored, ws)
      BY <1>1, <1>2, <1>3, <2>3, WholePage
    <3> QED
      BY <2>1, <2>2, <2>3, <3>1 DEF QueryEventsByWorkspace, BlobIds
  <2>4. CASE ~nodeSelects
    <3>1. FirstPage(Anchored) = Anchored
      BY <1>1, <1>3, <2>4, WholePage
    <3> QED
      BY <2>1, <2>2, <2>4, <3>1 DEF QueryEventsByWorkspace, BlobIds
  <2> QED
    BY <2>3, <2>4
<1>4. ASSUME NEW e \in events, e.id \in found PROVE e.workspace = ws \/ e.id \in theirs
  <2>1. PICK i \in Of(Anchored, ws) : emitted[i].blob = e.id
    BY <1>4 DEF QueryEventsByWorkspace, BlobIds, FirstPage, Of
  <2>2. i \in Anchored /\ emitted[i].workspace = ws
    BY <2>1 DEF Of
  <2>3. CASE emitted[i].agent = Nobody
    BY <2>1, <2>3 DEF BlobIds
  <2>4. CASE emitted[i].agent # Nobody
    BY <2>1, <2>2, <2>4, PublishRowsAre DEF IdsSound
  <2> QED
    BY <2>3, <2>4
<1>5. nodeSelects \/ found \subseteq QueryAnchoredEvents
  BY DEF QueryEventsByWorkspace, QueryAnchoredEvents, BlobIds, Of
<1> QED
  BY <1>3, <1>4, <1>5

\* What the rows and the creators say stays so while the mapping stands.
LEMMA ObjectRowsStay ==
  ASSUME ObjectRowsSound, Grows, UNCHANGED mapping,
         streams'.made \in Nat, streams'.made >= streams.made, streams'.deleted = streams.deleted
  PROVE  /\ OwnObject' /\ Stream \subseteq Stream'
         /\ \A c : CreatorSound(c) => CreatorSound(c)'
         /\ caps' = caps => CapabilityRowsTrue'
         /\ caps \subseteq caps' => \A s : Granted(s) => Granted(s)'
<1>1. Stream \subseteq Stream'
  BY DEF ObjectRowsSound, StreamCounts, Stream
<1>2. OwnObject'
  BY <1>1 DEF ObjectRowsSound, OwnObject, Owned, Objects, Grows, KeptObject
<1>3. ASSUME NEW c, CreatorSound(c) PROVE CreatorSound(c)'
  <2>1. CASE c = NoStream
    BY <2>1 DEF CreatorSound
  <2>2. CASE c.stage = "send" /\ c = [stage |-> "send", stream |-> c.stream]
                              /\ c.stream \in Stream \ streams.deleted
    BY <1>1, <2>2 DEF CreatorSound
  <2>3. CASE c.stage \in {"map", "cap"} /\ c # NoStream
    <3>1. /\ c.object \in Owned(Wallet, "MemoryStream")'
          /\ c.cap \in Objects("Capability")' /\ objects'[c.cap].target = c.object
          /\ objects'[c.cap].verbs = CAP_ALL /\ objects'[c.cap].until = 0
          /\ objects'[c.cap].owner \in {Wallet, Destroyed}
      BY <1>3, <2>3 DEF CreatorSound, Owned, Objects, Grows, KeptObject
    <3> QED
      BY <1>1, <1>3, <2>3, <3>1 DEF CreatorSound
  <2> QED
    BY <1>3, <2>1, <2>2, <2>3 DEF CreatorSound
<1>4. ASSUME caps' = caps PROVE CapabilityRowsTrue'
  BY <1>4 DEF ObjectRowsSound, CapabilityRowsTrue, PermissionsPage, Objects, Grows, KeptObject
<1>5. ASSUME caps \subseteq caps', NEW s, Granted(s) PROVE Granted(s)'
  BY <1>5 DEF Granted
<1> QED
  BY <1>1, <1>2, <1>3, <1>4, <1>5

\* One creator takes a step.
LEMMA OneCreator ==
  ASSUME CreatorsSound, NEW k \in Clients, NEW c, client' = [client EXCEPT ![k] = c],
         CreatorSound(c)',
         \A l \in Clients : l # k => \A d \in {client[l]} : CreatorSound(d)'
  PROVE  /\ CreatorsSound'
         /\ client'[k] = c /\ \A l \in Clients : l # k => client'[l] = client[l]
<1>1. /\ DOMAIN client' = Clients /\ client'[k] = c
      /\ \A l \in Clients : l # k => client'[l] = client[l]
  BY DEF CreatorsSound
<1> QED
  BY <1>1 DEF CreatorsSound

\* Nothing happens to the file, whatever happens to the chain.
LEMMA FileStands ==
  ASSUME ObjectRowsSound, Grows, UNCHANGED <<rowVars, torn>>, UNCHANGED client
  PROVE  ObjectRowsSound'
<1>1. /\ streams' = streams /\ mapping' = mapping /\ caps' = caps /\ torn' = torn
      /\ client' = client
  BY DEF rowVars
<1>2. streams'.made \in Nat /\ streams'.made >= streams.made /\ StreamCounts'
  BY <1>1 DEF ObjectRowsSound, StreamCounts, Stream
<1>3. /\ OwnObject' /\ CapabilityRowsTrue' /\ \A c : CreatorSound(c) => CreatorSound(c)'
      /\ \A s : Granted(s) => Granted(s)'
  BY <1>1, <1>2, ObjectRowsStay
<1>4. CreatorsSound'
  BY <1>1, <1>3 DEF ObjectRowsSound, CreatorsSound
<1>5. CreatorsApart' /\ NotYetMapped'
  BY <1>1 DEF ObjectRowsSound, CreatorsApart, NotYetMapped, At
<1>6. LockedByTear'
  BY <1>1, <1>3 DEF ObjectRowsSound, LockedByTear, At
<1> QED
  BY <1>2, <1>3, <1>4, <1>5, <1>6 DEF ObjectRowsSound

\* What a creator can be.
LEMMA CreatorIs ==
  ASSUME CreatorsSound, NEW k \in Clients
  PROVE  /\ CreatorSound(client[k])
         /\ At(k, "idle") <=> client[k] = NoStream
         /\ client[k].stage \in {"idle", "send", "map", "cap"}
         /\ ~At(k, "idle") => client[k].stream \in Stream \ streams.deleted
<1>1. CreatorSound(client[k])
  BY DEF CreatorsSound
<1> QED
  BY <1>1 DEF CreatorSound, NoStream, At

\* The row of a stream.
LEMMA CommitRowKeeps ==
  ASSUME ObjectRowsSound, Grows, NEW k \in Clients, CommitRow(k) \/ CommitLocalRow(k)
  PROVE  ObjectRowsSound'
<1>0. PICK n : n = streams.made + 1
  OBVIOUS
<1>1. /\ streams' = [streams EXCEPT !.made = n]
      /\ mapping' = mapping /\ caps' = caps /\ torn' = torn
  BY <1>0 DEF CommitRow, CommitLocalRow
<1>2. streams.made \in Nat /\ n \in Nat /\ n >= streams.made /\ n # streams.made
  BY <1>0 DEF ObjectRowsSound, StreamCounts
<1>3. n \notin Stream /\ n \notin DOMAIN mapping
  BY <1>0, <1>2 DEF Stream, ObjectRowsSound, OwnObject
<1>4. /\ streams'.made = n /\ streams'.deleted = streams.deleted
      /\ streams' = [made |-> streams'.made, deleted |-> streams'.deleted]
  BY <1>1 DEF ObjectRowsSound, StreamCounts
<1>5. /\ OwnObject' /\ CapabilityRowsTrue' /\ \A c : CreatorSound(c) => CreatorSound(c)'
      /\ Stream \subseteq Stream' /\ \A s : Granted(s) => Granted(s)'
  BY <1>1, <1>2, <1>4, ObjectRowsStay
<1>6. n \in Stream' /\ StreamCounts'
  <2>1. n \in Stream'
    BY <1>2, <1>4 DEF Stream
  <2> QED
    BY <1>2, <1>4, <1>5, <2>1 DEF ObjectRowsSound, StreamCounts
<1>7. n \notin streams.deleted
  BY <1>3 DEF ObjectRowsSound, StreamCounts
<1>8. CASE CommitLocalRow(k)
  <2>1. client' = client
    BY <1>8 DEF CommitLocalRow
  <2>2. CreatorsSound'
    BY <1>5, <2>1 DEF ObjectRowsSound, CreatorsSound
  <2>3. CreatorsApart' /\ NotYetMapped' /\ LockedByTear'
    BY <1>1, <1>5, <2>1 DEF ObjectRowsSound, CreatorsApart, NotYetMapped, LockedByTear, At
  <2> QED
    BY <1>5, <1>6, <2>2, <2>3 DEF ObjectRowsSound
<1>9. CASE CommitRow(k)
  <2>0. PICK c : c = [stage |-> "send", stream |-> n]
    OBVIOUS
  <2>1. client' = [client EXCEPT ![k] = c] /\ At(k, "idle")
    BY <1>0, <1>9, <2>0 DEF CommitRow, Goes
  <2>2. CreatorSound(c)' /\ c.stage = "send" /\ c.stream = n
    BY <1>4, <1>6, <1>7, <2>0 DEF CreatorSound
  <2>3. CreatorsSound
    BY DEF ObjectRowsSound
  <2>4. \A l \in Clients : l # k => \A d \in {client[l]} : CreatorSound(d)'
    BY <1>5, <2>3 DEF CreatorsSound
  <2>5. /\ CreatorsSound' /\ client'[k] = c
        /\ \A l \in Clients : l # k => client'[l] = client[l]
    BY <2>1, <2>2, <2>3, <2>4, OneCreator
  <2>6. \A l \in Clients : ~At(l, "idle") => client[l].stream # n
    BY <1>3, <2>3, CreatorIs
  <2>7. CreatorsApart'
    BY <2>2, <2>5, <2>6 DEF ObjectRowsSound, CreatorsApart, At
  <2>8. NotYetMapped'
    BY <1>1, <1>3, <2>2, <2>5 DEF ObjectRowsSound, NotYetMapped
  <2>9. LockedByTear'
    BY <1>1, <1>5, <2>1, <2>5 DEF ObjectRowsSound, LockedByTear, At
  <2> QED
    BY <1>5, <1>6, <2>5, <2>7, <2>8, <2>9 DEF ObjectRowsSound
<1> QED
  BY <1>8, <1>9

\* The objects of a new stream.
LEMMA StreamIsMade ==
  ASSUME ObjectTypes, NEW w, NEW a, CreateStream(w, a), NEW n, n = NewId
  PROVE  /\ n \in Nat /\ n \notin DOMAIN objects /\ n + 1 \notin DOMAIN objects /\ n # n + 1
         /\ DOMAIN objects' = DOMAIN objects \cup {n, n + 1}
         /\ objects'[n] = MemoryStream(w, a)
         /\ objects'[n + 1] = Capability(w, n, CAP_ALL, 0)
<1> DEFINE x == MemoryStream(w, a)
           y == Capability(w, n, CAP_ALL, 0)
           mid == Append(objects, x)
<1>1. objects' = objects \o <<x, y>>
  BY DEF CreateStream
<1> HIDE DEF x, y
<1>2. /\ IsSeq(mid) /\ Len(objects) \in Nat /\ n = Len(objects) + 1 /\ n \notin DOMAIN objects
      /\ DOMAIN objects = 1 .. Len(objects)
      /\ DOMAIN mid = DOMAIN objects \cup {n} /\ Len(mid) + 1 = n + 1
      /\ mid[n] = x
  BY Appended DEF ObjectTypes, NewId
<1>3. objects' = Append(mid, y)
  BY <1>1, AppendedTwo DEF ObjectTypes
<1> HIDE DEF mid
<1>4. /\ DOMAIN objects' = DOMAIN mid \cup {n + 1} /\ n + 1 \notin DOMAIN mid
      /\ \A o \in DOMAIN mid : objects'[o] = mid[o]
      /\ objects'[n + 1] = y
  BY <1>2, <1>3, Appended
<1>5. n \in Nat /\ n # n + 1
  BY <1>2
<1> QED
  BY <1>2, <1>4, <1>5 DEF x, y

\* A creator goes on while the mapping and the capabilities' rows stand.
LEMMA CreatorGoes ==
  ASSUME ObjectRowsSound, Grows, UNCHANGED rowVars, NEW k \in Clients, NEW c,
         client' = [client EXCEPT ![k] = c], CreatorSound(c)',
         c = NoStream \/ (c.stage # "idle" /\ ~At(k, "idle") /\ c.stream = client[k].stream),
         c.stage = "send" => At(k, "send"), c.stage = "map" => At(k, "send") \/ At(k, "map"),
         c.stage = "cap" => At(k, "cap"),
         c.stage \in {"map", "cap"} =>
           \A l \in Clients : l # k /\ client[l].stage \in {"map", "cap"} => client[l].object # c.object,
         torn \subseteq torn', At(k, "cap") /\ c.stage # "cap" => client[k].stream \in torn'
  PROVE  ObjectRowsSound'
<1>1. streams' = streams /\ mapping' = mapping /\ caps' = caps
  BY DEF rowVars
<1>2. streams'.made \in Nat /\ streams'.made >= streams.made /\ StreamCounts'
  BY <1>1 DEF ObjectRowsSound, StreamCounts, Stream
<1>3. /\ OwnObject' /\ CapabilityRowsTrue' /\ \A d : CreatorSound(d) => CreatorSound(d)'
      /\ \A s : Granted(s) => Granted(s)'
  BY <1>1, <1>2, ObjectRowsStay
<1>4. CreatorsSound
  BY DEF ObjectRowsSound
<1>5. /\ CreatorsSound' /\ client'[k] = c
      /\ \A l \in Clients : l # k => client'[l] = client[l]
  <2>1. \A l \in Clients : l # k => \A d \in {client[l]} : CreatorSound(d)'
    BY <1>3, <1>4 DEF CreatorsSound
  <2> QED
    BY <1>4, <2>1, OneCreator
<1>6. NoStream.stage = "idle"
  BY DEF NoStream
<1>7. CreatorsApart'
  BY <1>5, <1>6 DEF ObjectRowsSound, CreatorsApart, At
<1>8. NotYetMapped'
  BY <1>1, <1>5, <1>6 DEF ObjectRowsSound, NotYetMapped, At
<1>9. LockedByTear'
  BY <1>1, <1>3, <1>5, <1>6 DEF ObjectRowsSound, LockedByTear, At
<1> QED
  BY <1>2, <1>3, <1>5, <1>7, <1>8, <1>9 DEF ObjectRowsSound

LEMMA NoCreator == CreatorSound(NoStream) /\ CreatorSound(NoStream)'
BY Zenon DEF CreatorSound

LEMMA FailStreamKeeps ==
  ASSUME ObjectRowsSound, Grows, NEW k \in Clients, FailStream(k)
  PROVE  ObjectRowsSound'
<1>1. PICK c : c = NoStream
  OBVIOUS
<1>2. /\ UNCHANGED rowVars /\ client' = [client EXCEPT ![k] = c]
      /\ torn \subseteq torn'
      /\ At(k, "cap") => client[k].stream \in torn'
  BY <1>1 DEF FailStream, Goes
<1>3. c.stage = "idle" /\ CreatorSound(c)'
  BY <1>1, NoCreator DEF NoStream
<1> QED
  BY <1>1, <1>2, <1>3, CreatorGoes

LEMMA SendStreamKeeps ==
  ASSUME ObjectTypes, ObjectRowsSound, Grows, NEW k \in Clients, SendStream(k)
  PROVE  ObjectRowsSound'
<1>1. PICK n : n = NewId
  OBVIOUS
<1>2. /\ At(k, "send") /\ UNCHANGED rowVars /\ torn' = torn /\ CreateStream(Wallet, WalletAddress)
  BY DEF SendStream
<1>3. /\ n \notin DOMAIN objects /\ n + 1 \notin DOMAIN objects
      /\ DOMAIN objects' = DOMAIN objects \cup {n, n + 1}
      /\ objects'[n] = MemoryStream(Wallet, WalletAddress)
      /\ objects'[n + 1] = Capability(Wallet, n, CAP_ALL, 0)
  BY <1>1, <1>2, StreamIsMade
<1>4. CreatorsSound /\ ~At(k, "idle") /\ client[k].stream \in Stream \ streams.deleted
  BY <1>2, CreatorIs DEF ObjectRowsSound, At
<1>5. PICK s, m : s = client[k].stream /\ m = n + 1
  OBVIOUS
<1>6. CASE client' = [client EXCEPT ![k] = NoStream]
  <2>1. PICK c : c = NoStream
    OBVIOUS
  <2>2. c.stage = "idle" /\ CreatorSound(c)' /\ client' = [client EXCEPT ![k] = c]
    BY <1>6, <2>1, NoCreator DEF NoStream
  <2> QED
    BY <1>2, <2>1, <2>2, CreatorGoes DEF At
<1>7. CASE client' = [client EXCEPT ![k] = [stage |-> "map", stream |-> s, object |-> n, cap |-> m]]
  <2>1. PICK c : c = [stage |-> "map", stream |-> s, object |-> n, cap |-> m]
    OBVIOUS
  <2>2. \A t \in DOMAIN mapping : mapping[t] # n
    BY <1>3 DEF ObjectRowsSound, OwnObject, Owned, Objects
  <2>3. \A l \in Clients : client[l].stage \in {"map", "cap"} => client[l].object # n
    <3>1. SUFFICES ASSUME NEW l \in Clients, client[l].stage \in {"map", "cap"}
                   PROVE  client[l].object \in DOMAIN objects
      BY <1>3
    <3>2. CreatorSound(client[l])
      BY <1>4, CreatorIs
    <3>3. PICK d : d = client[l]
      OBVIOUS
    <3> QED
      BY <3>1, <3>2, <3>3 DEF CreatorSound, NoStream, Owned, Objects
  <2>4. CreatorSound(c)'
    <3>1. /\ n \in Owned(Wallet, "MemoryStream")' /\ m \in Objects("Capability")'
          /\ objects'[m].target = n /\ objects'[m].verbs = CAP_ALL /\ objects'[m].until = 0
          /\ objects'[m].owner = Wallet
      BY <1>3, <1>5 DEF Owned, Objects, MemoryStream, Capability
    <3>2. streams' = streams /\ mapping' = mapping
      BY <1>2 DEF rowVars
    <3> QED
      BY <1>4, <1>5, <2>1, <2>2, <3>1, <3>2 DEF CreatorSound, Stream
  <2>5. client' = [client EXCEPT ![k] = c] /\ c.stage = "map" /\ c.stream = client[k].stream /\ c.object = n
    BY <1>5, <1>7, <2>1
  <2> QED
    BY <1>2, <1>4, <2>3, <2>4, <2>5, CreatorGoes DEF At
<1> QED
  BY <1>1, <1>5, <1>6, <1>7 DEF SendStream, Goes

LEMMA SaveMappingKeeps ==
  ASSUME ObjectRowsSound, NEW k \in Clients, SaveMapping(k)
  PROVE  ObjectRowsSound'
<1>1. PICK s, o, d : s = client[k].stream /\ o = client[k].object /\ d = client[k]
  OBVIOUS
<1>2. PICK c : c = [stage |-> "cap", stream |-> s, object |-> o, cap |-> d.cap]
  OBVIOUS
<1>3. /\ At(k, "map") /\ streams' = streams /\ caps' = caps /\ torn' = torn /\ objects' = objects
      /\ mapping' = [t \in DOMAIN mapping \cup {s} |-> IF t = s THEN o ELSE mapping[t]]
      /\ client' = [client EXCEPT ![k].stage = "cap"]
  BY <1>1 DEF SaveMapping, chainVars
<1>4. /\ DOMAIN mapping' = DOMAIN mapping \cup {s} /\ mapping'[s] = o
      /\ \A t \in DOMAIN mapping : t # s => mapping'[t] = mapping[t]
  BY <1>3
<1>5. CreatorsSound /\ CreatorSound(client[k]) /\ client[k].stage = "map"
  BY <1>3, CreatorIs DEF ObjectRowsSound, At
<1>6. /\ d = [stage |-> "map", stream |-> s, object |-> o, cap |-> d.cap]
      /\ s \in Stream \ streams.deleted /\ o \in Owned(Wallet, "MemoryStream")
      /\ \A t \in DOMAIN mapping : mapping[t] # o
      /\ d.cap \in Objects("Capability") /\ objects[d.cap].target = o
      /\ objects[d.cap].verbs = CAP_ALL /\ objects[d.cap].until = 0
      /\ objects[d.cap].owner \in {Wallet, Destroyed}
  BY <1>1, <1>5 DEF CreatorSound, NoStream
<1>7. s \notin DOMAIN mapping
  BY <1>1, <1>5 DEF ObjectRowsSound, NotYetMapped
<1>8. client' = [client EXCEPT ![k] = c]
  <2>1. [d EXCEPT !.stage = "cap"] = c
    BY <1>2, <1>6
  <2> QED
    BY <1>1, <1>3, <2>1
<1>9. Stream' = Stream /\ \A w, kind : Owned(w, kind)' = Owned(w, kind) /\ Objects(kind)' = Objects(kind)
  BY <1>3 DEF Stream, Owned, Objects
<1>10. /\ c.stage = "cap" /\ c.stream = s /\ c.object = o /\ c.cap = d.cap
       /\ c = [stage |-> c.stage, stream |-> c.stream, object |-> c.object, cap |-> c.cap]
  BY <1>2
<1>11. CreatorSound(c)'
  BY <1>3, <1>4, <1>6, <1>9, <1>10 DEF CreatorSound
<1>12. ASSUME NEW l \in Clients, l # k, NEW e \in {client[l]} PROVE CreatorSound(e)'
  <2>1. CreatorSound(e)
    BY <1>5, <1>12 DEF CreatorsSound
  <2>2. /\ e # NoStream => e.stream # s
        /\ e.stage \in {"map", "cap"} => e.object # o
    <3>1. e # NoStream => ~At(l, "idle")
      BY <1>5, <1>12, CreatorIs
    <3>2. ~At(k, "idle")
      BY <1>3 DEF At
    <3> QED
      BY <1>1, <1>5, <1>12, <3>1, <3>2 DEF ObjectRowsSound, CreatorsApart
  <2>3. NoStream.stage = "idle"
    BY DEF NoStream
  <2> QED
    BY <1>3, <1>4, <1>9, <2>1, <2>2, <2>3 DEF CreatorSound
<1>13. /\ CreatorsSound' /\ client'[k] = c
       /\ \A l \in Clients : l # k => client'[l] = client[l]
  BY <1>5, <1>8, <1>11, <1>12, OneCreator
<1>14. OwnObject'
  BY <1>3, <1>4, <1>6, <1>9 DEF ObjectRowsSound, OwnObject
<1>15. CapabilityRowsTrue' /\ StreamCounts'
  BY <1>3, <1>9 DEF ObjectRowsSound, CapabilityRowsTrue, PermissionsPage, StreamCounts
<1>16. CreatorsApart'
  BY <1>1, <1>5, <1>10, <1>13 DEF ObjectRowsSound, CreatorsApart, At
<1>17. NotYetMapped'
  <2>1. \A l \in Clients : l # k /\ client[l].stage \in {"send", "map"} => client[l].stream # s
    BY <1>1, <1>5 DEF ObjectRowsSound, CreatorsApart, At
  <2> QED
    BY <1>4, <1>10, <1>13, <2>1 DEF ObjectRowsSound, NotYetMapped
<1>18. LockedByTear'
  <2>1. \A t \in DOMAIN mapping : t # s => (Granted(t)' <=> Granted(t))
    BY <1>3, <1>4 DEF Granted
  <2> QED
    BY <1>3, <1>4, <1>5, <1>7, <1>10, <1>13, <2>1 DEF ObjectRowsSound, LockedByTear, At
<1> QED
  BY <1>13, <1>14, <1>15, <1>16, <1>17, <1>18 DEF ObjectRowsSound

LEMMA SaveCapabilityKeeps ==
  ASSUME ObjectRowsSound, Grows, NEW k \in Clients, SaveCapability(k)
  PROVE  ObjectRowsSound'
<1>1. PICK d, c : d = client[k] /\ c = NoStream
  OBVIOUS
<1>2. PICK r : r = [id |-> d.cap, target |-> d.object, verbs |-> CAP_ALL, until |-> 0]
  OBVIOUS
<1>3. /\ At(k, "cap") /\ streams' = streams /\ mapping' = mapping /\ torn' = torn
      /\ objects' = objects /\ caps' = caps \cup {r} /\ client' = [client EXCEPT ![k] = c]
  BY <1>1, <1>2 DEF SaveCapability, Goes, chainVars
<1>4. CreatorsSound /\ CreatorSound(d) /\ d.stage = "cap" /\ c.stage = "idle"
  BY <1>1, <1>3, CreatorIs DEF ObjectRowsSound, At, NoStream
<1>5. /\ r.id \in Objects("Capability") /\ objects[r.id].target = r.target
      /\ objects[r.id].verbs = r.verbs /\ objects[r.id].until = r.until
      /\ objects[r.id].owner \in {Wallet, Destroyed}
      /\ d.stream \in DOMAIN mapping /\ mapping[d.stream] = d.object
  BY <1>2, <1>4 DEF CreatorSound, NoStream
<1>6. streams'.made \in Nat /\ streams'.made >= streams.made /\ StreamCounts'
  BY <1>3 DEF ObjectRowsSound, StreamCounts, Stream
<1>7. /\ OwnObject' /\ \A e : CreatorSound(e) => CreatorSound(e)'
      /\ \A s : Granted(s) => Granted(s)'
  BY <1>3, <1>6, ObjectRowsStay
<1>8. CapabilityRowsTrue'
  BY <1>3, <1>5 DEF ObjectRowsSound, CapabilityRowsTrue, PermissionsPage, Objects
<1>9. /\ CreatorsSound' /\ client'[k] = c
      /\ \A l \in Clients : l # k => client'[l] = client[l]
  <2>1. \A l \in Clients : l # k => \A e \in {client[l]} : CreatorSound(e)'
    BY <1>4, <1>7 DEF CreatorsSound
  <2>2. CreatorSound(c)'
    BY <1>1, NoCreator
  <2> QED
    BY <1>3, <1>4, <2>1, <2>2, OneCreator
<1>10. CreatorsApart' /\ NotYetMapped'
  BY <1>3, <1>4, <1>9 DEF ObjectRowsSound, CreatorsApart, NotYetMapped, At
<1>11. PICK s : s = d.stream
  OBVIOUS
<1>12. Granted(s)'
  <2>1. r.target = mapping'[s] /\ CAP_WRITE \in r.verbs /\ r.until = 0 /\ r \in caps'
    BY <1>2, <1>3, <1>5, <1>11 DEF CAP_WRITE, CAP_ALL
  <2> QED
    BY <2>1 DEF Granted
<1>13. LockedByTear'
  BY <1>1, <1>3, <1>4, <1>7, <1>9, <1>11, <1>12 DEF ObjectRowsSound, LockedByTear, At
<1> QED
  BY <1>6, <1>7, <1>8, <1>9, <1>10, <1>13 DEF ObjectRowsSound

LEMMA DeleteStreamRowKeeps ==
  ASSUME ObjectRowsSound, NEW k \in Clients, DeleteStreamRow(k)
  PROVE  ObjectRowsSound'
<1>1. PICK s \in Stream \ streams.deleted :
        /\ \A l \in Clients : ~At(l, "idle") => client[l].stream # s
        /\ streams' = [streams EXCEPT !.deleted = @ \cup {s}]
        /\ mapping' = Restrict(mapping, DOMAIN mapping \ {s})
  BY DEF DeleteStreamRow
<1>2. caps' = caps /\ client' = client /\ torn' = torn /\ objects' = objects
  BY DEF DeleteStreamRow, chainVars
<1>3. /\ DOMAIN mapping' = DOMAIN mapping \ {s}
      /\ \A t \in DOMAIN mapping' : mapping'[t] = mapping[t]
  BY <1>1 DEF Restrict
<1>4. /\ streams'.made = streams.made /\ streams'.deleted = streams.deleted \cup {s}
      /\ streams' = [made |-> streams'.made, deleted |-> streams'.deleted]
  BY <1>1 DEF ObjectRowsSound, StreamCounts
<1>5. Stream' = Stream /\ \A w, kind : Owned(w, kind)' = Owned(w, kind) /\ Objects(kind)' = Objects(kind)
  BY <1>2, <1>4 DEF Stream, Owned, Objects
<1>6. StreamCounts' /\ OwnObject' /\ CapabilityRowsTrue'
  <2>1. streams'.made \in Nat /\ streams'.deleted \subseteq Stream'
    BY <1>1, <1>4, <1>5 DEF ObjectRowsSound, StreamCounts
  <2>2. StreamCounts'
    BY <1>4, <2>1 DEF StreamCounts
  <2>3. OwnObject'
    BY <1>3, <1>4, <1>5 DEF ObjectRowsSound, OwnObject
  <2>4. CapabilityRowsTrue'
    BY <1>2, <1>5 DEF ObjectRowsSound, CapabilityRowsTrue, PermissionsPage
  <2> QED
    BY <2>2, <2>3, <2>4
<1>7. CreatorsSound'
  <2>1. SUFFICES ASSUME NEW l \in Clients, NEW c \in {client[l]} PROVE CreatorSound(c)'
    BY <1>2 DEF ObjectRowsSound, CreatorsSound
  <2>2. CreatorSound(c) /\ (c # NoStream => c.stream # s)
    BY <1>1, <2>1, CreatorIs DEF ObjectRowsSound
  <2> QED
    BY <1>2, <1>3, <1>4, <1>5, <2>2 DEF CreatorSound
<1>8. CreatorsApart' /\ NotYetMapped'
  BY <1>2, <1>3 DEF ObjectRowsSound, CreatorsApart, NotYetMapped, At
<1>9. LockedByTear'
  BY <1>2, <1>3 DEF ObjectRowsSound, LockedByTear, Granted, At
<1> QED
  BY <1>6, <1>7, <1>8, <1>9 DEF ObjectRowsSound

\* Whatever the step.
LEMMA ObjectRowsKept ==
  ASSUME ChainInv, ObjectRowsSound, [Next]_vars
  PROVE  ObjectRowsSound'
<1>1. Grows /\ ObjectTypes
  BY ChainKept DEF ChainInv, ChainTypes
<1>2. CASE UNCHANGED objectVars
  BY <1>1, <1>2, FileStands DEF objectVars
<1>3. CASE AdapterCall \/ Others
  BY <1>1, <1>3, FileStands DEF AdapterCall, Others
<1>4. ASSUME NEW k \in Clients,
             \/ CommitRow(k) \/ CommitLocalRow(k) \/ SendStream(k) \/ SaveMapping(k)
             \/ SaveCapability(k) \/ FailStream(k) \/ DeleteStreamRow(k)
      PROVE  ObjectRowsSound'
  BY <1>1, <1>4, CommitRowKeeps, SendStreamKeeps, SaveMappingKeeps, SaveCapabilityKeeps,
     FailStreamKeeps, DeleteStreamRowKeeps
<1> QED
  BY <1>2, <1>3, <1>4 DEF Next, ObjectsNext, vars

-----------------------------------------------------------------------------
(***************************************************************************)
(* The theorems about the rows and those who read them                     *)
(***************************************************************************)

RowsInv == ChainInv /\ TablesSound /\ CallsSound /\ IdsSound /\ ReadsSound /\ ObjectRowsSound

\* An empty file knows of nothing yet.
LEMMA EmptyFile ==
  ASSUME Init
  PROVE  /\ CallsSound /\ ReadsSound /\ ObjectRowsSound
         /\ GrantsBacked /\ EventsBacked /\ IsSeq(capabilities)
<1>1. /\ streams = [made |-> 0, deleted |-> {}] /\ mapping = <<>> /\ caps = {}
      /\ client = [k \in Clients |-> NoStream]
      /\ call = [p \in Processes |-> Idle] /\ capabilities = <<>> /\ events = {}
  BY DEF Init, ObjectsInit
<1>2. CallsSound
  BY <1>1, IdleSound DEF CallsSound
<1>3. ReadsSound
  BY <1>1 DEF ReadsSound, Idle
<1>4. DOMAIN mapping = {}
  BY <1>1
<1>5. StreamCounts /\ OwnObject /\ NotYetMapped /\ LockedByTear
  BY <1>1, <1>4 DEF StreamCounts, OwnObject, NotYetMapped, LockedByTear
<1>6. CapabilityRowsTrue
  BY <1>1 DEF CapabilityRowsTrue, PermissionsPage
<1>7. CreatorsSound /\ CreatorsApart
  BY <1>1, NoCreator DEF CreatorsSound, CreatorsApart, At, NoStream
<1>8. GrantsBacked /\ EventsBacked /\ IsSeq(capabilities)
  BY <1>1 DEF GrantsBacked, EventsBacked, IsSeq
<1> QED
  BY <1>2, <1>3, <1>5, <1>6, <1>7, <1>8 DEF ObjectRowsSound

\* A new file, or one that knows the wallet's workspace and agent.
LEMMA FirstRows ==
  ASSUME Init
  PROVE  TablesSound
<1>1. CASE named = {}
  BY <1>1, EmptyFile DEF Init, TablesSound, NamedBacked
<1>2. CASE named # {}
  <2>1. /\ Prepared
        /\ named = {[kind |-> "workspace", name |-> objects[1].name, of |-> 0, id |-> 1],
                    [kind |-> "agent", name |-> objects[2].name, of |-> 1, id |-> 2],
                    [kind |-> "stream", name |-> objects[1].name, of |-> 1, id |-> -1]}
    BY <1>2 DEF Init, ObjectsInit, ChainInit
  <2>2. PICK n \in Names :
          objects = <<Workspace(Wallet, n), AgentIdentity(Wallet, 1, n),
                      MemoryStream(Wallet, 2), Capability(Wallet, 3, CAP_ALL, 0)>>
    BY <2>1 DEF Prepared
  <2>3. /\ DOMAIN objects = 1 .. 4 /\ objects[1] = Workspace(Wallet, n)
        /\ objects[2] = AgentIdentity(Wallet, 1, n)
    BY <2>2
  <2>4. /\ 1 \in Owned(Wallet, "Workspace") /\ 2 \in Owned(Wallet, "AgentIdentity")
        /\ objects[1].name = n /\ objects[2].name = n /\ objects[2].workspace = 1
    BY <2>3 DEF Owned, Objects, Workspace, AgentIdentity
  <2>5. named = {[kind |-> "workspace", name |-> n, of |-> 0, id |-> 1],
                 [kind |-> "agent", name |-> n, of |-> 1, id |-> 2],
                 [kind |-> "stream", name |-> n, of |-> 1, id |-> -1]}
    BY <2>1, <2>4
  <2>6. NamedBacked
    BY <2>4, <2>5 DEF NamedBacked
  <2>7. \A g, h \in named : g.kind = h.kind /\ g.name = h.name /\ g.of = h.of => g = h
    BY <2>5
  <2> QED
    BY <2>6, <2>7, EmptyFile DEF Init, TablesSound
<1> QED
  BY <1>1, <1>2

\* No publish yet.
LEMMA FirstIds ==
  ASSUME Init
  PROVE  IdsSound
<1>1. /\ call = [p \in Processes |-> Idle] /\ events = {} /\ late = {} /\ returned = {}
      /\ ticks \in {0, 1}
  BY DEF Init
<1>2. \A p \in Processes : ~Publishing(p)
  BY <1>1 DEF Publishing, Idle
<1>3. PublishRows = {}
  BY <1>1, <1>2 DEF PublishRows
<1>4. Anchored = {}
  <2>1. CASE Prepared
    BY <2>1 DEF Prepared, Anchored, Told
  <2>2. CASE ChainInit
    BY <2>2 DEF ChainInit, Anchored, Told
  <2> QED
    BY <2>1, <2>2 DEF Init, ObjectsInit
<1> QED
  BY <1>1, <1>2, <1>3, <1>4 DEF IdsSound

\* The chain and the rows stay sound together.
LEMMA RowsStaySound == Spec => []RowsInv
<1>1. Init => RowsInv
  BY EmptyFile, FirstRows, FirstIds, EmptyChain, PreparedChain DEF Init, ObjectsInit, RowsInv
<1>2. RowsInv /\ [Next]_vars => RowsInv'
  BY ChainKept, TablesKept, IdsKept, ReadsKept, ObjectRowsKept DEF RowsInv
<1> QED
  BY <1>1, <1>2, PTL DEF Spec

\* Every row of the two files tells of what is on the chain and says the same of
\* it, whatever timed out, failed or died between the transaction and the row;
\* and the chain alone finds the events of a workspace: live.py's tables and the
\* mapping and capability rows of adapters/sui.py.
THEOREM RowsStayBacked == Spec => []RowsBacked
<1>1. RowsInv => RowsBacked
  BY RowsAreFound DEF RowsInv, RowsBacked, ObjectRowsSound, TablesSound
<1> QED
  BY <1>1, RowsStaySound, PTL

\* All who asked for one workspace, agent or stream got the same object: the
\* get-or-create methods of live.py, at the primary keys of its tables.
THEOREM HandlesAgree == Spec => []OneHandle
<1>1. RowsInv => OneHandle
  BY DEF RowsInv, TablesSound, OneHandle
<1> QED
  BY <1>1, RowsStaySound, PTL

\* A read that succeeds has every publish that had returned before it began,
\* oldest first: Agent.read of live.py over the events table and expiring blobs.
THEOREM ReadsArePublished == Spec => []PublishedIsRead
<1>1. ASSUME RowsInv PROVE PublishedIsRead
  <2>1. SUFFICES ASSUME NEW p \in Processes, InCall(p, {"read"}, "answered"), NEW c, c = call[p]
                 PROVE  /\ \A e \in events : e.stream = c.stream /\ e.id \in c.before => e \in ToSet(c.got)
                        /\ \A i, j \in DOMAIN c.got : i < j => c.got[i].id < c.got[j].id
    BY DEF PublishedIsRead
  <2>2. ReadSound(c) /\ c.stage = "answered"
    BY <1>1, <2>1 DEF RowsInv, ReadsSound, InCall
  <2> QED
    BY <2>2 DEF ReadSound, ToSet
<1> QED
  BY <1>1, RowsStaySound, PTL

\* A stream refuses its own agent only while, or because, its creator is or was
\* torn between the mapping's commit and the capability's: SuiLedgerAdapter's
\* create_stream and the check of the agent client.
THEOREM LocksAreTorn == Spec => []LockedOnlyByTear
<1>1. RowsInv => LockedOnlyByTear
  BY DEF RowsInv, ObjectRowsSound, LockedByTear, Granted, LockedOnlyByTear, MayWrite, CapabilitiesFor
<1> QED
  BY <1>1, RowsStaySound, PTL

=============================================================================
