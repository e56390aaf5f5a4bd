------------------------ MODULE AgentLifecycleProofs ------------------------
(***************************************************************************)
(* Proofs about AgentLifecycle, for any number of clients and processes,   *)
(* of operations on them, and of processes that die.                       *)
(*                                                                         *)
(* Sound is inductive by itself.  Upon it rest KeyedSound, of which pair   *)
(* signs; ToldSound, of what clients know; CountSound, of the counter; and *)
(* upon KeyedSound, Agreement of the row with the log.                     *)
(***************************************************************************)
EXTENDS AgentLifecycle, FiniteSetTheorems, WellFoundedInduction, TLAPS

(***************************************************************************)
(* The inductive invariant                                                 *)
(***************************************************************************)

\* What a task appends at each stage: a client its registration, and an
\* operation whatever it was admitted to append.
Staged ==
  /\ clock >= 1
  /\ \A c \in Clients :
       /\ stage[c] \notin {"waiting", "counting", "counted", "rejected"}
       /\ stage[c] \in {"idle", "creating", "keying"} => doing[c] = "none"
       /\ stage[c] \in {"storing", "anchoring"} => doing[c] = "registered"
       /\ envelope[c].key = c
  /\ \A o \in Ops :
       /\ stage[o] \notin {"creating", "keying"}
       /\ stage[o] \in {"idle", "waiting"} => doing[o] = "none"
       /\ stage[o] \in {"storing", "anchoring"} => doing[o] # "none"
       /\ stage[o] \in {"counting", "counted"} => doing[o] = "memory"

\* Nothing speaks for the agent before it has a row.
RowFirst ==
  /\ \A c \in Clients :
       /\ view[c].status \notin {"absent", "dead"} => row # NoIdentity
       /\ view[c].status \in Status => view[c].key \in Tasks
       /\ stage[c] \in {"keying", "storing", "anchoring", "ok"} => row # NoIdentity
  /\ \A o \in Ops : stage[o] # "idle" => row # NoIdentity
  /\ log # {} \/ key # Nobody => row # NoIdentity

\* No two events are stamped with the same time.
Stamped ==
  /\ \A e \in log : e.ts < clock
  /\ \A e, f \in log : e.ts = f.ts => e = f
  /\ \A x \in Tasks : stage[x] = "anchoring" =>
       /\ 1 <= link[x].ts /\ link[x].ts < clock
       /\ \A e \in log : e.ts # link[x].ts
       /\ \A y \in Tasks \ {x} : stage[y] = "anchoring" => link[x].ts # link[y].ts

\* What the theorems below take for granted of every state.
Sound == TypeOK /\ Staged /\ RowFirst /\ Stamped

\* Unless the registration was torn, one key pair is made while there is no row,
\* and it is the row's that is stored and signs.
KeyedSound == ~torn =>
  /\ key \in {Nobody, row.key}
  /\ \A c \in Clients : stage[c] = "creating" => row = NoIdentity
  /\ \A c \in Clients : stage[c] = "keying" => row.key = c
  /\ \A c, d \in Constructing : c = d
  /\ \A x \in Tasks : envelope[x].signed \in {Nobody, row.key}
  /\ \A e \in log : e.signed \in {Nobody, row.key}

Stopped == {"paused", "terminated"}

\* A client told that the agent has stopped has a view that says so too, or has
\* a status event of its own to wait for; and the log still says it.
ToldSound ==
  /\ \A c \in Clients : told[c] \in Stopped =>
       /\ view[c].status # "absent"
       /\ view[c].status = "active" => pending[c] # {}
       /\ ReplayAgent.status \in Stopped
  /\ StaleUntilRefresh

\* The memories whose write has returned.
Returned == {e \in Memories : stage[e.by] = "ok"}

OneProcess == \A e, f \in Memories : Process(e.by) = Process(f.by)

\* Each write has one memory, from its commit on, and what it read of the
\* counter is no more than the writes that have returned.  Only one task of a
\* process is between two commits, so that one process alone counts exactly.
CountSound ==
  /\ IsFiniteSet(log)
  /\ \A e \in Memories : e.by \in Ops /\ stage[e.by] \in {"counting", "counted", "ok", "lost"}
  /\ \A e, f \in Memories : e.by = f.by => e = f
  /\ \A o \in Ops : stage[o] \in {"counting", "counted"} => \E e \in Memories : e.by = o
  /\ counter <= Cardinality(Returned)
  /\ \A o \in Ops : stage[o] = "counted" => local[o] <= Cardinality(Returned)
  /\ \A x, y \in Tasks : x # y /\ Process(x) = Process(y) =>
                           ~(stage[x] \in Synchronous /\ stage[y] \in Synchronous)
  /\ OneProcess => /\ Cardinality(Returned) <= counter
                   /\ \A o \in Ops : stage[o] = "counted" => local[o] = counter

Registrations == {e \in log : e.kind = "registered"}
Changes == {e \in log : e.kind \in Status}

Last(e, evs) == e \in evs /\ \A f \in evs : f.ts <= e.ts

\* While no status change overlaps another or is lost, a change has the agent
\* to itself and comes after all that the log says of it; a registration is
\* under way only while there has been no change.
ChangesSound == ~muddled =>
  /\ row # NoIdentity => \/ Registrations # {}
                         \/ \E c \in Clients \cap Changing : stage[c] # "creating"
  /\ \A e \in Registrations, f \in Changes : e.ts < f.ts
  /\ Clients \cap Changing # {} => Changes = {} /\ row.status \in {"active", "none"}
  /\ \A o \in Ops \cap Changing :
       /\ doing[o] # "registered"
       /\ Changing = {o}
       /\ Registrations # {}
       /\ row.status = doing[o]
       /\ stage[o] = "anchoring" =>
            \A e \in Registrations \cup Changes : e.ts < link[o].ts
  /\ Changing = {} /\ row # NoIdentity =>
       /\ Changes = {} => row.status = "active"
       /\ \A e : Last(e, Changes) => row.status = e.kind

\* Unless the registration was torn, it is of the key pair of the row.
RegisteredSound == ~muddled /\ ~torn =>
  /\ \A e \in Registrations : e.key = row.key
  /\ \A c \in Clients \cap Changing : stage[c] # "creating" => row.key = c


-----------------------------------------------------------------------------
(***************************************************************************)
(* What a replay makes of the log                                          *)
(***************************************************************************)

\* A set of numbers that is not empty has a least element.
LEMMA LeastNumber ==
  ASSUME NEW S \in SUBSET Nat, S # {}
  PROVE  \E n \in S : \A m \in S : n <= m
<1>1. \E n \in S : \A m \in S : ~(<<m, n>> \in OpToRel(<, Nat))
  BY NatLessThanWellFounded, WFMin, Zenon
<1>2. PICK n \in S : \A m \in S : ~(<<m, n>> \in OpToRel(<, Nat))
  BY <1>1
<1>3. ASSUME NEW m \in S PROVE n <= m
  <2>1. ~(m < n)
    BY <1>2 DEF OpToRel
  <2>2. QED
    BY <2>1
<1>4. QED
  BY <1>3

\* Events that there are have an earliest.
LEMMA EarliestIsFirst ==
  ASSUME NEW evs \in SUBSET Event, evs # {}
  PROVE  Earliest(evs) \in evs /\ \A f \in evs : Earliest(evs).ts <= f.ts
<1>1. {e.ts : e \in evs} \in SUBSET Nat /\ {e.ts : e \in evs} # {}
  BY DEF Event
<1>2. \E n \in {e.ts : e \in evs} : \A m \in {e.ts : e \in evs} : n <= m
  BY <1>1, LeastNumber
<1>3. \E e \in evs : \A f \in evs : e.ts <= f.ts
  BY <1>2
<1>4. QED
  BY <1>3 DEF Earliest

\* Events that there are have a latest, as their timestamps are past.
LEMMA LatestIsLast ==
  ASSUME NEW evs \in SUBSET Event, evs # {}, NEW n \in Nat, \A e \in evs : e.ts < n
  PROVE  Last(Latest(evs), evs)
<1>1. {n - e.ts : e \in evs} \in SUBSET Nat /\ {n - e.ts : e \in evs} # {}
  BY DEF Event
<1>2. \E m \in {n - e.ts : e \in evs} : \A k \in {n - e.ts : e \in evs} : m <= k
  BY <1>1, LeastNumber
<1>3. \E e \in evs : \A f \in evs : f.ts <= e.ts
  <2>1. PICK e \in evs : \A f \in evs : n - e.ts <= n - f.ts
    BY <1>2
  <2>2. \A f \in evs : f.ts <= e.ts
    BY <2>1 DEF Event
  <2>3. QED
    BY <2>2
<1>4. QED
  BY <1>3 DEF Latest, Last

\* The identity a replay gives: none without a registration; else the key of
\* the first, and the status of the last change that follows it.
LEMMA ProjectionIs ==
  ASSUME NEW evs \in SUBSET Event, NEW n \in Nat, \A e \in evs : e.ts < n
  PROVE  \/ /\ \A e \in evs : e.kind # "registered"
            /\ Projection(evs) = NoIdentity
         \/ \E first \in evs :
              /\ first.kind = "registered"
              /\ \A e \in evs : e.kind = "registered" => first.ts <= e.ts
              /\ Projection(evs) \in Identity
              /\ Projection(evs).key = first.key
              /\ \/ /\ Projection(evs).status = "active"
                    /\ \A e \in evs : e.kind \in Status => e.ts <= first.ts
                 \/ \E e \in evs :
                      /\ e.kind \in Status /\ first.ts < e.ts
                      /\ Projection(evs).status = e.kind
                      /\ \A f \in evs : f.kind \in Status => f.ts <= e.ts
<1> DEFINE registrations == {e \in evs : e.kind = "registered"}
           first == Earliest(registrations)
           changes == {e \in evs : e.kind \in Status /\ e.ts > first.ts}
<1>1. CASE registrations = {}
  BY <1>1 DEF Projection
<1>2. CASE registrations # {}
  <2>1. first \in registrations /\ \A f \in registrations : first.ts <= f.ts
    BY <1>2, EarliestIsFirst
  <2>2. Projection(evs) = [status |-> IF changes = {} THEN "active" ELSE Latest(changes).kind,
                           key |-> first.key]
    BY <1>2 DEF Projection
  <2>3. changes # {} => Last(Latest(changes), changes)
    BY LatestIsLast
  <2> HIDE DEF first
  <2>4. /\ changes = {} => Projection(evs).status = "active"
        /\ changes # {} => Projection(evs).status = Latest(changes).kind
        /\ Projection(evs).key = first.key
    BY <2>2
  <2>5. \A e, f \in evs : e.ts \in Nat /\ (e.ts <= f.ts \/ f.ts < e.ts)
    BY DEF Event
  <2>6. Projection(evs) \in Identity
    BY <2>1, <2>2, <2>3 DEF Identity, Event, Last, Status
  <2>7. CASE changes = {}
    BY <2>1, <2>4, <2>5, <2>6, <2>7
  <2>8. CASE changes # {}
    <3>1. PICK e \in changes : Last(e, changes) /\ Projection(evs).status = e.kind
      BY <2>3, <2>4, <2>8 DEF Last
    <3>2. \A f \in evs : f.kind \in Status => f.ts <= e.ts
      BY <2>1, <3>1 DEF Last, Event
    <3>3. QED
      BY <2>1, <2>4, <2>6, <3>1, <3>2
  <2>9. QED
    BY <2>7, <2>8
<1>3. QED
  BY <1>1, <1>2

\* A replay of the log gives an identity or none.
LEMMA ReplayTyped ==
  ASSUME log \subseteq Event, clock \in Nat, \A e \in log : e.ts < clock
  PROVE  ReplayAgent \in Identity \cup {NoIdentity}
BY ProjectionIs DEF ReplayAgent

-----------------------------------------------------------------------------
(***************************************************************************)
(* The steps, and what they leave alone                                    *)
(***************************************************************************)

\* An operation is no client, and nobody is either.
LEMMA TasksAre ==
  /\ Tasks = Ops \cup Clients
  /\ \A o \in Ops : o \notin Clients /\ o \in Tasks /\ ClientOf[o] \in Clients
  /\ \A c \in Clients : c \notin Ops /\ c \in Tasks /\ c # Nobody
  /\ \A x \in Tasks : x # Nobody
BY OpsAssumption DEF Tasks

\* What a step can be.
LEMMA Steps ==
  ASSUME [Next]_vars
  PROVE  \/ \E c \in Clients : Construct(c) \/ CreateRow(c) \/ StoreKey(c)
         \/ \E o \in Ops, s \in Status : SetStatus(o, s)
         \/ \E o \in Ops : \/ SetStatusRaises(o) \/ WriteNow(o) \/ WriteWaits(o)
                           \/ Gathered(o) \/ WriteReplays(o) \/ CommitWrite(o)
                           \/ CommitRegistration(o) \/ ReadCounter(o) \/ Finish(o)
         \/ \E x \in Tasks : Prepare(x) \/ Commit(x) \/ Fail(x)
         \/ \E p \in Processes : Crash(p)
         \/ UNCHANGED vars
BY DEF Next, Done

\* The check of a write admits it or not.
LEMMA CheckIs ==
  ASSUME NEW o \in Ops, NEW v, Check(o, v)
  PROVE  \/ /\ v.status = "active"
            /\ stage' = [stage EXCEPT ![o] = "storing"]
            /\ doing' = [doing EXCEPT ![o] = "memory"]
            /\ envelope' = [envelope EXCEPT ![o] = [key |-> v.key, signed |-> key']]
            /\ note' = [note EXCEPT ![o] = told[ClientOf[o]]]
         \/ /\ v.status # "active"
            /\ \E s \in {"failed", "rejected"} : stage' = [stage EXCEPT ![o] = s]
            /\ UNCHANGED <<doing, envelope, note>>
<1>1. CASE v.status = "active"
  BY <1>1 DEF Check, Envelope
<1>2. CASE v.status # "active"
  BY <1>2 DEF Check
<1>3. QED
  BY <1>1, <1>2

\* What a process that dies takes with it, and what it leaves.
LEMMA CrashIs ==
  ASSUME TypeOK, NEW p \in Processes, Crash(p)
  PROVE  /\ stage' \in [Tasks -> Stage] /\ doing' \in [Tasks -> Kind \cup {"none"}]
         /\ link' \in [Tasks -> [prev : Nat, ts : Nat]]
         /\ envelope' \in [Tasks -> [key : Tasks, signed : Tasks \cup {Nobody}]]
         /\ local' \in [Ops -> Nat] /\ awaited' \in [Ops -> SUBSET Tasks]
         /\ pending' \in [Clients -> SUBSET Tasks]
         /\ view' \in [Clients -> [status : Status \cup {"none", "absent", "dead"},
                                   key : Tasks \cup {Nobody}]]
         /\ faults' = faults + 1 /\ faults' <= MaxFaults
         /\ UNCHANGED <<row, key, counter, log, clock, told, note>>
         /\ \A x \in Tasks : Process(x) # p =>
              /\ stage'[x] = stage[x] /\ doing'[x] = doing[x]
              /\ link'[x] = link[x] /\ envelope'[x] = envelope[x]
         /\ \A x \in Tasks : Process(x) = p =>
              /\ stage'[x] = IF stage[x] \in InFlight THEN "lost" ELSE stage[x]
              /\ doing'[x] = "none" /\ envelope'[x] = [key |-> x, signed |-> Nobody]
         /\ \A o \in Ops : Process(o) # p => local'[o] = local[o]
         /\ \A c \in Clients : ProcessOf[c] = p => view'[c] = [status |-> "dead", key |-> Nobody]
         /\ \A c \in Clients : ProcessOf[c] # p =>
              view'[c] = view[c] /\ pending'[c] = pending[c]
         /\ muddled' \in BOOLEAN /\ torn' \in BOOLEAN
         /\ (muddled => muddled') /\ (torn => torn')
         /\ \A x \in Tasks : Process(x) = p /\ stage[x] \in InFlight =>
              /\ x \in Changing => muddled'
              /\ x \in Constructing => torn'
<1>1. /\ \A c \in Clients : c \in Tasks /\ Process(c) = ProcessOf[c]
      /\ \A o \in Ops : o \in Tasks
  BY TasksAre DEF Process, Owner
<1>2. /\ stage' = [x \in Tasks |-> IF Process(x) = p /\ stage[x] \in InFlight
                                   THEN "lost" ELSE stage[x]]
      /\ doing' = [x \in Tasks |-> IF Process(x) = p THEN "none" ELSE doing[x]]
      /\ link' = [x \in Tasks |-> IF Process(x) = p THEN [prev |-> 0, ts |-> 0] ELSE link[x]]
  BY DEF Crash, TypeOK, Blank
<1>3. /\ envelope' = [x \in Tasks |-> IF Process(x) = p THEN [key |-> x, signed |-> Nobody]
                                      ELSE envelope[x]]
      /\ local' = [x \in Ops |-> IF Process(x) = p THEN 0 ELSE local[x]]
      /\ awaited' = [x \in Ops |-> IF Process(x) = p THEN {} ELSE awaited[x]]
  BY DEF Crash, TypeOK, Blank
<1>4. /\ pending' = [x \in Clients |-> IF Process(x) = p THEN {} ELSE pending[x]]
      /\ view' = [x \in Clients |-> IF Process(x) = p THEN [status |-> "dead", key |-> Nobody]
                                    ELSE view[x]]
  BY DEF Crash, TypeOK, Blank
<1>5. /\ faults' = faults + 1 /\ faults' <= MaxFaults
      /\ UNCHANGED <<row, key, counter, log, clock, told, note>>
      /\ muddled' \in BOOLEAN /\ torn' \in BOOLEAN
  BY OpsAssumption DEF Crash, tables, TypeOK
<1>6. /\ (muddled => muddled') /\ (torn => torn')
      /\ \A x \in Tasks : Process(x) = p /\ stage[x] \in InFlight =>
           /\ x \in Changing => muddled'
           /\ x \in Constructing => torn'
  BY DEF Crash, TypeOK
<1>7. stage' \in [Tasks -> Stage] /\ doing' \in [Tasks -> Kind \cup {"none"}]
  BY <1>2 DEF TypeOK, Stage
<1>8. link' \in [Tasks -> [prev : Nat, ts : Nat]]
  BY <1>2 DEF TypeOK
<1>9. envelope' \in [Tasks -> [key : Tasks, signed : Tasks \cup {Nobody}]]
  BY <1>3 DEF TypeOK
<1>10. local' \in [Ops -> Nat] /\ awaited' \in [Ops -> SUBSET Tasks]
  BY <1>3 DEF TypeOK
<1>11. /\ pending' \in [Clients -> SUBSET Tasks]
       /\ view' \in [Clients -> [status : Status \cup {"none", "absent", "dead"},
                                 key : Tasks \cup {Nobody}]]
  BY <1>4 DEF TypeOK
<1>12. QED
  BY <1>1, <1>2, <1>3, <1>4, <1>5, <1>6, <1>7, <1>8, <1>9, <1>10, <1>11

-----------------------------------------------------------------------------
(***************************************************************************)
(* The types, and what a task appends                                      *)
(***************************************************************************)

\* The stages of the three constructors.
LEMMA StagesAre ==
  /\ Stage = {"idle", "creating", "keying", "waiting", "storing", "anchoring", "counting",
              "counted", "ok", "rejected", "failed", "lost"}
  /\ InFlight = {"creating", "keying", "counting", "counted", "waiting", "storing", "anchoring"}
  /\ Synchronous = {"creating", "keying", "counting", "counted"}
BY DEF Stage, InFlight, Synchronous

\* A check of a typed view keeps the types.
LEMMA CheckTyped ==
  ASSUME TypeOK, NEW o \in Ops, key' \in Tasks \cup {Nobody},
         NEW v, v.status \in Status => v.key \in Tasks, Check(o, v)
  PROVE  /\ stage' \in [Tasks -> Stage]
         /\ doing' \in [Tasks -> Kind \cup {"none"}]
         /\ envelope' \in [Tasks -> [key : Tasks, signed : Tasks \cup {Nobody}]]
         /\ note' \in [Ops -> Status \cup {"none"}]
<1>1. CASE /\ v.status = "active"
           /\ stage' = [stage EXCEPT ![o] = "storing"]
           /\ doing' = [doing EXCEPT ![o] = "memory"]
           /\ envelope' = [envelope EXCEPT ![o] = [key |-> v.key, signed |-> key']]
           /\ note' = [note EXCEPT ![o] = told[ClientOf[o]]]
  <2>1. v.key \in Tasks
    BY <1>1 DEF Status
  <2>2. stage' \in [Tasks -> Stage] /\ doing' \in [Tasks -> Kind \cup {"none"}]
    BY <1>1 DEF TypeOK, Stage, Kind
  <2>3. envelope' \in [Tasks -> [key : Tasks, signed : Tasks \cup {Nobody}]]
    <3>1. [key |-> v.key, signed |-> key'] \in [key : Tasks, signed : Tasks \cup {Nobody}]
      BY <2>1
    <3>2. QED
      BY <1>1, <3>1 DEF TypeOK
  <2>4. note' \in [Ops -> Status \cup {"none"}]
    BY <1>1, TasksAre DEF TypeOK
  <2>5. QED
    BY <2>2, <2>3, <2>4
<1>2. CASE /\ v.status # "active"
           /\ \E s \in {"failed", "rejected"} : stage' = [stage EXCEPT ![o] = s]
           /\ UNCHANGED <<doing, envelope, note>>
  BY <1>2 DEF TypeOK, Stage
<1>3. QED
  BY <1>1, <1>2, CheckIs

\* The event a task is ready to commit is one, and is stamped by no other.
LEMMA EventTyped ==
  ASSUME TypeOK, Staged, Stamped, NEW x \in Tasks, stage[x] = "anchoring"
  PROVE  /\ EventOf(x) \in Event
         /\ EventOf(x).kind = doing[x] /\ doing[x] \in Kind
         /\ EventOf(x).by = x /\ EventOf(x).ts = link[x].ts
         /\ EventOf(x).key = envelope[x].key /\ EventOf(x).signed = envelope[x].signed
         /\ EventOf(x).ts < clock /\ \A e \in log : e.ts # EventOf(x).ts
<1>1. doing[x] \in Kind
  BY TasksAre DEF TypeOK, Staged, Kind
<1>2. /\ link[x].prev \in Nat /\ link[x].ts \in Nat /\ link[x].ts # 0
      /\ envelope[x].key \in Tasks /\ envelope[x].signed \in Tasks \cup {Nobody}
  BY DEF TypeOK, Stamped
<1>3. EventOf(x) \in Event
  BY <1>1, <1>2 DEF EventOf, Event
<1>4. link[x].ts < clock /\ \A e \in log : e.ts # link[x].ts
  BY DEF Stamped
<1>5. QED
  BY <1>1, <1>3, <1>4 DEF EventOf

\* The log with the event of a registration in it still replays to an identity.
LEMMA ReplayTypedNext ==
  ASSUME TypeOK, Staged, Stamped, NEW o \in Ops, CommitRegistration(o)
  PROVE  ReplayAgent' \in Identity \cup {NoIdentity}
<1>1. /\ log' = log \cup {EventOf(o)} /\ clock' = clock
      /\ stage[o] = "anchoring"
  BY DEF CommitRegistration
<1>2. log' \subseteq Event /\ clock' \in Nat /\ \A e \in log' : e.ts < clock'
  BY <1>1, EventTyped, TasksAre DEF TypeOK, Stamped
<1>3. Projection(log') \in Identity \cup {NoIdentity}
  BY <1>2, ProjectionIs
<1>4. QED
  BY <1>3 DEF ReplayAgent

\* An identity, as a view.
LEMMA IdentityIsView ==
  ASSUME NEW v \in Identity \cup {NoIdentity}
  PROVE  /\ v \in [status : Status \cup {"none", "absent", "dead"}, key : Tasks \cup {Nobody}]
         /\ v.status \in Status \cup {"none"}
         /\ v.status \in Status => v.key \in Tasks
         /\ v.status = "none" => v = NoIdentity
BY DEF Identity, NoIdentity, Status

\* A client that has an identity has it from a row or a log that has one.
LEMMA ViewTyped ==
  ASSUME TypeOK, NEW c \in Clients, NEW v \in Identity \cup {NoIdentity}
  PROVE  [view EXCEPT ![c] = v] \in
           [Clients -> [status : Status \cup {"none", "absent", "dead"}, key : Tasks \cup {Nobody}]]
BY IdentityIsView DEF TypeOK

\* The two ways of create_agent_identity.
LEMMA CreateRowIs ==
  ASSUME TypeOK, NEW c \in Clients, CreateRow(c)
  PROVE  \/ /\ stage' = [stage EXCEPT ![c] = "keying"]
            /\ \/ row = NoIdentity /\ row' = [status |-> "active", key |-> c] /\ row' \in Identity
               \/ row # NoIdentity /\ row' = row
            /\ view' = view
         \/ /\ stage' = [stage EXCEPT ![c] = "failed"]
            /\ row # NoIdentity /\ row' = row
            /\ \A d \in Clients \ {c} : view'[d] = view[d]
            /\ view'[c] = [status |-> "dead", key |-> view[c].key]
            /\ view' \in [Clients -> [status : Status \cup {"none", "absent", "dead"},
                                      key : Tasks \cup {Nobody}]]
<1>1. CASE /\ row' = IF row = NoIdentity THEN [status |-> "active", key |-> c] ELSE row
           /\ stage' = [stage EXCEPT ![c] = "keying"]
           /\ UNCHANGED view
  <2>1. [status |-> "active", key |-> c] \in Identity
    BY TasksAre DEF Identity, Status
  <2>2. QED
    BY <1>1, <2>1
<1>2. CASE /\ row # NoIdentity
           /\ view' = [view EXCEPT ![c].status = "dead"]
           /\ stage' = [stage EXCEPT ![c] = "failed"]
           /\ UNCHANGED row
  <2>1. view' \in [Clients -> [status : Status \cup {"none", "absent", "dead"},
                               key : Tasks \cup {Nobody}]]
    BY <1>2 DEF TypeOK
  <2>2. /\ \A d \in Clients \ {c} : view'[d] = view[d]
        /\ view'[c] = [status |-> "dead", key |-> view[c].key]
    BY <1>2 DEF TypeOK
  <2>3. QED
    BY <1>2, <2>1, <2>2
<1>3. QED
  BY <1>1, <1>2 DEF CreateRow

\* Type correctness, given what tasks append and when a row is there.
LEMMA TypeKept ==
  ASSUME Sound, [Next]_vars
  PROVE  TypeOK'
<1> USE DEF Sound
<1>1. ASSUME NEW c \in Clients, Construct(c) PROVE TypeOK'
  <2>1. stage' \in [Tasks -> Stage] /\ torn' \in BOOLEAN
    BY <1>1, TasksAre DEF Construct, TypeOK, Stage
  <2>2. view' \in [Clients -> [status : Status \cup {"none", "absent", "dead"},
                               key : Tasks \cup {Nobody}]]
    BY <1>1, ViewTyped DEF Construct, TypeOK
  <2>3. QED
    BY <1>1, <2>1, <2>2 DEF Construct, tables, TypeOK
<1>2. ASSUME NEW c \in Clients, CreateRow(c) PROVE TypeOK'
  <2>1. stage' \in [Tasks -> Stage]
    BY <1>2, CreateRowIs, StagesAre DEF TypeOK
  <2>2. /\ row' \in Identity \cup {NoIdentity}
        /\ view' \in [Clients -> [status : Status \cup {"none", "absent", "dead"},
                                  key : Tasks \cup {Nobody}]]
    BY <1>2, CreateRowIs DEF TypeOK
  <2>3. QED
    BY <1>2, <2>1, <2>2 DEF CreateRow, history, TypeOK
<1>3. ASSUME NEW c \in Clients, StoreKey(c) PROVE TypeOK'
  <2>1. stage' \in [Tasks -> Stage] /\ doing' \in [Tasks -> Kind \cup {"none"}]
    BY <1>3, TasksAre DEF StoreKey, TypeOK, Stage, Kind
  <2>2. key' \in Tasks \cup {Nobody} /\ pending' \in [Clients -> SUBSET Tasks]
    BY <1>3, TasksAre DEF StoreKey, Stored, TypeOK
  <2>3. view' \in [Clients -> [status : Status \cup {"none", "absent", "dead"},
                               key : Tasks \cup {Nobody}]]
    <3>1. [status |-> "active", key |-> c] \in Identity
      BY TasksAre DEF Identity, Status
    <3>2. QED
      BY <1>3, <3>1, ViewTyped DEF StoreKey
  <2>4. QED
    BY <1>3, <2>1, <2>2, <2>3 DEF StoreKey, history, TypeOK
<1>4. ASSUME NEW o \in Ops, NEW s \in Status, SetStatus(o, s) PROVE TypeOK'
  <2>1. row # NoIdentity
    BY <1>4, TasksAre DEF SetStatus, Entered, RowFirst
  <2>2. row' \in Identity
    BY <1>4, <2>1 DEF SetStatus, UpdateStatus, TypeOK, Identity
  <2>3. view' \in [Clients -> [status : Status \cup {"none", "absent", "dead"},
                               key : Tasks \cup {Nobody}]]
    BY <1>4 DEF SetStatus, TypeOK
  <2>4. stage' \in [Tasks -> Stage] /\ doing' \in [Tasks -> Kind \cup {"none"}]
    BY <1>4, TasksAre DEF SetStatus, TypeOK, Stage, Kind
  <2>5. pending' \in [Clients -> SUBSET Tasks] /\ muddled' \in BOOLEAN
    BY <1>4, TasksAre DEF SetStatus, TypeOK
  <2>6. QED
    BY <1>4, <2>2, <2>3, <2>4, <2>5 DEF SetStatus, TypeOK
<1>5. ASSUME NEW o \in Ops, SetStatusRaises(o) PROVE TypeOK'
  BY <1>5, TasksAre DEF SetStatusRaises, tables, clients, history, TypeOK, Stage
<1>6. ASSUME NEW o \in Ops, WriteNow(o) PROVE TypeOK'
  <2>1. Check(o, view[ClientOf[o]]) /\ key' \in Tasks \cup {Nobody}
    BY <1>6 DEF WriteNow, tables, TypeOK
  <2>2. view[ClientOf[o]].status \in Status => view[ClientOf[o]].key \in Tasks
    BY TasksAre DEF RowFirst
  <2>3. QED
    BY <1>6, <2>1, <2>2, CheckTyped DEF WriteNow, tables, clients, TypeOK
<1>7. ASSUME NEW o \in Ops, WriteWaits(o) PROVE TypeOK'
  <2>1. stage' \in [Tasks -> Stage] /\ awaited' \in [Ops -> SUBSET Tasks]
    BY <1>7, TasksAre DEF WriteWaits, TypeOK, Stage
  <2>2. QED
    BY <1>7, <2>1 DEF WriteWaits, tables, history, TypeOK
<1>8. ReplayAgent \in Identity \cup {NoIdentity}
  BY ReplayTyped DEF TypeOK, Stamped
<1>9. ASSUME NEW o \in Ops, Gathered(o) PROVE TypeOK'
  <2>1. Check(o, ReplayAgent) /\ key' \in Tasks \cup {Nobody}
    BY <1>9 DEF Gathered, tables, TypeOK
  <2>2. view' \in [Clients -> [status : Status \cup {"none", "absent", "dead"},
                               key : Tasks \cup {Nobody}]]
    BY <1>8, <1>9, ViewTyped, TasksAre DEF Gathered
  <2>3. pending' \in [Clients -> SUBSET Tasks] /\ awaited' \in [Ops -> SUBSET Tasks]
    BY <1>9, TasksAre DEF Gathered, TypeOK
  <2>4. /\ stage' \in [Tasks -> Stage] /\ doing' \in [Tasks -> Kind \cup {"none"}]
        /\ envelope' \in [Tasks -> [key : Tasks, signed : Tasks \cup {Nobody}]]
        /\ note' \in [Ops -> Status \cup {"none"}]
    BY <1>8, <2>1, CheckTyped, IdentityIsView
  <2>5. QED
    BY <1>9, <2>2, <2>3, <2>4 DEF Gathered, tables, TypeOK
<1>10. ASSUME NEW o \in Ops, WriteReplays(o) PROVE TypeOK'
  <2>1. view' \in [Clients -> [status : Status \cup {"none", "absent", "dead"},
                               key : Tasks \cup {Nobody}]]
    BY <1>8, <1>10, ViewTyped, TasksAre DEF WriteReplays
  <2>2. /\ stage' \in [Tasks -> Stage] /\ doing' \in [Tasks -> Kind \cup {"none"}]
        /\ envelope' \in [Tasks -> [key : Tasks, signed : Tasks \cup {Nobody}]]
        /\ note' \in [Ops -> Status \cup {"none"}] /\ muddled' \in BOOLEAN
    <3>1. CASE ReplayAgent = NoIdentity
      <4>1. /\ stage' = [stage EXCEPT ![o] = "storing"]
            /\ doing' = [doing EXCEPT ![o] = "registered"]
            /\ muddled' = (muddled \/ Changing # {})
            /\ UNCHANGED <<envelope, note>>
        BY <1>10, <3>1 DEF WriteReplays
      <4>2. QED
        BY <4>1 DEF TypeOK, Stage, Kind
    <3>2. CASE ReplayAgent # NoIdentity
      <4>1. Check(o, ReplayAgent) /\ key' \in Tasks \cup {Nobody} /\ muddled' \in BOOLEAN
        BY <1>10, <3>2 DEF WriteReplays, tables, TypeOK
      <4>2. QED
        BY <1>8, <4>1, CheckTyped, IdentityIsView
    <3>3. QED
      BY <3>1, <3>2
  <2>3. QED
    BY <1>10, <2>1, <2>2 DEF WriteReplays, tables, TypeOK
<1>11. ASSUME NEW o \in Ops, CommitWrite(o) PROVE TypeOK'
  <2>1. log' \subseteq Event
    BY <1>11, EventTyped, TasksAre DEF CommitWrite, TypeOK
  <2>2. QED
    BY <1>11, <2>1, TasksAre DEF CommitWrite, clients, history, TypeOK, Stage
<1>12. ASSUME NEW o \in Ops, CommitRegistration(o) PROVE TypeOK'
  <2>1. log' \subseteq Event
    BY <1>12, EventTyped, TasksAre DEF CommitRegistration, TypeOK
  <2>2. Check(o, ReplayAgent') /\ key' \in Tasks \cup {Nobody} /\ torn' \in BOOLEAN
    BY <1>12, TasksAre DEF CommitRegistration, Stored, TypeOK
  <2>3. /\ view' \in [Clients -> [status : Status \cup {"none", "absent", "dead"},
                                  key : Tasks \cup {Nobody}]]
        /\ ReplayAgent'.status \in Status => ReplayAgent'.key \in Tasks
    BY <1>12, ReplayTypedNext, ViewTyped, IdentityIsView, TasksAre DEF CommitRegistration
  <2>4. /\ stage' \in [Tasks -> Stage] /\ doing' \in [Tasks -> Kind \cup {"none"}]
        /\ envelope' \in [Tasks -> [key : Tasks, signed : Tasks \cup {Nobody}]]
        /\ note' \in [Ops -> Status \cup {"none"}]
    BY <2>2, <2>3, CheckTyped
  <2>5. QED
    BY <1>12, <2>1, <2>2, <2>3, <2>4 DEF CommitRegistration, TypeOK
<1>13. ASSUME NEW o \in Ops, ReadCounter(o) PROVE TypeOK'
  BY <1>13, TasksAre DEF ReadCounter, tables, clients, history, TypeOK, Stage
<1>14. ASSUME NEW o \in Ops, Finish(o) PROVE TypeOK'
  <2>1. counter' \in Nat /\ stage' \in [Tasks -> Stage]
    BY <1>14, TasksAre DEF Finish, TypeOK, Stage
  <2>2. view' \in [Clients -> [status : Status \cup {"none", "absent", "dead"},
                               key : Tasks \cup {Nobody}]]
    BY <1>8, <1>14, ViewTyped, TasksAre DEF Finish
  <2>3. told' \in [Clients -> Status \cup {"none"}]
    BY <1>8, <1>14, IdentityIsView DEF Finish, TypeOK
  <2>4. QED
    BY <1>14, <2>1, <2>2, <2>3 DEF Finish, TypeOK
<1>15. ASSUME NEW x \in Tasks, Prepare(x) PROVE TypeOK'
  <2>1. [prev |-> IF log = {} THEN 0 ELSE Latest(log).ts, ts |-> clock] \in [prev : Nat, ts : Nat]
    <3>1. log # {} => Last(Latest(log), log)
      BY LatestIsLast DEF TypeOK, Stamped
    <3>2. log # {} => Latest(log).ts \in Nat
      BY <3>1 DEF Last, TypeOK, Event
    <3>3. QED
      BY <3>2 DEF TypeOK
  <2>2. link' \in [Tasks -> [prev : Nat, ts : Nat]]
    BY <1>15, <2>1 DEF Prepare, TypeOK
  <2>3. QED
    BY <1>15, <2>2 DEF Prepare, clients, history, TypeOK, Stage
<1>16. ASSUME NEW x \in Tasks, Commit(x) PROVE TypeOK'
  <2>1. log' \subseteq Event
    BY <1>16, EventTyped DEF Commit, TypeOK
  <2>2. told' \in [Clients -> Status \cup {"none"}]
    BY <1>16 DEF Commit, TypeOK, Status
  <2>3. QED
    BY <1>16, <2>1, <2>2 DEF Commit, clients, TypeOK, Stage
<1>17. ASSUME NEW x \in Tasks, Fail(x) PROVE TypeOK'
  <2>1. faults' \in 0 .. MaxFaults
    BY <1>17, OpsAssumption DEF Fail, TypeOK
  <2>2. QED
    BY <1>17, <2>1 DEF Fail, tables, clients, TypeOK, Stage
<1>18. ASSUME NEW p \in Processes, Crash(p) PROVE TypeOK'
  <2>1. faults' \in 0 .. MaxFaults
    BY <1>18, CrashIs DEF TypeOK
  <2>2. QED
    BY <1>18, <2>1, CrashIs DEF TypeOK
<1>19. CASE UNCHANGED vars
  BY <1>19 DEF vars, appends, tables, clients, history, TypeOK
<1>20. QED
  BY <1>1, <1>2, <1>3, <1>4, <1>5, <1>6, <1>7, <1>9, <1>10, <1>11, <1>12, <1>13, <1>14,
     <1>15, <1>16, <1>17, <1>18, <1>19, Steps

\* A check moves one operation on, to an end or to the upload of a memory.
LEMMA CheckMoves ==
  ASSUME TypeOK, NEW o \in Ops, NEW v, Check(o, v)
  PROVE  /\ \A x \in Tasks \ {o} :
              stage'[x] = stage[x] /\ doing'[x] = doing[x] /\ envelope'[x] = envelope[x]
         /\ \/ /\ v.status = "active" /\ stage'[o] = "storing" /\ doing'[o] = "memory"
               /\ envelope'[o] = [key |-> v.key, signed |-> key']
               /\ note'[o] = told[ClientOf[o]] /\ \A q \in Ops \ {o} : note'[q] = note[q]
            \/ /\ v.status # "active" /\ stage'[o] \in {"failed", "rejected"}
               /\ doing'[o] = doing[o] /\ envelope'[o] = envelope[o] /\ note' = note
<1>1. CASE /\ v.status = "active"
           /\ stage' = [stage EXCEPT ![o] = "storing"]
           /\ doing' = [doing EXCEPT ![o] = "memory"]
           /\ envelope' = [envelope EXCEPT ![o] = [key |-> v.key, signed |-> key']]
           /\ note' = [note EXCEPT ![o] = told[ClientOf[o]]]
  BY <1>1, TasksAre DEF TypeOK
<1>2. CASE /\ v.status # "active"
           /\ \E s \in {"failed", "rejected"} : stage' = [stage EXCEPT ![o] = s]
           /\ UNCHANGED <<doing, envelope, note>>
  BY <1>2, TasksAre DEF TypeOK
<1>3. QED
  BY <1>1, <1>2, CheckIs

\* What a task appends stays what its stage says.
LEMMA StagedKept ==
  ASSUME Sound, [Next]_vars
  PROVE  Staged'
<1> USE DEF Sound
<1>1. ASSUME NEW c \in Clients, Construct(c) PROVE Staged'
  BY <1>1, TasksAre DEF Construct, tables, TypeOK, Staged
<1>2. ASSUME NEW c \in Clients, CreateRow(c) PROVE Staged'
  <2>1. UNCHANGED <<clock, doing, envelope>>
    BY <1>2 DEF CreateRow
  <2>2. PICK s \in {"keying", "failed"} : stage' = [stage EXCEPT ![c] = s]
    BY <1>2, CreateRowIs
  <2>3. stage[c] = "creating" /\ \A x \in Tasks \ {c} : stage'[x] = stage[x]
    BY <1>2, <2>2, TasksAre DEF CreateRow, TypeOK
  <2>4. stage'[c] \in {"keying", "failed"}
    BY <2>2, TasksAre DEF TypeOK
  <2>5. QED
    BY <2>1, <2>3, <2>4, TasksAre DEF Staged
<1>3. ASSUME NEW c \in Clients, StoreKey(c) PROVE Staged'
  BY <1>3, TasksAre DEF StoreKey, TypeOK, Staged
<1>4. ASSUME NEW o \in Ops, NEW s \in Status, SetStatus(o, s) PROVE Staged'
  BY <1>4, TasksAre DEF SetStatus, TypeOK, Staged, Status
<1>5. ASSUME NEW o \in Ops, SetStatusRaises(o) PROVE Staged'
  <2>1. /\ stage' = [stage EXCEPT ![o] = "failed"]
        /\ UNCHANGED <<clock, doing, envelope>>
    BY <1>5 DEF SetStatusRaises, tables
  <2>2. QED
    BY <2>1, TasksAre DEF TypeOK, Staged
<1>6. ASSUME NEW o \in Ops, NEW v, Check(o, v), UNCHANGED clock PROVE Staged'
  <2>1. \A x \in Tasks \ {o} :
          stage'[x] = stage[x] /\ doing'[x] = doing[x] /\ envelope'[x] = envelope[x]
    BY <1>6, CheckMoves
  <2>2. \/ stage'[o] = "storing" /\ doing'[o] = "memory"
        \/ stage'[o] \in {"failed", "rejected"}
    BY <1>6, CheckMoves
  <2>3. QED
    BY <1>6, <2>1, <2>2, TasksAre DEF Staged
<1>7. ASSUME NEW o \in Ops, WriteNow(o) PROVE Staged'
  BY <1>6, <1>7 DEF WriteNow, tables
<1>8. ASSUME NEW o \in Ops, WriteWaits(o) PROVE Staged'
  BY <1>8, TasksAre DEF WriteWaits, tables, TypeOK, Staged, Entered
<1>9. ASSUME NEW o \in Ops, Gathered(o) PROVE Staged'
  BY <1>6, <1>9 DEF Gathered, tables
<1>10. ASSUME NEW o \in Ops, WriteReplays(o) PROVE Staged'
  <2>1. CASE ReplayAgent = NoIdentity
    <3>1. /\ stage' = [stage EXCEPT ![o] = "storing"]
          /\ doing' = [doing EXCEPT ![o] = "registered"]
          /\ UNCHANGED <<clock, envelope>>
      BY <1>10, <2>1 DEF WriteReplays, tables
    <3>2. QED
      BY <3>1, TasksAre DEF TypeOK, Staged
  <2>2. CASE ReplayAgent # NoIdentity
    BY <1>6, <1>10, <2>2 DEF WriteReplays, tables
  <2>3. QED
    BY <2>1, <2>2
<1>11. ASSUME NEW o \in Ops, CommitWrite(o) PROVE Staged'
  BY <1>11, TasksAre DEF CommitWrite, TypeOK, Staged
<1>12. ASSUME NEW o \in Ops, CommitRegistration(o) PROVE Staged'
  BY <1>6, <1>12 DEF CommitRegistration
<1>13. ASSUME NEW o \in Ops, ReadCounter(o) PROVE Staged'
  BY <1>13, TasksAre DEF ReadCounter, tables, TypeOK, Staged
<1>14. ASSUME NEW o \in Ops, Finish(o) PROVE Staged'
  BY <1>14, TasksAre DEF Finish, TypeOK, Staged
<1>15. ASSUME NEW x \in Tasks, Prepare(x) PROVE Staged'
  BY <1>15, TasksAre DEF Prepare, TypeOK, Staged
<1>16. ASSUME NEW x \in Tasks, Commit(x) PROVE Staged'
  BY <1>16, TasksAre DEF Commit, TypeOK, Staged
<1>17. ASSUME NEW x \in Tasks, Fail(x) PROVE Staged'
  BY <1>17, TasksAre DEF Fail, tables, TypeOK, Staged
<1>18. ASSUME NEW p \in Processes, Crash(p) PROVE Staged'
  <2>1. clock' = clock
    BY <1>18, CrashIs
  <2>2. ASSUME NEW x \in Tasks
        PROVE  \/ /\ stage'[x] = stage[x] /\ doing'[x] = doing[x]
                  /\ envelope'[x] = envelope[x]
               \/ /\ stage'[x] = IF stage[x] \in InFlight THEN "lost" ELSE stage[x]
                  /\ doing'[x] = "none" /\ envelope'[x].key = x
    <3>1. CASE Process(x) = p
      <4>1. /\ stage'[x] = IF stage[x] \in InFlight THEN "lost" ELSE stage[x]
            /\ doing'[x] = "none" /\ envelope'[x] = [key |-> x, signed |-> Nobody]
        BY <1>18, <3>1, CrashIs
      <4>2. QED
        BY <4>1
    <3>2. CASE Process(x) # p
      BY <1>18, <3>2, CrashIs
    <3>3. QED
      BY <3>1, <3>2
  <2>3. QED
    BY <2>1, <2>2, StagesAre, TasksAre DEF Staged
<1>19. CASE UNCHANGED vars
  BY <1>19 DEF vars, appends, tables, Staged
<1>20. QED
  BY <1>1, <1>2, <1>3, <1>4, <1>5, <1>7, <1>8, <1>9, <1>10, <1>11, <1>12, <1>13, <1>14,
     <1>15, <1>16, <1>17, <1>18, <1>19, Steps

\* No two events are ever stamped alike.
LEMMA StampedKept ==
  ASSUME Sound, [Next]_vars
  PROVE  Stamped'
<1> USE DEF Sound
<1>1. ASSUME UNCHANGED <<log, clock, link>>,
             \A x \in Tasks : stage'[x] = "anchoring" => stage[x] = "anchoring"
      PROVE  Stamped'
  BY <1>1 DEF Stamped
<1>2. ASSUME NEW c \in Clients, Construct(c) \/ CreateRow(c) \/ StoreKey(c) PROVE Stamped'
  <2>1. UNCHANGED <<log, clock, link>>
    BY <1>2 DEF Construct, CreateRow, StoreKey, tables
  <2>2. \E s \in {"creating", "keying", "failed", "storing", stage[c]} :
          stage' = [stage EXCEPT ![c] = s]
    <3>1. CASE Construct(c)
      BY <3>1, TasksAre DEF Construct, TypeOK
    <3>2. CASE CreateRow(c)
      BY <3>2, CreateRowIs
    <3>3. CASE StoreKey(c)
      BY <3>3 DEF StoreKey
    <3>4. QED
      BY <1>2, <3>1, <3>2, <3>3
  <2>3. \A x \in Tasks : stage'[x] = "anchoring" => stage[x] = "anchoring"
    BY <2>2, TasksAre DEF TypeOK
  <2>4. QED
    BY <1>1, <2>1, <2>3
<1>3. ASSUME NEW o \in Ops, NEW s \in Status, SetStatus(o, s) PROVE Stamped'
  BY <1>1, <1>3 DEF SetStatus, TypeOK
<1>4. ASSUME NEW o \in Ops,
             SetStatusRaises(o) \/ WriteWaits(o) \/ ReadCounter(o) \/ Finish(o)
      PROVE  Stamped'
  BY <1>1, <1>4 DEF SetStatusRaises, WriteWaits, ReadCounter, Finish, tables, TypeOK
<1>5. ASSUME NEW o \in Ops, NEW v, Check(o, v)
      PROVE \A x \in Tasks : stage'[x] = "anchoring" => stage[x] = "anchoring"
  BY <1>5, CheckMoves, TasksAre
<1>6. ASSUME NEW o \in Ops, WriteNow(o) \/ Gathered(o) PROVE Stamped'
  BY <1>1, <1>5, <1>6 DEF WriteNow, Gathered, tables
<1>7. ASSUME NEW o \in Ops, WriteReplays(o) PROVE Stamped'
  <2>1. \A x \in Tasks : stage'[x] = "anchoring" => stage[x] = "anchoring"
    <3>1. CASE ReplayAgent = NoIdentity
      <4>1. stage' = [stage EXCEPT ![o] = "storing"]
        BY <1>7, <3>1 DEF WriteReplays
      <4>2. QED
        BY <4>1 DEF TypeOK
    <3>2. CASE ReplayAgent # NoIdentity
      BY <1>5, <1>7, <3>2 DEF WriteReplays
    <3>3. QED
      BY <3>1, <3>2
  <2>2. QED
    BY <1>1, <1>7, <2>1 DEF WriteReplays, tables
<1>8. ASSUME NEW x \in Tasks, stage[x] = "anchoring", stage'[x] # "anchoring",
             log' = log \cup {EventOf(x)}, UNCHANGED <<clock, link>>,
             \A y \in Tasks \ {x} : stage'[y] = stage[y]
      PROVE  Stamped'
  <2>1. EventOf(x).ts = link[x].ts /\ EventOf(x).ts < clock /\ \A e \in log : e.ts # EventOf(x).ts
    BY <1>8, EventTyped
  <2>2. \A y \in Tasks \ {x} : stage[y] = "anchoring" => link[y].ts # EventOf(x).ts
    BY <1>8, <2>1 DEF Stamped
  <2>3. /\ \A e \in log' : e.ts < clock'
        /\ \A e, f \in log' : e.ts = f.ts => e = f
    BY <1>8, <2>1 DEF Stamped
  <2>4. \A y \in Tasks : stage'[y] = "anchoring" => y # x /\ stage[y] = "anchoring"
    BY <1>8
  <2>5. QED
    BY <1>8, <2>2, <2>3, <2>4 DEF Stamped
<1>9. ASSUME NEW o \in Ops, CommitWrite(o) PROVE Stamped'
  <2>1. /\ stage[o] = "anchoring" /\ stage'[o] = "counting"
        /\ log' = log \cup {EventOf(o)} /\ UNCHANGED <<clock, link>>
        /\ \A y \in Tasks \ {o} : stage'[y] = stage[y]
    BY <1>9, TasksAre DEF CommitWrite, TypeOK
  <2>2. QED
    BY <1>8, <2>1, TasksAre
<1>10. ASSUME NEW o \in Ops, CommitRegistration(o) PROVE Stamped'
  <2>1. /\ stage[o] = "anchoring" /\ Check(o, ReplayAgent')
        /\ log' = log \cup {EventOf(o)} /\ UNCHANGED <<clock, link>>
    BY <1>10 DEF CommitRegistration
  <2>2. stage'[o] # "anchoring" /\ \A y \in Tasks \ {o} : stage'[y] = stage[y]
    BY <2>1, CheckMoves
  <2>3. QED
    BY <1>8, <2>1, <2>2, TasksAre
<1>11. ASSUME NEW x \in Tasks, Commit(x) PROVE Stamped'
  <2>1. /\ stage[x] = "anchoring" /\ stage'[x] = "ok"
        /\ log' = log \cup {EventOf(x)} /\ UNCHANGED <<clock, link>>
        /\ \A y \in Tasks \ {x} : stage'[y] = stage[y]
    BY <1>11 DEF Commit, TypeOK
  <2>2. QED
    BY <1>8, <2>1
<1>12. ASSUME NEW x \in Tasks, Prepare(x) PROVE Stamped'
  <2>1. /\ stage'[x] = "anchoring" /\ link'[x].ts = clock
        /\ \A y \in Tasks \ {x} : stage'[y] = stage[y] /\ link'[y] = link[y]
        /\ clock' = clock + 1 /\ log' = log
    BY <1>12 DEF Prepare, TypeOK
  <2>2. clock \in Nat /\ clock >= 1 /\ \A e \in log : e.ts \in Nat /\ e.ts < clock
    BY DEF TypeOK, Staged, Stamped, Event
  <2>3. \A y \in Tasks : stage[y] = "anchoring" => link[y].ts \in Nat /\ link[y].ts < clock
    BY DEF TypeOK, Stamped
  <2>4. /\ \A e \in log' : e.ts < clock'
        /\ \A e, f \in log' : e.ts = f.ts => e = f
    BY <2>1, <2>2 DEF Stamped
  <2>5. ASSUME NEW y \in Tasks, stage'[y] = "anchoring"
        PROVE  /\ 1 <= link'[y].ts /\ link'[y].ts < clock'
               /\ \A e \in log' : e.ts # link'[y].ts
               /\ \A z \in Tasks \ {y} : stage'[z] = "anchoring" => link'[y].ts # link'[z].ts
    <3>1. CASE y = x
      BY <2>1, <2>2, <2>3, <3>1
    <3>2. CASE y # x
      <4>1. stage[y] = "anchoring" /\ link'[y] = link[y]
        BY <2>1, <2>5, <3>2
      <4>2. /\ 1 <= link[y].ts /\ \A e \in log : e.ts # link[y].ts
            /\ \A z \in Tasks \ {y} : stage[z] = "anchoring" => link[y].ts # link[z].ts
        BY <4>1 DEF Stamped
      <4>3. QED
        BY <2>1, <2>2, <2>3, <4>1, <4>2
    <3>3. QED
      BY <3>1, <3>2
  <2>6. QED
    BY <2>4, <2>5 DEF Stamped
<1>13. ASSUME NEW x \in Tasks, Fail(x) PROVE Stamped'
  BY <1>1, <1>13 DEF Fail, tables, TypeOK
<1>14. ASSUME NEW p \in Processes, Crash(p) PROVE Stamped'
  <2>1. log' = log /\ clock' = clock
    BY <1>14, CrashIs
  <2>2. \A x \in Tasks : stage'[x] = "anchoring" => stage[x] = "anchoring" /\ link'[x] = link[x]
    BY <1>14, CrashIs, StagesAre
  <2>3. QED
    BY <2>1, <2>2 DEF Stamped
<1>15. CASE UNCHANGED vars
  BY <1>1, <1>15 DEF vars, appends, tables
<1>16. QED
  BY <1>2, <1>3, <1>4, <1>6, <1>7, <1>9, <1>10, <1>11, <1>12, <1>13, <1>14, <1>15, Steps

\* A row is made once, by the client whose key it holds, and only its status is
\* ever set; that is done by the client of an operation that has a view.
LEMMA RowStays ==
  ASSUME Sound, [Next]_vars
  PROVE  \/ row' = row
         \/ \E c \in Clients : /\ CreateRow(c) /\ stage' = [stage EXCEPT ![c] = "keying"]
                               /\ row = NoIdentity /\ row' = [status |-> "active", key |-> c]
                               /\ row' # NoIdentity
         \/ \E o \in Ops, s \in Status :
              SetStatus(o, s) /\ row # NoIdentity /\ row' # NoIdentity
                              /\ row'.status = s /\ row'.key = row.key
<1> USE DEF Sound
<1>1. ASSUME NEW c \in Clients, CreateRow(c), row' # row
      PROVE  /\ stage' = [stage EXCEPT ![c] = "keying"]
             /\ row = NoIdentity /\ row' = [status |-> "active", key |-> c]
             /\ row' # NoIdentity
  <2>1. [status |-> "active", key |-> c] # NoIdentity
    BY DEF NoIdentity
  <2>2. QED
    BY <1>1, <2>1, CreateRowIs
<1>2. ASSUME NEW o \in Ops, NEW s \in Status, SetStatus(o, s)
      PROVE  row # NoIdentity /\ row' # NoIdentity /\ row'.status = s /\ row'.key = row.key
  <2>1. row # NoIdentity
    BY <1>2, TasksAre DEF SetStatus, Entered, RowFirst
  <2>2. row \in Identity /\ row' = [row EXCEPT !.status = s]
    BY <1>2, <2>1 DEF SetStatus, UpdateStatus, TypeOK
  <2>3. row'.status = s /\ row'.key = row.key
    BY <2>2 DEF Identity
  <2>4. row' # NoIdentity
    BY <2>3 DEF NoIdentity, Status
  <2>5. QED
    BY <2>1, <2>3, <2>4
<1>3. ASSUME NEW c \in Clients, Construct(c) \/ StoreKey(c) PROVE row' = row
  BY <1>3 DEF Construct, StoreKey, tables
<1>4. ASSUME NEW o \in Ops,
             \/ SetStatusRaises(o) \/ WriteNow(o) \/ WriteWaits(o)
             \/ Gathered(o) \/ WriteReplays(o) \/ CommitWrite(o)
             \/ CommitRegistration(o) \/ ReadCounter(o) \/ Finish(o)
      PROVE  row' = row
  BY <1>4 DEF SetStatusRaises, WriteNow, WriteWaits, Gathered, WriteReplays, CommitWrite,
              CommitRegistration, ReadCounter, Finish, tables
<1>5. ASSUME NEW x \in Tasks, Prepare(x) \/ Commit(x) \/ Fail(x) PROVE row' = row
  BY <1>5 DEF Prepare, Commit, Fail, tables
<1>6. ASSUME NEW p \in Processes, Crash(p) PROVE row' = row
  BY <1>6 DEF Crash, tables
<1>7. CASE UNCHANGED vars
  BY <1>7 DEF vars, tables
<1>8. QED
  BY <1>1, <1>2, <1>3, <1>4, <1>5, <1>6, <1>7, Steps

\* Nothing speaks for the agent before it has a row.
LEMMA RowFirstKept ==
  ASSUME Sound, [Next]_vars
  PROVE  RowFirst'
<1> USE DEF Sound
<1>1. row # NoIdentity => row' # NoIdentity
  BY RowStays
<1>2. CASE row # NoIdentity
  <2>1. ASSUME NEW c \in Clients, view'[c].status \in Status PROVE view'[c].key \in Tasks
    <3>1. ASSUME NEW d \in Clients, NEW v, v.status \in Status => v.key \in Tasks,
                 view' = [view EXCEPT ![d] = v]
          PROVE  view'[c].key \in Tasks
      BY <2>1, <3>1 DEF TypeOK, RowFirst
    <3>2. CASE view' = view
      BY <2>1, <3>2 DEF RowFirst
    <3>3. ReplayAgent.status \in Status => ReplayAgent.key \in Tasks
      BY ReplayTyped, IdentityIsView DEF TypeOK, Stamped
    <3>4. ASSUME NEW d \in Clients, Construct(d) PROVE view'[c].key \in Tasks
      <4>1. row.status \in Status => row.key \in Tasks
        BY IdentityIsView DEF TypeOK
      <4>2. QED
        BY <3>1, <3>2, <3>4, <4>1 DEF Construct
    <3>5. ASSUME NEW d \in Clients, CreateRow(d) PROVE view'[c].key \in Tasks
      <4>1. CASE c = d
        <5>1. "dead" \notin Status
          BY DEF Status
        <5>2. \/ view' = view
              \/ view'[d] = [status |-> "dead", key |-> view[d].key]
          BY <3>5, CreateRowIs
        <5>3. QED
          BY <2>1, <3>2, <4>1, <5>1, <5>2
      <4>2. CASE c # d
        <5>1. view'[c] = view[c]
          BY <3>5, <4>2, CreateRowIs
        <5>2. QED
          BY <2>1, <5>1 DEF RowFirst
      <4>3. QED
        BY <4>1, <4>2
    <3>6. ASSUME NEW d \in Clients, StoreKey(d) PROVE view'[c].key \in Tasks
      <4>1. [status |-> "active", key |-> d].key \in Tasks
        BY TasksAre
      <4>2. view' = [view EXCEPT ![d] = [status |-> "active", key |-> d]]
        BY <3>6 DEF StoreKey
      <4>3. QED
        BY <3>1, <4>1, <4>2
    <3>7. ASSUME NEW o \in Ops, NEW s \in Status, SetStatus(o, s) PROVE view'[c].key \in Tasks
      <4>1. /\ view' = [view EXCEPT ![ClientOf[o]].status = s]
            /\ view[ClientOf[o]].status \in Status
        BY <3>7, TasksAre DEF SetStatus, Entered, TypeOK
      <4>2. view'[c].key = view[c].key /\ view[c].status \in Status
        BY <2>1, <4>1 DEF TypeOK
      <4>3. QED
        BY <4>2 DEF RowFirst
    <3>8. ASSUME NEW o \in Ops,
                 SetStatusRaises(o) \/ WriteNow(o) \/ WriteWaits(o) \/ CommitWrite(o)
                   \/ ReadCounter(o)
          PROVE  view'[c].key \in Tasks
      BY <3>2, <3>8 DEF SetStatusRaises, WriteNow, WriteWaits, CommitWrite, ReadCounter, clients
    <3>9. ASSUME NEW o \in Ops, Gathered(o) \/ WriteReplays(o) \/ Finish(o)
          PROVE  view'[c].key \in Tasks
      <4>1. view' = [view EXCEPT ![ClientOf[o]] = ReplayAgent]
        BY <3>9 DEF Gathered, WriteReplays, Finish
      <4>2. QED
        BY <3>1, <3>3, <4>1, TasksAre
    <3>10. ASSUME NEW o \in Ops, CommitRegistration(o) PROVE view'[c].key \in Tasks
      <4>1. view' = [view EXCEPT ![ClientOf[o]] = ReplayAgent']
        BY <3>10 DEF CommitRegistration
      <4>2. ReplayAgent'.status \in Status => ReplayAgent'.key \in Tasks
        BY <3>10, ReplayTypedNext, IdentityIsView
      <4>3. QED
        BY <3>1, <4>1, <4>2, TasksAre
    <3>11. ASSUME NEW x \in Tasks, Prepare(x) \/ Commit(x) \/ Fail(x) PROVE view'[c].key \in Tasks
      BY <3>2, <3>11 DEF Prepare, Commit, Fail, clients
    <3>12. ASSUME NEW p \in Processes, Crash(p) PROVE view'[c].key \in Tasks
      <4>1. CASE ProcessOf[c] = p
        <5>1. view'[c].status = "dead" /\ "dead" \notin Status
          BY <3>12, <4>1, CrashIs DEF Status
        <5>2. QED
          BY <2>1, <5>1
      <4>2. CASE ProcessOf[c] # p
        <5>1. view'[c] = view[c]
          BY <3>12, <4>2, CrashIs
        <5>2. QED
          BY <2>1, <5>1 DEF RowFirst
      <4>3. QED
        BY <4>1, <4>2
    <3>13. CASE UNCHANGED vars
      BY <3>2, <3>13 DEF vars, clients
    <3>14. QED
      BY <3>4, <3>5, <3>6, <3>7, <3>8, <3>9, <3>10, <3>11, <3>12, <3>13, Steps
  <2>2. QED
    BY <1>1, <1>2, <2>1 DEF RowFirst
<1>3. CASE row = NoIdentity
  <2>1. /\ \A c \in Clients : /\ view[c].status \in {"absent", "dead"}
                              /\ stage[c] \notin {"keying", "storing", "anchoring", "ok"}
        /\ \A o \in Ops : stage[o] = "idle"
        /\ log = {} /\ key = Nobody
    BY <1>3 DEF RowFirst
  <2>2. \A x \in Tasks : stage[x] \notin {"keying", "storing", "anchoring", "waiting",
                                          "counting", "counted"}
    BY <2>1, TasksAre DEF Staged
  <2>3. ASSUME NEW o \in Ops PROVE ~Entered(o)
    BY <2>1, TasksAre DEF Entered
  <2>4. ASSUME UNCHANGED <<view, log, key>>, \A o \in Ops : stage'[o] = stage[o],
               \A c \in Clients : stage'[c] \in {stage[c], "creating", "lost"}
        PROVE  RowFirst'
    <3>1. \A c \in Clients : /\ view'[c].status \in {"absent", "dead"}
                             /\ stage'[c] \notin {"keying", "storing", "anchoring", "ok"}
      BY <2>1, <2>4
    <3>2. QED
      BY <2>1, <2>4, <3>1 DEF RowFirst, Status
  <2>5. ASSUME NEW c \in Clients, Construct(c) PROVE RowFirst'
    <3>1. stage' = [stage EXCEPT ![c] = "creating"] /\ UNCHANGED <<view, log, key>>
      BY <1>3, <2>5 DEF Construct, tables
    <3>2. QED
      BY <2>4, <3>1, TasksAre DEF TypeOK
  <2>6. ASSUME NEW c \in Clients, CreateRow(c) PROVE RowFirst'
    <3>1. row' # NoIdentity /\ view' = view /\ log' = log /\ key' = key
      BY <1>3, <2>6, CreateRowIs DEF CreateRow, NoIdentity
    <3>2. QED
      BY <2>1, <3>1 DEF RowFirst, Status
  <2>7. ASSUME NEW p \in Processes, Crash(p) PROVE RowFirst'
    <3>1. ASSUME NEW c \in Clients
          PROVE  /\ view'[c].status \in {"absent", "dead"}
                 /\ stage'[c] \notin {"keying", "storing", "anchoring", "ok"}
      <4>1. Process(c) = ProcessOf[c] /\ c \in Tasks
        BY TasksAre DEF Process, Owner
      <4>2. CASE ProcessOf[c] = p
        <5>1. /\ view'[c] = [status |-> "dead", key |-> Nobody]
              /\ stage'[c] \in {stage[c], "lost"}
          BY <2>7, <4>1, <4>2, CrashIs
        <5>2. QED
          BY <2>1, <5>1
      <4>3. CASE ProcessOf[c] # p
        <5>1. view'[c] = view[c] /\ stage'[c] = stage[c]
          BY <2>7, <4>1, <4>3, CrashIs
        <5>2. QED
          BY <2>1, <5>1
      <4>4. QED
        BY <4>2, <4>3
    <3>2. ASSUME NEW o \in Ops PROVE stage'[o] = "idle"
      <4>1. stage'[o] \in {stage[o], IF stage[o] \in InFlight THEN "lost" ELSE stage[o]}
        BY <2>7, CrashIs, TasksAre
      <4>2. QED
        BY <2>1, <4>1, StagesAre
    <3>3. log' = log /\ key' = key
      BY <2>7, CrashIs
    <3>4. QED
      BY <2>1, <3>1, <3>2, <3>3 DEF RowFirst, Status
  <2>8. CASE UNCHANGED vars
    BY <2>8 DEF vars, appends, tables, clients, RowFirst
  <2>9. \A c \in Clients : ~StoreKey(c)
    BY <2>1 DEF StoreKey
  <2>10. \A o \in Ops : /\ \A s \in Status : ~SetStatus(o, s)
                        /\ ~SetStatusRaises(o) /\ ~WriteNow(o) /\ ~WriteWaits(o)
                        /\ ~WriteReplays(o)
    BY <2>3 DEF SetStatus, SetStatusRaises, WriteNow, WriteWaits, WriteReplays
  <2>11. \A o \in Ops : ~Gathered(o) /\ ~CommitWrite(o) /\ ~CommitRegistration(o)
                          /\ ~ReadCounter(o) /\ ~Finish(o)
    BY <2>1 DEF Gathered, CommitWrite, CommitRegistration, ReadCounter, Finish
  <2>12. \A x \in Tasks : ~Prepare(x) /\ ~Commit(x) /\ ~Fail(x)
    BY <2>2 DEF Prepare, Commit, Fail
  <2>13. QED
    BY <2>5, <2>6, <2>7, <2>8, <2>9, <2>10, <2>11, <2>12, Steps
<1>4. QED
  BY <1>2, <1>3

\* Type correctness: every state of the agent's row, log, clients and tasks is
\* of its type, and no event is written without an identity.
THEOREM SoundAlways == Spec => []Sound
<1>1. Init => Sound
  <2>1. ASSUME Init PROVE TypeOK
    <3>1. /\ stage \in [Tasks -> Stage] /\ doing \in [Tasks -> Kind \cup {"none"}]
          /\ link \in [Tasks -> [prev : Nat, ts : Nat]]
      BY <2>1 DEF Init, Blank, Stage
    <3>2. /\ envelope \in [Tasks -> [key : Tasks, signed : Tasks \cup {Nobody}]]
          /\ local \in [Ops -> Nat]
          /\ pending \in [Clients -> SUBSET Tasks] /\ awaited \in [Ops -> SUBSET Tasks]
      BY <2>1 DEF Init, Blank
    <3>3. /\ view \in [Clients -> [status : Status \cup {"none", "absent", "dead"},
                                   key : Tasks \cup {Nobody}]]
          /\ told \in [Clients -> Status \cup {"none"}] /\ note \in [Ops -> Status \cup {"none"}]
      BY <2>1 DEF Init, Status
    <3>4. /\ row = NoIdentity /\ key = Nobody /\ counter = 0 /\ log = {} /\ clock = 1
          /\ faults \in 0 .. MaxFaults /\ muddled = FALSE /\ torn = FALSE
      BY <2>1, OpsAssumption DEF Init
    <3>5. QED
      BY <3>1, <3>2, <3>3, <3>4 DEF TypeOK
  <2>2. ASSUME Init PROVE Staged
    BY <2>2, TasksAre DEF Init, Blank, Staged
  <2>3. ASSUME Init PROVE RowFirst
    BY <2>3, TasksAre DEF Init, RowFirst, Status
  <2>4. ASSUME Init PROVE Stamped
    BY <2>4 DEF Init, Stamped
  <2>5. QED
    BY <2>1, <2>2, <2>3, <2>4 DEF Sound
<1>2. Sound /\ [Next]_vars => Sound'
  BY TypeKept, StagedKept, RowFirstKept, StampedKept DEF Sound
<1>3. QED
  BY <1>1, <1>2, PTL DEF Spec

-----------------------------------------------------------------------------
(***************************************************************************)
(* One key pair                                                            *)
(***************************************************************************)

\* What the steps that make no row and start no client leave of it.
LEMMA KeyedStays ==
  ASSUME Sound, KeyedSound, ~torn,
         row' = row \/ (row # NoIdentity /\ row'.key = row.key),
         key' \in {key, Nobody, row.key},
         \A c \in Clients : stage'[c] \in {"creating", "keying"} => stage'[c] = stage[c],
         \A x \in Tasks : envelope'[x].signed \in {envelope[x].signed, Nobody, row.key},
         \A e \in log' : e \in log \/ e.signed \in {Nobody, row.key}
  PROVE  KeyedSound'
<1>1. row'.key = row.key
  OBVIOUS
<1>2. key' \in {Nobody, row'.key}
  BY <1>1 DEF KeyedSound
<1>3. \A c \in Clients : /\ stage'[c] = "creating" => row' = NoIdentity
                         /\ stage'[c] = "keying" => row'.key = c
  BY <1>1 DEF KeyedSound
<1>4. \A c, d \in Constructing' : c = d
  BY DEF KeyedSound, Constructing
<1>5. /\ \A x \in Tasks : envelope'[x].signed \in {Nobody, row'.key}
      /\ \A e \in log' : e.signed \in {Nobody, row'.key}
  BY <1>1 DEF KeyedSound
<1>6. QED
  BY <1>2, <1>3, <1>4, <1>5 DEF KeyedSound

\* A check signs with the key there is.
LEMMA CheckKeyed ==
  ASSUME Sound, KeyedSound, ~torn, NEW o \in Ops, NEW v, Check(o, v),
         key' \in {Nobody, row.key}, row' = row,
         \A e \in log' : e \in log \/ e.signed \in {Nobody, row.key}
  PROVE  KeyedSound'
<1>1. \A x \in Tasks \ {o} : stage'[x] = stage[x] /\ envelope'[x] = envelope[x]
  BY CheckMoves DEF Sound
<1>2. envelope'[o].signed \in {envelope[o].signed, key'}
  <2>1. envelope'[o] = [key |-> v.key, signed |-> key'] \/ envelope'[o] = envelope[o]
    BY CheckMoves DEF Sound
  <2>2. QED
    BY <2>1
<1>3. \A x \in Tasks : envelope'[x].signed \in {envelope[x].signed, Nobody, row.key}
  BY <1>1, <1>2
<1>4. \A c \in Clients : stage'[c] = stage[c]
  BY <1>1, TasksAre
<1>5. QED
  BY <1>3, <1>4, KeyedStays

\* What signs stays the key of the row.
LEMMA KeyedKept ==
  ASSUME Sound, KeyedSound, [Next]_vars
  PROVE  KeyedSound'
<1>0. SUFFICES ASSUME ~torn' PROVE KeyedSound'
  BY DEF KeyedSound
<1>1. ASSUME NEW c \in Clients, Construct(c) PROVE KeyedSound'
  <2>1. CASE row = NoIdentity
    <3>1. /\ stage' = [stage EXCEPT ![c] = "creating"]
          /\ ~torn /\ Constructing = {}
          /\ UNCHANGED <<row, key, log, envelope>>
      BY <1>0, <1>1, <2>1 DEF Construct, tables, Sound, TypeOK
    <3>2. stage'[c] = "creating" /\ \A d \in Clients \ {c} : stage'[d] = stage[d]
      BY <3>1, TasksAre DEF Sound, TypeOK
    <3>3. Constructing' = {c}
      BY <3>1, <3>2 DEF Constructing
    <3>4. \A d \in Clients : /\ stage'[d] = "creating" => row' = NoIdentity
                             /\ stage'[d] # "keying"
      BY <2>1, <3>1, <3>2 DEF Constructing
    <3>5. QED
      BY <3>1, <3>3, <3>4 DEF KeyedSound
  <2>2. CASE row # NoIdentity
    <3>1. ~torn /\ UNCHANGED <<row, key, log, envelope, stage>>
      BY <1>0, <1>1, <2>2 DEF Construct, tables, Sound, TypeOK
    <3>2. QED
      BY <3>1, KeyedStays
  <2>3. QED
    BY <2>1, <2>2
<1>2. ASSUME NEW c \in Clients, CreateRow(c) PROVE KeyedSound'
  <2>1. ~torn /\ UNCHANGED <<key, log, envelope>> /\ stage[c] = "creating"
    BY <1>0, <1>2 DEF CreateRow, history
  <2>2. row = NoIdentity
    BY <2>1 DEF KeyedSound
  <2>3. /\ stage' = [stage EXCEPT ![c] = "keying"]
        /\ row' = [status |-> "active", key |-> c]
    BY <1>2, <2>2, CreateRowIs DEF Sound
  <2>4. key = Nobody /\ log = {} /\ row.key = Nobody
    BY <2>2 DEF Sound, RowFirst, NoIdentity
  <2>5. stage'[c] = "keying" /\ \A d \in Clients \ {c} : stage'[d] = stage[d]
    BY <2>3, TasksAre DEF Sound, TypeOK
  <2>6. \A d \in Clients \ {c} : d \notin Constructing
    BY <2>1 DEF KeyedSound, Constructing
  <2>7. Constructing' = {c} /\ \A d \in Clients : stage'[d] # "creating"
                            /\ (stage'[d] = "keying" => d = c)
    BY <2>5, <2>6 DEF Constructing
  <2>8. \A x \in Tasks : envelope'[x].signed = Nobody
    BY <2>1, <2>4 DEF KeyedSound
  <2>9. row'.key = c
    BY <2>3
  <2>10. QED
    BY <2>1, <2>4, <2>7, <2>8, <2>9 DEF KeyedSound
<1>3. ASSUME NEW c \in Clients, StoreKey(c) PROVE KeyedSound'
  <2>1. /\ ~torn /\ stage[c] = "keying" /\ key' \in {key, c}
        /\ stage' = [stage EXCEPT ![c] = "storing"] /\ UNCHANGED <<row, log, envelope>>
    BY <1>0, <1>3 DEF StoreKey, Stored, history
  <2>2. row.key = c
    BY <2>1 DEF KeyedSound
  <2>3. \A d \in Clients : stage'[d] \in {"creating", "keying"} => stage'[d] = stage[d]
    BY <2>1 DEF Sound, TypeOK
  <2>4. QED
    BY <2>1, <2>2, <2>3, KeyedStays
<1>4. ASSUME NEW o \in Ops, NEW s \in Status, SetStatus(o, s) PROVE KeyedSound'
  <2>1. ~torn /\ UNCHANGED <<key, log, envelope>> /\ stage' = [stage EXCEPT ![o] = "storing"]
    BY <1>0, <1>4 DEF SetStatus
  <2>2. row' = row \/ (row # NoIdentity /\ row'.key = row.key)
    <3>1. row # NoIdentity
      BY <1>4, TasksAre DEF SetStatus, Entered, Sound, RowFirst
    <3>2. row \in Identity /\ row' = [row EXCEPT !.status = s]
      BY <1>4, <3>1 DEF SetStatus, UpdateStatus, Sound, TypeOK
    <3>3. QED
      BY <3>1, <3>2 DEF Identity
  <2>3. \A d \in Clients : stage'[d] = stage[d]
    BY <2>1, TasksAre DEF Sound, TypeOK
  <2>4. QED
    BY <2>1, <2>2, <2>3, KeyedStays
<1>5. ASSUME NEW o \in Ops,
             SetStatusRaises(o) \/ WriteWaits(o) \/ ReadCounter(o) \/ Finish(o)
      PROVE  KeyedSound'
  <2>1. /\ ~torn /\ UNCHANGED <<row, key, log, envelope>>
        /\ \E s \in {"failed", "waiting", "counted", "ok"} : stage' = [stage EXCEPT ![o] = s]
    BY <1>0, <1>5 DEF SetStatusRaises, WriteWaits, ReadCounter, Finish, tables, history
  <2>2. \A d \in Clients : stage'[d] = stage[d]
    BY <2>1, TasksAre DEF Sound, TypeOK
  <2>3. QED
    BY <2>1, <2>2, KeyedStays
<1>6. ASSUME NEW o \in Ops, WriteNow(o) \/ Gathered(o) PROVE KeyedSound'
  <2>1. /\ ~torn /\ UNCHANGED <<row, key, log>>
        /\ Check(o, view[ClientOf[o]]) \/ Check(o, ReplayAgent)
    BY <1>0, <1>6 DEF WriteNow, Gathered, tables
  <2>2. key' \in {Nobody, row.key}
    BY <2>1 DEF KeyedSound
  <2>3. QED
    BY <2>1, <2>2, CheckKeyed
<1>7. ASSUME NEW o \in Ops, WriteReplays(o) PROVE KeyedSound'
  <2>1. ~torn /\ UNCHANGED <<row, key, log>>
    BY <1>0, <1>7 DEF WriteReplays, tables
  <2>2. CASE ReplayAgent = NoIdentity
    <3>1. stage' = [stage EXCEPT ![o] = "storing"] /\ UNCHANGED envelope
      BY <1>7, <2>2 DEF WriteReplays
    <3>2. \A d \in Clients : stage'[d] = stage[d]
      BY <3>1, TasksAre DEF Sound, TypeOK
    <3>3. QED
      BY <2>1, <3>1, <3>2, KeyedStays
  <2>3. CASE ReplayAgent # NoIdentity
    <3>1. Check(o, ReplayAgent) /\ key' \in {Nobody, row.key}
      BY <1>7, <2>1, <2>3 DEF WriteReplays, KeyedSound
    <3>2. QED
      BY <2>1, <3>1, CheckKeyed
  <2>4. QED
    BY <2>2, <2>3
<1>8. ASSUME ~torn, NEW x \in Tasks, stage[x] = "anchoring"
      PROVE  EventOf(x).signed \in {Nobody, row.key}
  BY <1>8, EventTyped DEF Sound, KeyedSound
<1>9. ASSUME NEW o \in Ops, CommitWrite(o) PROVE KeyedSound'
  <2>1. /\ ~torn /\ UNCHANGED <<row, key, envelope>> /\ stage[o] = "anchoring"
        /\ log' = log \cup {EventOf(o)} /\ stage' = [stage EXCEPT ![o] = "counting"]
    BY <1>0, <1>9 DEF CommitWrite, history
  <2>2. \A e \in log' : e \in log \/ e.signed \in {Nobody, row.key}
    BY <1>8, <2>1, TasksAre
  <2>3. \A d \in Clients : stage'[d] = stage[d]
    BY <2>1, TasksAre DEF Sound, TypeOK
  <2>4. QED
    BY <2>1, <2>2, <2>3, KeyedStays
<1>10. ASSUME NEW o \in Ops, CommitRegistration(o) PROVE KeyedSound'
  <2>1. /\ ~torn /\ key # Nobody /\ key' = key /\ row' = row
        /\ stage[o] = "anchoring"
        /\ log' = log \cup {EventOf(o)} /\ Check(o, ReplayAgent')
    BY <1>0, <1>10 DEF CommitRegistration, Stored
  <2>2. key' \in {Nobody, row.key}
    BY <2>1 DEF KeyedSound
  <2>3. \A e \in log' : e \in log \/ e.signed \in {Nobody, row.key}
    BY <1>8, <2>1, TasksAre
  <2>4. QED
    BY <2>1, <2>2, <2>3, CheckKeyed
<1>11. ASSUME NEW x \in Tasks, Prepare(x) \/ Fail(x) PROVE KeyedSound'
  <2>1. /\ ~torn /\ UNCHANGED <<row, key, log, envelope>>
        /\ \E s \in {"anchoring", "failed"} : stage' = [stage EXCEPT ![x] = s]
    BY <1>0, <1>11 DEF Prepare, Fail, tables, history
  <2>2. \A d \in Clients : stage'[d] \in {"creating", "keying"} => stage'[d] = stage[d]
    BY <2>1, TasksAre DEF Sound, TypeOK
  <2>3. QED
    BY <2>1, <2>2, KeyedStays
<1>12. ASSUME NEW x \in Tasks, Commit(x) PROVE KeyedSound'
  <2>1. /\ ~torn /\ UNCHANGED <<row, key, envelope>> /\ stage[x] = "anchoring"
        /\ log' = log \cup {EventOf(x)} /\ stage' = [stage EXCEPT ![x] = "ok"]
    BY <1>0, <1>12 DEF Commit
  <2>2. \A e \in log' : e \in log \/ e.signed \in {Nobody, row.key}
    BY <1>8, <2>1
  <2>3. \A d \in Clients : stage'[d] \in {"creating", "keying"} => stage'[d] = stage[d]
    BY <2>1, TasksAre DEF Sound, TypeOK
  <2>4. QED
    BY <2>1, <2>2, <2>3, KeyedStays
<1>13. ASSUME NEW p \in Processes, Crash(p) PROVE KeyedSound'
  <2>1. ~torn /\ UNCHANGED <<row, key, log>>
    BY <1>0, <1>13, CrashIs DEF Sound
  <2>2. ASSUME NEW x \in Tasks
        PROVE  /\ envelope'[x].signed \in {envelope[x].signed, Nobody}
               /\ stage'[x] \in {stage[x], "lost"}
    <3>1. CASE Process(x) = p
      <4>1. /\ envelope'[x] = [key |-> x, signed |-> Nobody]
            /\ stage'[x] \in {stage[x], "lost"}
        BY <1>13, <3>1, CrashIs DEF Sound
      <4>2. QED
        BY <4>1
    <3>2. CASE Process(x) # p
      BY <1>13, <3>2, CrashIs DEF Sound
    <3>3. QED
      BY <3>1, <3>2
  <2>3. \A d \in Clients : stage'[d] \in {"creating", "keying"} => stage'[d] = stage[d]
    BY <2>2, TasksAre
  <2>4. QED
    BY <2>1, <2>2, <2>3, KeyedStays
<1>14. CASE UNCHANGED vars
  <2>1. ~torn /\ UNCHANGED <<row, key, log, envelope, stage>>
    BY <1>0, <1>14 DEF vars, appends, tables, history
  <2>2. QED
    BY <2>1, KeyedStays
<1>15. QED
  BY <1>1, <1>2, <1>3, <1>4, <1>5, <1>6, <1>7, <1>9, <1>10, <1>11, <1>12, <1>13, <1>14, Steps

\* A signed event that carries the public key of the row verifies, unless the
\* registration was torn.
THEOREM SignaturesVerify == Spec => []SignedByRowKey
<1>1. Init => KeyedSound
  <2>1. ASSUME Init PROVE KeyedSound
    <3>1. /\ row = NoIdentity /\ key = Nobody /\ log = {} /\ Constructing = {}
          /\ \A c \in Clients : stage[c] = "idle"
      BY <2>1, TasksAre DEF Init, Constructing
    <3>2. \A x \in Tasks : envelope[x].signed = Nobody
      BY <2>1 DEF Init, Blank
    <3>3. QED
      BY <3>1, <3>2 DEF KeyedSound
  <2>2. QED
    BY <2>1
<1>2. Sound /\ KeyedSound /\ [Next]_vars => KeyedSound'
  BY KeyedKept
<1>3. KeyedSound => SignedByRowKey
  BY DEF KeyedSound, SignedByRowKey, Verifies, Memories
<1>4. QED
  BY <1>1, <1>2, <1>3, SoundAlways, PTL DEF Spec

-----------------------------------------------------------------------------
(***************************************************************************)
(* What a client has been told                                             *)
(***************************************************************************)

\* An agent that has stopped is not made active by an event of another kind,
\* not even by a registration older than the first there was.
LEMMA StoppedStays ==
  ASSUME Sound, ReplayAgent.status \in Stopped, NEW evs \in SUBSET Event, log \subseteq evs,
         \A e \in evs : e.ts < clock,
         \A e \in evs : e \in log \/ e.kind # "active"
  PROVE  Projection(evs).status \in Stopped
<1>1. log \subseteq Event /\ clock \in Nat /\ \A e \in log : e.ts < clock
  BY DEF Sound, TypeOK, Stamped
<1>2. NoIdentity.status \notin Stopped /\ "active" \notin Stopped
  BY DEF NoIdentity, Stopped
<1>3. PICK first \in log, d \in log :
        /\ first.kind = "registered"
        /\ d.kind \in Stopped /\ d.kind \in Status /\ first.ts < d.ts
        /\ \A f \in log : f.kind \in Status => f.ts <= d.ts
  BY <1>1, <1>2, ProjectionIs DEF ReplayAgent
<1>4. PICK g \in evs :
        /\ \A e \in evs : e.kind = "registered" => g.ts <= e.ts
        /\ \/ \A e \in evs : e.kind \in Status => e.ts <= g.ts
           \/ \E e \in evs : /\ e.kind \in Status
                             /\ Projection(evs).status = e.kind
                             /\ \A f \in evs : f.kind \in Status => f.ts <= e.ts
  BY <1>1, <1>3, ProjectionIs
<1>5. first \in evs /\ d \in evs /\ g.ts \in Nat /\ first.ts \in Nat /\ d.ts \in Nat
  BY <1>3, <1>4 DEF Event
<1>6. ~(d.ts <= g.ts)
  BY <1>3, <1>4, <1>5
<1>7. PICK e \in evs : /\ e.kind \in Status
                       /\ Projection(evs).status = e.kind
                       /\ \A f \in evs : f.kind \in Status => f.ts <= e.ts
  BY <1>3, <1>4, <1>5, <1>6
<1>8. CASE e \in log
  <2>1. e.ts <= d.ts /\ d.ts <= e.ts /\ e.ts \in Nat
    BY <1>3, <1>5, <1>7, <1>8 DEF Event
  <2>2. e = d
    BY <1>3, <1>5, <1>8, <2>1 DEF Sound, Stamped
  <2>3. QED
    BY <1>3, <1>7, <2>2
<1>9. CASE e.kind # "active"
  BY <1>7, <1>9 DEF Status, Stopped
<1>10. QED
  BY <1>8, <1>9

\* The two ways a step that commits no event can keep what clients were told.
LEMMA ToldStays ==
  ASSUME Sound, ToldSound, told' = told, log' = log,
         \A c \in Clients : told[c] \in Stopped =>
           /\ view'[c].status # "absent"
           /\ view'[c].status = "active" => pending'[c] # {},
         \A o \in Ops : note'[o] \in {note[o], "none"} \/
           \E c \in Clients : note'[o] = told[c] /\ told[c] \notin Stopped
  PROVE  ToldSound'
<1>1. ReplayAgent' = ReplayAgent
  BY DEF ReplayAgent
<1>2. \A o \in Ops : note'[o] \notin {"paused", "terminated"}
  BY DEF ToldSound, StaleUntilRefresh, Stopped
<1>3. QED
  BY <1>1, <1>2 DEF ToldSound, StaleUntilRefresh

\* A check admits a write of a client that was not told otherwise.
LEMMA CheckNotes ==
  ASSUME Sound, NEW o \in Ops, NEW v, Check(o, v),
         v.status = "active" => told[ClientOf[o]] \notin Stopped
  PROVE  \A q \in Ops : note'[q] \in {note[q], "none"} \/
           \E c \in Clients : note'[q] = told[c] /\ told[c] \notin Stopped
<1>1. CASE v.status = "active"
  <2>1. note'[o] = told[ClientOf[o]] /\ \A q \in Ops \ {o} : note'[q] = note[q]
    BY <1>1, CheckMoves DEF Sound
  <2>2. QED
    BY <1>1, <2>1, TasksAre
<1>2. CASE v.status # "active"
  <2>1. note' = note
    BY <1>2, CheckMoves DEF Sound
  <2>2. QED
    BY <2>1
<1>3. QED
  BY <1>1, <1>2

\* Events that are no resume leave what clients were told, and the log says it
\* still.
LEMMA ToldInLog ==
  ASSUME Sound, ToldSound, NEW x \in Tasks, stage[x] = "anchoring", doing[x] # "active",
         NEW c \in Clients, told[c] \in Stopped
  PROVE  Projection(log \cup {EventOf(x)}).status \in Stopped
<1>1. /\ EventOf(x) \in Event /\ EventOf(x).ts < clock /\ EventOf(x).kind # "active"
  BY EventTyped DEF Sound
<1>2. log \cup {EventOf(x)} \in SUBSET Event /\ \A e \in log \cup {EventOf(x)} : e.ts < clock
  BY <1>1 DEF Sound, TypeOK, Stamped
<1>3. ReplayAgent.status \in Stopped
  BY DEF ToldSound
<1>4. QED
  BY <1>1, <1>2, <1>3, StoppedStays

\* A client told that the agent has stopped is not admitted again.
LEMMA ToldKept ==
  ASSUME Sound, ToldSound, [Next]_vars
  PROVE  ToldSound'
<1> USE DEF Sound
<1>0. /\ "active" \notin Stopped /\ "none" \notin Stopped /\ "absent" \notin Stopped
      /\ "absent" \notin Status \cup {"none"}
  BY DEF Stopped, Status
<1>1. ASSUME NEW c \in Clients, Construct(c) PROVE ToldSound'
  <2>1. told[c] \notin Stopped
    BY <1>1 DEF Construct, ToldSound
  <2>2. UNCHANGED <<told, note, log, pending>>
    BY <1>1 DEF Construct, tables
  <2>3. \A d \in Clients \ {c} : view'[d] = view[d]
    BY <1>1 DEF Construct, TypeOK
  <2>4. QED
    BY <2>1, <2>2, <2>3, ToldStays DEF ToldSound
<1>2. ASSUME NEW c \in Clients, CreateRow(c) PROVE ToldSound'
  <2>1. UNCHANGED <<told, note, log, pending>>
    BY <1>2 DEF CreateRow, history
  <2>2. \A d \in Clients : view'[d] = view[d] \/ view'[d].status = "dead"
    <3>1. \/ view' = view
          \/ /\ \A d \in Clients \ {c} : view'[d] = view[d]
             /\ view'[c] = [status |-> "dead", key |-> view[c].key]
      BY <1>2, CreateRowIs
    <3>2. QED
      BY <3>1
  <2>3. QED
    BY <2>1, <2>2, ToldStays DEF ToldSound
<1>3. ASSUME NEW c \in Clients, StoreKey(c) PROVE ToldSound'
  <2>1. /\ UNCHANGED <<told, note, log>>
        /\ view' = [view EXCEPT ![c] = [status |-> "active", key |-> c]]
        /\ pending' = [pending EXCEPT ![c] = {c}]
    BY <1>3 DEF StoreKey, history
  <2>2. /\ \A d \in Clients \ {c} : view'[d] = view[d] /\ pending'[d] = pending[d]
        /\ view'[c].status = "active" /\ pending'[c] # {}
    BY <2>1 DEF TypeOK
  <2>3. QED
    BY <2>1, <2>2, ToldStays DEF ToldSound
<1>4. ASSUME NEW o \in Ops, NEW s \in Status, SetStatus(o, s) PROVE ToldSound'
  <2>1. /\ UNCHANGED <<told, note, log>>
        /\ view' = [view EXCEPT ![ClientOf[o]].status = s]
        /\ pending' = [pending EXCEPT ![ClientOf[o]] = @ \cup {o}]
    BY <1>4 DEF SetStatus
  <2>2. /\ \A d \in Clients \ {ClientOf[o]} : view'[d] = view[d] /\ pending'[d] = pending[d]
        /\ view'[ClientOf[o]].status = s /\ pending'[ClientOf[o]] # {}
    <3>1. ClientOf[o] \in Clients
      BY TasksAre
    <3>2. /\ \A d \in Clients \ {ClientOf[o]} : view'[d] = view[d]
          /\ view'[ClientOf[o]].status = s
      BY <2>1, <3>1 DEF TypeOK
    <3>3. /\ \A d \in Clients \ {ClientOf[o]} : pending'[d] = pending[d]
          /\ pending'[ClientOf[o]] = pending[ClientOf[o]] \cup {o}
      BY <2>1, <3>1 DEF TypeOK
    <3>4. QED
      BY <3>2, <3>3
  <2>3. QED
    BY <1>0, <2>1, <2>2, ToldStays DEF ToldSound
<1>5. ASSUME NEW o \in Ops, SetStatusRaises(o) \/ WriteWaits(o) \/ ReadCounter(o)
      PROVE ToldSound'
  <2>1. UNCHANGED <<told, note, log, view, pending>>
    BY <1>5 DEF SetStatusRaises, WriteWaits, ReadCounter, tables, clients, history
  <2>2. QED
    BY <2>1, ToldStays DEF ToldSound
<1>6. ASSUME NEW o \in Ops, WriteNow(o) PROVE ToldSound'
  <2>1. /\ UNCHANGED <<told, log, view, pending>> /\ Check(o, view[ClientOf[o]])
        /\ pending[ClientOf[o]] = {}
    BY <1>6 DEF WriteNow, tables, clients
  <2>2. view[ClientOf[o]].status = "active" => told[ClientOf[o]] \notin Stopped
    BY <2>1, TasksAre DEF ToldSound
  <2>3. QED
    BY <2>1, <2>2, CheckNotes, ToldStays DEF ToldSound
<1>7. ASSUME NEW o \in Ops, Check(o, ReplayAgent), UNCHANGED <<told, log>>,
             view' = [view EXCEPT ![ClientOf[o]] = ReplayAgent],
             \A d \in Clients \ {ClientOf[o]} : pending'[d] = pending[d]
      PROVE  ToldSound'
  <2>1. ReplayAgent.status = "active" => \A c \in Clients : told[c] \notin Stopped
    BY <1>0 DEF ToldSound
  <2>2. /\ \A d \in Clients \ {ClientOf[o]} : view'[d] = view[d]
        /\ view'[ClientOf[o]] = ReplayAgent
    BY <1>7, TasksAre DEF TypeOK
  <2>3. ReplayAgent.status # "absent"
    BY <1>0, ReplayTyped, IdentityIsView DEF TypeOK, Stamped
  <2>4. \A q \in Ops : note'[q] \in {note[q], "none"} \/
           \E c \in Clients : note'[q] = told[c] /\ told[c] \notin Stopped
    BY <1>7, <2>1, CheckNotes, TasksAre
  <2>5. ASSUME NEW c \in Clients, told[c] \in Stopped
        PROVE  /\ view'[c].status # "absent"
               /\ view'[c].status = "active" => pending'[c] # {}
    BY <1>7, <2>1, <2>2, <2>3, <2>5 DEF ToldSound
  <2>6. QED
    BY <1>7, <2>4, <2>5, ToldStays
<1>8. ASSUME NEW o \in Ops, Gathered(o) PROVE ToldSound'
  <2>1. /\ UNCHANGED <<told, log>> /\ Check(o, ReplayAgent)
        /\ view' = [view EXCEPT ![ClientOf[o]] = ReplayAgent]
        /\ pending' = [pending EXCEPT ![ClientOf[o]] = {}]
    BY <1>8 DEF Gathered, tables
  <2>2. \A d \in Clients \ {ClientOf[o]} : pending'[d] = pending[d]
    BY <2>1 DEF TypeOK
  <2>3. QED
    BY <1>7, <2>1, <2>2
<1>9. ASSUME NEW o \in Ops, WriteReplays(o) PROVE ToldSound'
  <2>1. /\ UNCHANGED <<told, log, pending>>
        /\ view' = [view EXCEPT ![ClientOf[o]] = ReplayAgent]
    BY <1>9 DEF WriteReplays, tables
  <2>2. CASE ReplayAgent = NoIdentity
    <3>1. UNCHANGED note
      BY <1>9, <2>2 DEF WriteReplays
    <3>2. \A c \in Clients : told[c] \notin Stopped
      BY <1>0, <2>2 DEF ToldSound, NoIdentity
    <3>3. QED
      BY <2>1, <3>1, <3>2, ToldStays
  <2>3. CASE ReplayAgent # NoIdentity
    <3>1. Check(o, ReplayAgent)
      BY <1>9, <2>3 DEF WriteReplays
    <3>2. QED
      BY <1>7, <2>1, <3>1
  <2>4. QED
    BY <2>2, <2>3
<1>10. ASSUME NEW o \in Ops, CommitWrite(o) PROVE ToldSound'
  <2>1. /\ UNCHANGED <<told, note, view, pending>> /\ stage[o] = "anchoring"
        /\ doing[o] = "memory" /\ log' = log \cup {EventOf(o)}
    BY <1>10 DEF CommitWrite, clients, history
  <2>2. \A c \in Clients : told[c] \in Stopped => Projection(log').status \in Stopped
    BY <2>1, ToldInLog, TasksAre
  <2>3. QED
    BY <2>1, <2>2 DEF ToldSound, ReplayAgent, StaleUntilRefresh
<1>11. ASSUME NEW o \in Ops, CommitRegistration(o) PROVE ToldSound'
  <2>1. /\ UNCHANGED <<told, pending>> /\ stage[o] = "anchoring"
        /\ doing[o] = "registered" /\ log' = log \cup {EventOf(o)}
        /\ view' = [view EXCEPT ![ClientOf[o]] = ReplayAgent'] /\ Check(o, ReplayAgent')
    BY <1>11 DEF CommitRegistration
  <2>2. \A c \in Clients : told[c] \in Stopped => ReplayAgent'.status \in Stopped
    BY <2>1, ToldInLog, TasksAre DEF ReplayAgent
  <2>3. ReplayAgent'.status = "active" => told[ClientOf[o]] \notin Stopped
    BY <1>0, <2>2, TasksAre
  <2>4. \A q \in Ops : note'[q] \in {note[q], "none"} \/
          \E c \in Clients : note'[q] = told[c] /\ told[c] \notin Stopped
    BY <2>1, <2>3, CheckNotes
  <2>5. \A q \in Ops : note'[q] \notin {"paused", "terminated"}
    BY <2>4 DEF ToldSound, StaleUntilRefresh, Stopped
  <2>6. ASSUME NEW c \in Clients, told[c] \in Stopped
        PROVE  /\ view'[c].status # "absent"
               /\ view'[c].status = "active" => pending'[c] # {}
    <3>1. CASE c = ClientOf[o]
      <4>1. view'[c] = ReplayAgent'
        BY <2>1, <3>1 DEF TypeOK
      <4>2. view'[c].status \in Stopped
        BY <2>2, <2>6, <4>1
      <4>3. QED
        BY <1>0, <4>2
    <3>2. CASE c # ClientOf[o]
      <4>1. view'[c] = view[c]
        BY <2>1, <3>2 DEF TypeOK
      <4>2. QED
        BY <2>1, <2>6, <4>1 DEF ToldSound
    <3>3. QED
      BY <3>1, <3>2
  <2>7. QED
    BY <2>1, <2>2, <2>5, <2>6 DEF ToldSound, StaleUntilRefresh
<1>12. ASSUME NEW o \in Ops, Finish(o) PROVE ToldSound'
  <2>1. /\ UNCHANGED <<log, note, pending>>
        /\ view' = [view EXCEPT ![ClientOf[o]] = ReplayAgent]
        /\ told' = [told EXCEPT ![ClientOf[o]] = ReplayAgent.status]
    BY <1>12 DEF Finish
  <2>2. /\ \A d \in Clients \ {ClientOf[o]} : view'[d] = view[d] /\ told'[d] = told[d]
        /\ view'[ClientOf[o]] = ReplayAgent /\ told'[ClientOf[o]] = ReplayAgent.status
    BY <2>1, TasksAre DEF TypeOK
  <2>3. ReplayAgent' = ReplayAgent
    BY <2>1 DEF ReplayAgent
  <2>4. QED
    BY <1>0, <2>1, <2>2, <2>3 DEF ToldSound, StaleUntilRefresh
<1>13. ASSUME NEW x \in Tasks, Prepare(x) \/ Fail(x) PROVE ToldSound'
  <2>1. UNCHANGED <<told, note, log, view, pending>>
    BY <1>13 DEF Prepare, Fail, tables, clients, history
  <2>2. QED
    BY <2>1, ToldStays DEF ToldSound
<1>14. ASSUME NEW x \in Tasks, Commit(x) PROVE ToldSound'
  <2>1. /\ UNCHANGED <<note, view, pending>> /\ stage[x] = "anchoring"
        /\ log' = log \cup {EventOf(x)}
        /\ told' = IF doing[x] = "active" THEN [c \in Clients |-> "active"] ELSE told
    BY <1>14 DEF Commit, clients
  <2>2. CASE doing[x] = "active"
    BY <1>0, <2>1, <2>2 DEF ToldSound, StaleUntilRefresh
  <2>3. CASE doing[x] # "active"
    <3>1. \A c \in Clients : told[c] \in Stopped => Projection(log').status \in Stopped
      BY <2>1, <2>3, ToldInLog
    <3>2. QED
      BY <2>1, <2>3, <3>1 DEF ToldSound, ReplayAgent, StaleUntilRefresh
  <2>4. QED
    BY <2>2, <2>3
<1>15. ASSUME NEW p \in Processes, Crash(p) PROVE ToldSound'
  <2>1. UNCHANGED <<told, note, log>>
    BY <1>15, CrashIs
  <2>2. ASSUME NEW c \in Clients, told[c] \in Stopped
        PROVE  /\ view'[c].status # "absent"
               /\ view'[c].status = "active" => pending'[c] # {}
    <3>1. CASE ProcessOf[c] = p
      <4>1. view'[c] = [status |-> "dead", key |-> Nobody]
        BY <1>15, <3>1, CrashIs
      <4>2. QED
        BY <4>1
    <3>2. CASE ProcessOf[c] # p
      <4>1. view'[c] = view[c] /\ pending'[c] = pending[c]
        BY <1>15, <3>2, CrashIs
      <4>2. QED
        BY <2>2, <4>1 DEF ToldSound
    <3>3. QED
      BY <3>1, <3>2
  <2>3. QED
    BY <2>1, <2>2, ToldStays
<1>16. CASE UNCHANGED vars
  <2>1. UNCHANGED <<told, note, log, view, pending>>
    BY <1>16 DEF vars, tables, clients, history
  <2>2. QED
    BY <2>1, ToldStays DEF ToldSound
<1>17. QED
  BY <1>1, <1>2, <1>3, <1>4, <1>5, <1>6, <1>8, <1>9, <1>10, <1>11, <1>12, <1>13, <1>14, <1>15,
     <1>16, Steps

\* No write is admitted of a client whose last completed write found the agent
\* stopped, until a resume has reached the log.
THEOREM StaleUntilRefreshHolds == Spec => []StaleUntilRefresh
<1>1. Init => ToldSound
  <2>1. ASSUME Init PROVE ToldSound
    <3>1. /\ \A c \in Clients : told[c] \notin Stopped
          /\ \A o \in Ops : note[o] = "none"
      BY <2>1 DEF Init, Stopped
    <3>2. QED
      BY <3>1 DEF ToldSound, StaleUntilRefresh
  <2>2. QED
    BY <2>1
<1>2. Sound /\ ToldSound /\ [Next]_vars => ToldSound'
  BY ToldKept
<1>3. ToldSound => StaleUntilRefresh
  BY DEF ToldSound
<1>4. QED
  BY <1>1, <1>2, <1>3, SoundAlways, PTL DEF Spec

-----------------------------------------------------------------------------
(***************************************************************************)
(* The counter of memories                                                 *)
(***************************************************************************)

\* Only one task of a process is between two commits, whichever step is taken:
\* a task gets there when no other of its process is.
LEMMA OneStays ==
  ASSUME CountSound, NEW z \in Tasks,
         \A x \in Tasks \ {z} : stage'[x] \in Synchronous => stage[x] \in Synchronous,
         stage'[z] \in Synchronous => stage[z] \in Synchronous \/ HasLoop(z)
  PROVE  \A x, y \in Tasks : x # y /\ Process(x) = Process(y) =>
           ~(stage'[x] \in Synchronous /\ stage'[y] \in Synchronous)
BY DEF CountSound, HasLoop

\* A step that commits no memory and counts none.
LEMMA CountStays ==
  ASSUME CountSound, IsFiniteSet(log'), Memories' = Memories, counter' = counter,
         \A e \in Memories : stage'[e.by] = stage[e.by] \/
           (stage[e.by] \in {"counting", "counted"} /\ stage'[e.by] = "lost"),
         \A o \in Ops : stage'[o] \in {"counting", "counted"} =>
           stage'[o] = stage[o] /\ local'[o] = local[o],
         NEW z \in Tasks,
         \A x \in Tasks \ {z} : stage'[x] \in Synchronous => stage[x] \in Synchronous,
         stage'[z] \in Synchronous => stage[z] \in Synchronous \/ HasLoop(z)
  PROVE  CountSound'
<1>1. Returned' = Returned
  BY DEF Returned
<1>2. OneProcess' <=> OneProcess
  BY DEF OneProcess
<1>3. /\ \A e \in Memories : /\ e.by \in Ops
                             /\ stage'[e.by] \in {"counting", "counted", "ok", "lost"}
      /\ \A o \in Ops : stage'[o] \in {"counting", "counted"} => \E e \in Memories : e.by = o
  BY DEF CountSound
<1>4. /\ counter <= Cardinality(Returned)
      /\ \A o \in Ops : stage'[o] = "counted" => local'[o] <= Cardinality(Returned)
      /\ OneProcess => /\ Cardinality(Returned) <= counter
                       /\ \A o \in Ops : stage'[o] = "counted" => local'[o] = counter
  BY DEF CountSound
<1>5. \A e, f \in Memories : e.by = f.by => e = f
  BY DEF CountSound
<1>6. QED
  BY <1>1, <1>2, <1>3, <1>4, <1>5, OneStays DEF CountSound

\* Such a step on one task that has no memory in the log.
LEMMA CountStaysOn ==
  ASSUME Sound, CountSound, NEW z \in Tasks, NEW s,
         stage' = [stage EXCEPT ![z] = s],
         stage[z] \notin {"counting", "counted", "ok", "lost"}, s \notin {"counting", "counted"},
         s \in Synchronous => stage[z] \in Synchronous \/ HasLoop(z),
         counter' = counter, local' = local,
         log' = log \/ (log' = log \cup {EventOf(z)} /\ EventOf(z).kind # "memory")
  PROVE  CountSound'
<1>1. /\ \A x \in Tasks \ {z} : stage'[x] = stage[x]
      /\ stage'[z] = s
  BY DEF Sound, TypeOK
<1>2. IsFiniteSet(log') /\ Memories' = Memories
  BY FS_AddElement DEF CountSound, Memories
<1>3. \A e \in Memories : e.by \in Tasks /\ e.by # z
  BY TasksAre DEF CountSound
<1>4. QED
  BY <1>1, <1>2, <1>3, CountStays, TasksAre

\* No task is between two commits in these stages.
LEMMA StagesApart ==
  /\ "storing" \notin Synchronous /\ "failed" \notin Synchronous /\ "waiting" \notin Synchronous
  /\ "rejected" \notin Synchronous /\ "anchoring" \notin Synchronous /\ "ok" \notin Synchronous
BY StagesAre

\* A check does not count.
LEMMA CheckCounts ==
  ASSUME Sound, CountSound, NEW o \in Ops, NEW v, Check(o, v),
         stage[o] \notin {"counting", "counted", "ok", "lost"},
         counter' = counter, local' = local,
         log' = log \/ (log' = log \cup {EventOf(o)} /\ EventOf(o).kind # "memory")
  PROVE  CountSound'
<1>1. \E s \in {"storing", "failed", "rejected"} : stage' = [stage EXCEPT ![o] = s]
  BY CheckIs
<1>2. PICK s \in {"storing", "failed", "rejected"} : stage' = [stage EXCEPT ![o] = s]
  BY <1>1
<1>3. s \notin {"counting", "counted"} /\ s \notin Synchronous
  BY StagesAre
<1>4. QED
  BY <1>2, <1>3, CountStaysOn, TasksAre

\* A write that has committed has a memory, which is not counted yet.
LEMMA CommitCounts ==
  ASSUME Sound, CountSound, NEW o \in Ops, CommitWrite(o)
  PROVE  CountSound'
<1>1. /\ stage[o] = "anchoring" /\ HasLoop(o) /\ doing[o] = "memory"
      /\ log' = log \cup {EventOf(o)} /\ UNCHANGED <<counter, local>>
  BY DEF CommitWrite
<1>2. /\ \A x \in Tasks \ {o} : stage'[x] = stage[x]
      /\ stage'[o] = "counting"
  BY TasksAre DEF CommitWrite, Sound, TypeOK
<1>3. EventOf(o).kind = "memory" /\ EventOf(o).by = o
  BY <1>1, EventTyped, TasksAre DEF Sound
<1>4. Memories' = Memories \cup {EventOf(o)} /\ IsFiniteSet(log')
  BY <1>1, <1>3, FS_AddElement DEF Memories, CountSound
<1>5. \A e \in Memories : e.by \in Ops /\ e.by # o /\ stage'[e.by] = stage[e.by]
  BY <1>1, <1>2, TasksAre DEF CountSound
<1>6. Returned' = Returned
  BY <1>2, <1>3, <1>4, <1>5 DEF Returned
<1>7. OneProcess' => OneProcess
  BY <1>4 DEF OneProcess
<1>8. /\ \A e \in Memories' : e.by \in Ops /\ stage'[e.by] \in {"counting", "counted", "ok", "lost"}
      /\ \A e, f \in Memories' : e.by = f.by => e = f
      /\ \A q \in Ops : stage'[q] \in {"counting", "counted"} => \E e \in Memories' : e.by = q
  <2>1. \A e \in Memories' : e.by \in Ops /\ stage'[e.by] \in {"counting", "counted", "ok", "lost"}
    BY <1>2, <1>3, <1>4, <1>5 DEF CountSound
  <2>2. \A e, f \in Memories' : e.by = f.by => e = f
    BY <1>3, <1>4, <1>5 DEF CountSound
  <2>3. \A q \in Ops : stage'[q] \in {"counting", "counted"} => \E e \in Memories' : e.by = q
    BY <1>2, <1>3, <1>4, TasksAre DEF CountSound
  <2>4. QED
    BY <2>1, <2>2, <2>3
<1>9. \A q \in Ops : stage'[q] = "counted" => stage[q] = "counted"
  BY <1>2, TasksAre
<1>10. \A x, y \in Tasks : x # y /\ Process(x) = Process(y) =>
         ~(stage'[x] \in Synchronous /\ stage'[y] \in Synchronous)
  BY <1>1, <1>2, OneStays, TasksAre
<1>11. /\ counter <= Cardinality(Returned)
       /\ \A q \in Ops : stage[q] = "counted" => local[q] <= Cardinality(Returned)
       /\ OneProcess => /\ Cardinality(Returned) <= counter
                        /\ \A q \in Ops : stage[q] = "counted" => local[q] = counter
  BY DEF CountSound
<1>12. QED
  BY <1>1, <1>4, <1>6, <1>7, <1>8, <1>9, <1>10, <1>11 DEF CountSound

\* What a write reads of the counter has been counted.
LEMMA ReadCounts ==
  ASSUME Sound, CountSound, NEW o \in Ops, ReadCounter(o)
  PROVE  CountSound'
<1>1. /\ stage[o] = "counting" /\ UNCHANGED <<log, counter>>
  BY DEF ReadCounter, tables
<1>2. /\ \A x \in Tasks \ {o} : stage'[x] = stage[x]
      /\ stage'[o] = "counted"
      /\ \A q \in Ops \ {o} : local'[q] = local[q]
      /\ local'[o] = counter
  BY TasksAre DEF ReadCounter, Sound, TypeOK
<1>3. Memories' = Memories /\ (OneProcess' <=> OneProcess)
  BY <1>1 DEF Memories, OneProcess
<1>4. /\ \A e \in Memories : /\ e.by \in Ops
                             /\ stage'[e.by] \in {"counting", "counted", "ok", "lost"}
                             /\ stage'[e.by] = "ok" <=> stage[e.by] = "ok"
  BY <1>1, <1>2, TasksAre DEF CountSound
<1>5. Returned' = Returned
  BY <1>3, <1>4 DEF Returned
<1>6. \A q \in Ops : stage'[q] \in {"counting", "counted"} => \E e \in Memories : e.by = q
  BY <1>1, <1>2, TasksAre DEF CountSound
<1>7. \A x, y \in Tasks : x # y /\ Process(x) = Process(y) =>
         ~(stage'[x] \in Synchronous /\ stage'[y] \in Synchronous)
  BY <1>1, <1>2, OneStays, TasksAre, StagesAre
<1>8. /\ counter <= Cardinality(Returned)
      /\ \A q \in Ops : stage[q] = "counted" => local[q] <= Cardinality(Returned)
      /\ OneProcess => /\ Cardinality(Returned) <= counter
                       /\ \A q \in Ops : stage[q] = "counted" => local[q] = counter
  BY DEF CountSound
<1>9. /\ counter' <= Cardinality(Returned')
      /\ \A q \in Ops : stage'[q] = "counted" => local'[q] <= Cardinality(Returned')
      /\ OneProcess' => /\ Cardinality(Returned') <= counter'
                        /\ \A q \in Ops : stage'[q] = "counted" => local'[q] = counter'
  BY <1>1, <1>2, <1>3, <1>5, <1>8, TasksAre
<1>10. /\ IsFiniteSet(log') /\ \A e, f \in Memories' : e.by = f.by => e = f
  BY <1>1, <1>3 DEF CountSound
<1>11. QED
  BY <1>3, <1>4, <1>6, <1>7, <1>9, <1>10 DEF CountSound

\* A write that returns is counted, with all or some of those before it.
LEMMA FinishCounts ==
  ASSUME Sound, CountSound, NEW o \in Ops, Finish(o)
  PROVE  CountSound'
<1>1. /\ stage[o] = "counted" /\ counter' = local[o] + 1 /\ UNCHANGED <<log, local>>
  BY DEF Finish
<1>2. /\ \A x \in Tasks \ {o} : stage'[x] = stage[x]
      /\ stage'[o] = "ok"
  BY TasksAre DEF Finish, Sound, TypeOK
<1>3. Memories' = Memories /\ (OneProcess' <=> OneProcess)
  BY <1>1 DEF Memories, OneProcess
<1>4. PICK m \in Memories : m.by = o
  BY <1>1 DEF CountSound
<1>5. \A e \in Memories : e.by = o => e = m
  BY <1>4 DEF CountSound
<1>6. \A e \in Memories : e.by \in Ops /\ e.by \in Tasks
  BY TasksAre DEF CountSound
<1>7. m \notin Returned /\ Returned' = Returned \cup {m}
  BY <1>1, <1>2, <1>3, <1>4, <1>5, <1>6 DEF Returned
<1>8. IsFiniteSet(Returned)
  <2>1. Returned \in SUBSET log
    BY DEF Returned, Memories
  <2>2. QED
    BY <2>1, FS_Subset DEF CountSound
<1>9. Cardinality(Returned') = Cardinality(Returned) + 1 /\ Cardinality(Returned) \in Nat
  BY <1>7, <1>8, FS_AddElement, FS_CardinalityType
<1>10. /\ counter <= Cardinality(Returned)
       /\ \A q \in Ops : stage[q] = "counted" => local[q] <= Cardinality(Returned)
       /\ OneProcess => /\ Cardinality(Returned) <= counter
                        /\ \A q \in Ops : stage[q] = "counted" => local[q] = counter
  BY DEF CountSound
<1>11. counter \in Nat /\ \A q \in Ops : local[q] \in Nat
  BY DEF Sound, TypeOK
<1>12. counter' <= Cardinality(Returned') /\ (OneProcess => Cardinality(Returned') <= counter')
  BY <1>1, <1>9, <1>10, <1>11
<1>13. ASSUME NEW q \in Ops, stage'[q] = "counted"
       PROVE  local'[q] <= Cardinality(Returned') /\ ~OneProcess
  <2>1. q # o /\ stage[q] = "counted"
    BY <1>2, <1>13, TasksAre
  <2>2. local'[q] <= Cardinality(Returned')
    BY <1>1, <1>9, <1>10, <1>11, <2>1
  <2>3. PICK e \in Memories : e.by = q
    BY <2>1 DEF CountSound
  <2>4. Process(o) # Process(q)
    BY <1>1, <2>1, TasksAre, StagesAre DEF CountSound
  <2>5. ~OneProcess
    BY <1>4, <2>3, <2>4 DEF OneProcess
  <2>6. QED
    BY <2>2, <2>5
<1>14. /\ \A e \in Memories : stage'[e.by] \in {"counting", "counted", "ok", "lost"}
       /\ \A q \in Ops : stage'[q] \in {"counting", "counted"} => \E e \in Memories : e.by = q
  BY <1>2, <1>6, TasksAre DEF CountSound
<1>15. \A x, y \in Tasks : x # y /\ Process(x) = Process(y) =>
         ~(stage'[x] \in Synchronous /\ stage'[y] \in Synchronous)
  BY <1>1, <1>2, OneStays, TasksAre, StagesAre
<1>16. /\ IsFiniteSet(log') /\ \A e, f \in Memories' : e.by = f.by => e = f
  BY <1>1, <1>3 DEF CountSound
<1>17. QED
  BY <1>3, <1>6, <1>12, <1>13, <1>14, <1>15, <1>16 DEF CountSound

\* The counter keeps to the memories.
LEMMA CountKept ==
  ASSUME Sound, CountSound, [Next]_vars
  PROVE  CountSound'
<1>1. ASSUME NEW c \in Clients, Construct(c) PROVE CountSound'
  <2>1. UNCHANGED <<log, counter, local>> /\ HasLoop(c) /\ stage[c] = "idle"
    BY <1>1 DEF Construct, tables
  <2>2. CASE row = NoIdentity
    BY <1>1, <2>1, <2>2, CountStaysOn, TasksAre DEF Construct
  <2>3. CASE row # NoIdentity
    <3>1. UNCHANGED stage
      BY <1>1, <2>3 DEF Construct
    <3>2. Memories' = Memories /\ IsFiniteSet(log')
      BY <2>1 DEF Memories, CountSound
    <3>3. QED
      BY <2>1, <3>1, <3>2, CountStays, TasksAre
  <2>4. QED
    BY <2>2, <2>3
<1>2. ASSUME NEW c \in Clients, CreateRow(c) PROVE CountSound'
  <2>1. UNCHANGED <<log, counter, local>> /\ stage[c] = "creating"
    BY <1>2 DEF CreateRow
  <2>2. PICK s \in {"keying", "failed"} : stage' = [stage EXCEPT ![c] = s]
    BY <1>2, CreateRowIs DEF Sound
  <2>3. QED
    BY <2>1, <2>2, CountStaysOn, TasksAre, StagesAre
<1>3. ASSUME NEW c \in Clients, StoreKey(c) PROVE CountSound'
  <2>1. /\ UNCHANGED <<log, counter, local>> /\ stage[c] = "keying"
        /\ stage' = [stage EXCEPT ![c] = "storing"]
    BY <1>3 DEF StoreKey
  <2>2. c \in Tasks /\ "storing" \notin Synchronous
    BY TasksAre, StagesApart
  <2>3. QED
    BY <2>1, <2>2, CountStaysOn
<1>4. ASSUME NEW o \in Ops, NEW s \in Status, SetStatus(o, s) PROVE CountSound'
  <2>1. /\ UNCHANGED <<log, counter, local>> /\ stage[o] = "idle"
        /\ stage' = [stage EXCEPT ![o] = "storing"]
    BY <1>4 DEF SetStatus, Entered
  <2>2. o \in Tasks /\ "storing" \notin Synchronous
    BY TasksAre, StagesApart
  <2>3. QED
    BY <2>1, <2>2, CountStaysOn
<1>5. ASSUME NEW o \in Ops, SetStatusRaises(o) \/ WriteWaits(o) PROVE CountSound'
  <2>1. /\ UNCHANGED <<log, counter, local>> /\ stage[o] = "idle"
        /\ \E s \in {"failed", "waiting"} : stage' = [stage EXCEPT ![o] = s]
    BY <1>5 DEF SetStatusRaises, WriteWaits, Entered, tables
  <2>2. PICK s \in {"failed", "waiting"} : stage' = [stage EXCEPT ![o] = s]
    BY <2>1
  <2>3. o \in Tasks /\ s \notin Synchronous
    BY TasksAre, StagesApart
  <2>4. QED
    BY <2>1, <2>2, <2>3, CountStaysOn
<1>6. ASSUME NEW o \in Ops, WriteNow(o) \/ Gathered(o) PROVE CountSound'
  <2>1. /\ UNCHANGED <<log, counter, local>> /\ stage[o] \in {"idle", "waiting"}
        /\ Check(o, view[ClientOf[o]]) \/ Check(o, ReplayAgent)
    BY <1>6 DEF WriteNow, Gathered, Entered, tables
  <2>2. QED
    BY <2>1, CheckCounts
<1>7. ASSUME NEW o \in Ops, WriteReplays(o) PROVE CountSound'
  <2>1. UNCHANGED <<log, counter, local>> /\ stage[o] = "idle"
    BY <1>7 DEF WriteReplays, Entered, tables
  <2>2. CASE ReplayAgent = NoIdentity
    <3>1. stage' = [stage EXCEPT ![o] = "storing"]
      BY <1>7, <2>2 DEF WriteReplays
    <3>2. o \in Tasks /\ "storing" \notin Synchronous
      BY TasksAre, StagesApart
    <3>3. QED
      BY <2>1, <3>1, <3>2, CountStaysOn
  <2>3. CASE ReplayAgent # NoIdentity
    <3>1. Check(o, ReplayAgent)
      BY <1>7, <2>3 DEF WriteReplays
    <3>2. QED
      BY <2>1, <3>1, CheckCounts
  <2>4. QED
    BY <2>2, <2>3
<1>8. ASSUME NEW o \in Ops, CommitRegistration(o) PROVE CountSound'
  <2>1. /\ UNCHANGED <<counter, local>> /\ stage[o] = "anchoring" /\ doing[o] = "registered"
        /\ log' = log \cup {EventOf(o)} /\ Check(o, ReplayAgent')
    BY <1>8 DEF CommitRegistration
  <2>2. EventOf(o).kind # "memory"
    BY <2>1, EventTyped, TasksAre DEF Sound
  <2>3. QED
    BY <2>1, <2>2, CheckCounts
<1>9. ASSUME NEW x \in Tasks, Prepare(x) \/ Fail(x) PROVE CountSound'
  <2>1. /\ UNCHANGED <<log, counter, local>> /\ stage[x] \in {"storing", "anchoring"}
        /\ \E s \in {"anchoring", "failed"} : stage' = [stage EXCEPT ![x] = s]
    BY <1>9 DEF Prepare, Fail, tables
  <2>2. PICK s \in {"anchoring", "failed"} : stage' = [stage EXCEPT ![x] = s]
    BY <2>1
  <2>3. QED
    BY <2>1, <2>2, CountStaysOn, StagesAre
<1>10. ASSUME NEW x \in Tasks, Commit(x) PROVE CountSound'
  <2>1. /\ UNCHANGED <<counter, local>> /\ stage[x] = "anchoring"
        /\ log' = log \cup {EventOf(x)} /\ stage' = [stage EXCEPT ![x] = "ok"]
        /\ doing[x] \in Status \/ x \in Clients
    BY <1>10 DEF Commit
  <2>2. EventOf(x).kind # "memory"
    BY <2>1, EventTyped DEF Sound, Staged, Status
  <2>3. QED
    BY <2>1, <2>2, CountStaysOn, StagesAre
<1>11. ASSUME NEW p \in Processes, Crash(p) PROVE CountSound'
  <2>1. UNCHANGED <<log, counter>> /\ Memories' = Memories /\ IsFiniteSet(log')
    BY <1>11, CrashIs DEF Sound, Memories, CountSound
  <2>2. \A x \in Tasks : stage'[x] = stage[x] \/ (stage[x] \in InFlight /\ stage'[x] = "lost")
    BY <1>11, CrashIs DEF Sound
  <2>3. \A e \in Memories : stage'[e.by] = stage[e.by] \/
          (stage[e.by] \in {"counting", "counted"} /\ stage'[e.by] = "lost")
    BY <2>2, TasksAre, StagesAre DEF CountSound
  <2>4. ASSUME NEW o \in Ops, stage'[o] \in {"counting", "counted"}
        PROVE  stage'[o] = stage[o] /\ local'[o] = local[o]
    <3>1. CASE Process(o) = p
      <4>1. stage'[o] = IF stage[o] \in InFlight THEN "lost" ELSE stage[o]
        BY <1>11, <3>1, CrashIs, TasksAre DEF Sound
      <4>2. QED
        BY <2>4, <4>1, StagesAre
    <3>2. CASE Process(o) # p
      BY <1>11, <3>2, CrashIs, TasksAre DEF Sound
    <3>3. QED
      BY <3>1, <3>2
  <2>5. \A x \in Tasks : stage'[x] \in Synchronous => stage[x] \in Synchronous
    BY <2>2, StagesAre
  <2>6. PICK z \in Tasks : TRUE
    BY <1>11 DEF Crash
  <2>7. QED
    BY <2>1, <2>3, <2>4, <2>5, <2>6, CountStays
<1>12. CASE UNCHANGED vars
  BY <1>12 DEF vars, appends, tables, CountSound, Memories, Returned, OneProcess
<1>13. QED
  BY <1>1, <1>2, <1>3, <1>4, <1>5, <1>6, <1>7, <1>8, <1>9, <1>10, <1>11, <1>12,
     CommitCounts, ReadCounts, FinishCounts, Steps

\* The counter never runs ahead of the log, and counts a single process exactly.
LEMMA CounterIs ==
  ASSUME Sound, CountSound
  PROVE  CounterCounts
<1>1. Memories \in SUBSET log /\ Returned \in SUBSET Memories
  BY DEF Memories, Returned
<1>2. IsFiniteSet(Memories) /\ IsFiniteSet(Returned)
  BY <1>1, FS_Subset DEF CountSound
<1>3. /\ Cardinality(Returned) <= Cardinality(Memories)
      /\ Cardinality(Returned) \in Nat /\ Cardinality(Memories) \in Nat
  BY <1>1, <1>2, FS_Subset, FS_CardinalityType
<1>4. counter <= Cardinality(Memories)
  BY <1>3 DEF CountSound, Sound, TypeOK
<1>5. ASSUME Cardinality({Process(e.by) : e \in Memories}) = 1
      PROVE  Cardinality({e \in Memories : stage[e.by] = "ok"}) <= counter
  <2> DEFINE S == {Process(e.by) : e \in Memories}
             f == [e \in Memories |-> Process(e.by)]
  <2>1. f \in Surjection(Memories, S)
    BY DEF Surjection
  <2>2. IsFiniteSet(S)
    BY <1>2, <2>1, FS_Surjection
  <2>3. \E p : S = {p}
    BY <1>5, <2>2, FS_Singleton
  <2>4. OneProcess
    BY <2>3 DEF OneProcess
  <2>5. QED
    BY <2>4 DEF CountSound, Returned
<1>6. QED
  BY <1>4, <1>5 DEF CounterCounts

-----------------------------------------------------------------------------
(***************************************************************************)
(* The row and the log                                                     *)
(***************************************************************************)

\* What one task has to do with a change, given what tasks append.
LEMMA ChangingIs ==
  ASSUME Staged
  PROVE  /\ \A c \in Clients :
              c \in Changing <=> stage[c] \in {"creating", "keying", "storing", "anchoring"}
         /\ \A o \in Ops : o \in Changing <=> /\ stage[o] \in {"storing", "anchoring"}
                                              /\ doing[o] \in Status \cup {"registered"}
         /\ Changing \subseteq Tasks
<1>1. "none" \notin Status /\ "memory" \notin Status \cup {"registered"}
  BY DEF Status
<1>2. ASSUME NEW c \in Clients
      PROVE  c \in Changing <=> stage[c] \in {"creating", "keying", "storing", "anchoring"}
  BY <1>1, StagesAre, TasksAre DEF Changing, Constructing, Staged
<1>3. ASSUME NEW o \in Ops
      PROVE  o \in Changing <=> /\ stage[o] \in {"storing", "anchoring"}
                                /\ doing[o] \in Status \cup {"registered"}
  BY <1>1, StagesAre, TasksAre DEF Changing, Constructing, Staged
<1>4. Changing \subseteq Tasks
  BY TasksAre DEF Changing, Constructing
<1>5. QED
  BY <1>2, <1>3, <1>4

\* The same of the next state.
LEMMA ChangingIsNext ==
  ASSUME Staged'
  PROVE  /\ \A c \in Clients :
              c \in Changing' <=> stage'[c] \in {"creating", "keying", "storing", "anchoring"}
         /\ \A o \in Ops : o \in Changing' <=> /\ stage'[o] \in {"storing", "anchoring"}
                                               /\ doing'[o] \in Status \cup {"registered"}
         /\ Changing' \subseteq Tasks
<1>1. "none" \notin Status /\ "memory" \notin Status \cup {"registered"}
  BY DEF Status
<1>2. ASSUME NEW c \in Clients
      PROVE  c \in Changing' <=> stage'[c] \in {"creating", "keying", "storing", "anchoring"}
  BY <1>1, StagesAre, TasksAre DEF Changing, Constructing, Staged
<1>3. ASSUME NEW o \in Ops
      PROVE  o \in Changing' <=> /\ stage'[o] \in {"storing", "anchoring"}
                                 /\ doing'[o] \in Status \cup {"registered"}
  BY <1>1, StagesAre, TasksAre DEF Changing, Constructing, Staged
<1>4. Changing' \subseteq Tasks
  BY TasksAre DEF Changing, Constructing
<1>5. QED
  BY <1>2, <1>3, <1>4

\* What the log and the row say together.
Agreement == ChangesSound /\ RegisteredSound

\* A step that starts, ends or commits no change.
LEMMA AgreementStays ==
  ASSUME Agreement, Changing' = Changing, row' = row,
         Registrations' = Registrations, Changes' = Changes,
         muddled => muddled', torn => torn',
         \A c \in Clients \cap Changing : stage'[c] = "creating" <=> stage[c] = "creating",
         \A o \in Ops \cap Changing :
           /\ doing'[o] = doing[o]
           /\ stage'[o] = "anchoring" => \/ stage[o] = "anchoring" /\ link'[o] = link[o]
                                         \/ \A e \in Registrations \cup Changes : e.ts < link'[o].ts
  PROVE  Agreement'
<1>1. ASSUME ~muddled', NEW o \in Ops \cap Changing
      PROVE  /\ doing'[o] # "registered" /\ Changing = {o} /\ Registrations # {}
             /\ row.status = doing'[o]
             /\ stage'[o] = "anchoring" => \A e \in Registrations \cup Changes : e.ts < link'[o].ts
  BY <1>1 DEF Agreement, ChangesSound
<1>2. ASSUME ~muddled'
      PROVE  /\ row # NoIdentity => \/ Registrations # {}
                                    \/ \E c \in Clients \cap Changing : stage'[c] # "creating"
             /\ \A e \in Registrations, f \in Changes : e.ts < f.ts
             /\ Clients \cap Changing # {} => Changes = {} /\ row.status \in {"active", "none"}
             /\ Changing = {} /\ row # NoIdentity =>
                  /\ Changes = {} => row.status = "active"
                  /\ \A e : Last(e, Changes) => row.status = e.kind
  BY <1>2 DEF Agreement, ChangesSound
<1>3. ChangesSound'
  BY <1>1, <1>2 DEF ChangesSound, Last
<1>4. RegisteredSound'
  BY DEF Agreement, RegisteredSound
<1>5. QED
  BY <1>3, <1>4 DEF Agreement

\* Such a step of one task, which is about no change before it or after.
LEMMA AgreementStaysOn ==
  ASSUME Sound, Sound', Agreement, NEW z \in Tasks, z \notin Changing, z \notin Changing',
         row' = row, Registrations' = Registrations, Changes' = Changes,
         muddled => muddled', torn => torn',
         \A x \in Tasks \ {z} : stage'[x] = stage[x] /\ doing'[x] = doing[x] /\ link'[x] = link[x]
  PROVE  Agreement'
<1>1. Changing' = Changing
  <2>1. \A x \in Tasks \ {z} : x \in Changing' <=> x \in Changing
    BY ChangingIs, ChangingIsNext, TasksAre DEF Sound
  <2>2. Changing \subseteq Tasks /\ Changing' \subseteq Tasks
    BY ChangingIs, ChangingIsNext DEF Sound
  <2>3. QED
    BY <2>1, <2>2
<1>2. \A x \in Tasks : x \in Changing => stage'[x] = stage[x] /\ doing'[x] = doing[x]
                                           /\ link'[x] = link[x]
  OBVIOUS
<1>3. QED
  BY <1>1, <1>2, AgreementStays, TasksAre

\* A log that gains an event that is neither.
LEMMA MemoryAdds ==
  ASSUME NEW e, e.kind = "memory", log' = log \cup {e}
  PROVE  Registrations' = Registrations /\ Changes' = Changes
BY DEF Registrations, Changes, Status

\* A log as it was.
LEMMA NothingAdds ==
  ASSUME log' = log
  PROVE  Registrations' = Registrations /\ Changes' = Changes
BY DEF Registrations, Changes

\* A check takes no part in a change.
LEMMA CheckAgrees ==
  ASSUME Sound, Sound', Agreement, NEW o \in Ops, NEW v, Check(o, v), o \notin Changing,
         row' = row, link' = link, Registrations' = Registrations, Changes' = Changes,
         muddled => muddled', torn => torn'
  PROVE  Agreement'
<1>1. \A x \in Tasks \ {o} : stage'[x] = stage[x] /\ doing'[x] = doing[x]
  BY CheckMoves DEF Sound
<1>2. doing'[o] = "memory" \/ stage'[o] \in {"failed", "rejected"}
  BY CheckMoves DEF Sound
<1>3. o \notin Changing'
  BY <1>2, ChangingIsNext DEF Sound, Status
<1>4. QED
  BY <1>1, <1>3, AgreementStaysOn, TasksAre

\* An operation has nothing under way while there is no row, nor a client
\* anything but the making of it.
LEMMA NothingYet ==
  ASSUME Sound, row = NoIdentity
  PROVE  /\ log = {} /\ Registrations = {} /\ Changes = {}
         /\ \A o \in Ops : o \notin Changing
         /\ \A c \in Clients : c \in Changing => stage[c] = "creating"
<1>1. log = {} /\ Registrations = {} /\ Changes = {}
  BY DEF Sound, RowFirst, Registrations, Changes
<1>2. \A o \in Ops : o \notin Changing
  BY ChangingIs DEF Sound, RowFirst
<1>3. \A c \in Clients : c \in Changing => stage[c] = "creating"
  BY ChangingIs DEF Sound, RowFirst
<1>4. QED
  BY <1>1, <1>2, <1>3

\* A client that finds no row starts to make one.
LEMMA ConstructAgrees ==
  ASSUME Sound, Sound', Agreement, NEW c \in Clients, Construct(c)
  PROVE  Agreement'
<1>1. UNCHANGED <<log, row, doing, link, muddled>> /\ stage[c] = "idle"
  BY DEF Construct, tables
<1>2. Registrations' = Registrations /\ Changes' = Changes
  BY <1>1, NothingAdds
<1>3. CASE row = NoIdentity
  <2>1. stage' = [stage EXCEPT ![c] = "creating"]
    BY <1>3 DEF Construct
  <2>2. stage'[c] = "creating" /\ \A x \in Tasks \ {c} : stage'[x] = stage[x]
    BY <2>1, TasksAre DEF Sound, TypeOK
  <2>3. /\ \A o \in Ops : o \notin Changing'
        /\ \A d \in Clients : d \in Changing' => stage'[d] = "creating"
    BY <1>1, <1>3, <2>2, NothingYet, ChangingIs, ChangingIsNext, TasksAre DEF Sound
  <2>4. c \in Changing' /\ row.status = "none" /\ Registrations = {} /\ Changes = {}
    BY <1>3, <2>2, NothingYet, ChangingIsNext DEF Sound, NoIdentity
  <2>5. ChangesSound'
    BY <1>1, <1>2, <1>3, <2>3, <2>4 DEF ChangesSound
  <2>6. RegisteredSound'
    BY <1>2, <2>3, <2>4 DEF RegisteredSound
  <2>7. QED
    BY <2>5, <2>6 DEF Agreement
<1>4. CASE row # NoIdentity
  <2>1. UNCHANGED <<stage, torn>>
    BY <1>4 DEF Construct
  <2>2. c \notin Changing /\ c \notin Changing'
    BY <1>1, <2>1, ChangingIs, ChangingIsNext DEF Sound
  <2>3. QED
    BY <1>1, <1>2, <2>1, <2>2, AgreementStaysOn, TasksAre
<1>5. QED
  BY <1>3, <1>4

\* The row is made, or was there: then the registration was torn, or another
\* client is about to append one, or has.
LEMMA CreateRowAgrees ==
  ASSUME Sound, Sound', KeyedSound, Agreement, NEW c \in Clients, CreateRow(c)
  PROVE  Agreement'
<1>1. UNCHANGED <<log, doing, link, muddled, torn>> /\ stage[c] = "creating"
  BY DEF CreateRow, history
<1>2. Registrations' = Registrations /\ Changes' = Changes
  BY <1>1, NothingAdds
<1>3. c \in Changing /\ c \in Clients \cap Changing
  BY <1>1, ChangingIs DEF Sound
<1>4. CASE stage' = [stage EXCEPT ![c] = "keying"]
  <2>1. stage'[c] = "keying" /\ \A x \in Tasks \ {c} : stage'[x] = stage[x]
    BY <1>4, TasksAre DEF Sound, TypeOK
  <2>2. Changing' = Changing
    <3>1. \A x \in Tasks \ {c} : x \in Changing' <=> x \in Changing
      BY <1>1, <2>1, ChangingIs, ChangingIsNext, TasksAre DEF Sound
    <3>2. c \in Changing'
      BY <2>1, ChangingIsNext DEF Sound
    <3>3. QED
      BY <1>3, <3>1, <3>2, ChangingIs, ChangingIsNext DEF Sound
  <2>3. CASE row = NoIdentity
    <3>1. row' = [status |-> "active", key |-> c]
      BY <1>4, <2>1, <2>3, CreateRowIs, TasksAre DEF Sound, TypeOK
    <3>2. row'.status = "active" /\ row'.key = c
      BY <3>1
    <3>3. /\ Registrations = {} /\ Changes = {} /\ \A o \in Ops : o \notin Changing
          /\ \A d \in Clients \cap Changing : stage[d] = "creating"
      BY <2>3, NothingYet
    <3>4. ChangesSound'
      BY <1>2, <1>3, <2>1, <2>2, <3>2, <3>3 DEF ChangesSound
    <3>5. \A d \in Clients \cap Changing : stage'[d] # "creating" => d = c
      BY <2>1, <3>3, TasksAre
    <3>6. RegisteredSound'
      BY <1>2, <2>2, <3>2, <3>3, <3>5 DEF RegisteredSound
    <3>7. QED
      BY <3>4, <3>6 DEF Agreement
  <2>4. CASE row # NoIdentity
    <3>1. row' = row /\ torn
      <4>1. row' = row
        BY <2>4, CreateRowIs DEF Sound
      <4>2. torn
        BY <1>1, <2>4 DEF KeyedSound
      <4>3. QED
        BY <4>1, <4>2
    <3>2. muddled \/ (Changes = {} /\ row.status \in {"active", "none"} /\ Ops \cap Changing = {})
      BY <1>3, TasksAre DEF Agreement, ChangesSound
    <3>3. ChangesSound'
      BY <1>1, <1>2, <1>3, <2>1, <2>2, <3>1, <3>2 DEF ChangesSound
    <3>4. RegisteredSound'
      BY <1>1, <3>1 DEF RegisteredSound
    <3>5. QED
      BY <3>3, <3>4 DEF Agreement
  <2>5. QED
    BY <2>3, <2>4
<1>5. CASE /\ stage' = [stage EXCEPT ![c] = "failed"]
           /\ row # NoIdentity /\ row' = row
  <2>1. stage'[c] = "failed" /\ \A x \in Tasks \ {c} : stage'[x] = stage[x]
    BY <1>5, TasksAre DEF Sound, TypeOK
  <2>2. /\ c \notin Changing' /\ Changing' \subseteq Tasks
        /\ \A x \in Tasks \ {c} : x \in Changing' <=> x \in Changing
    BY <1>1, <2>1, ChangingIs, ChangingIsNext, TasksAre DEF Sound
  <2>3. torn
    BY <1>1, <1>5 DEF KeyedSound
  <2>4. row.status \in Status
    BY <1>5 DEF Sound, TypeOK, Identity
  <2>5. ASSUME ~muddled
        PROVE  /\ Changes = {} /\ row.status = "active" /\ Ops \cap Changing = {}
               /\ \/ Registrations # {}
                  \/ \E d \in Clients \cap Changing : d # c /\ stage[d] # "creating"
    <3>1. Changes = {} /\ row.status \in {"active", "none"} /\ Ops \cap Changing = {}
      BY <1>3, <2>5, TasksAre DEF Agreement, ChangesSound
    <3>2. Registrations # {} \/ \E d \in Clients \cap Changing : stage[d] # "creating"
      BY <1>5, <2>5 DEF Agreement, ChangesSound
    <3>3. QED
      BY <1>1, <2>4, <3>1, <3>2 DEF Status
  <2>6. ASSUME ~muddled
        PROVE  \/ Registrations # {}
               \/ \E d \in Clients \cap Changing' : stage'[d] # "creating"
    BY <2>1, <2>2, <2>5, <2>6, TasksAre
  <2>7. ASSUME ~muddled PROVE Ops \cap Changing' = {}
    BY <2>2, <2>5, <2>7, TasksAre
  <2>8. ChangesSound'
    BY <1>1, <1>2, <1>5, <2>5, <2>6, <2>7 DEF ChangesSound, Last
  <2>9. RegisteredSound'
    BY <1>1, <2>3 DEF RegisteredSound
  <2>10. QED
    BY <2>8, <2>9 DEF Agreement
<1>6. QED
  BY <1>4, <1>5, CreateRowIs DEF Sound

\* A change of status has the agent to itself, or muddles.
LEMMA SetStatusAgrees ==
  ASSUME Sound, Sound', Agreement, NEW o \in Ops, NEW s \in Status, SetStatus(o, s)
  PROVE  Agreement'
<1>1. /\ UNCHANGED <<log, torn>> /\ muddled' = (muddled \/ Changing # {})
      /\ stage' = [stage EXCEPT ![o] = "storing"] /\ doing' = [doing EXCEPT ![o] = s]
  BY DEF SetStatus
<1>2. Registrations' = Registrations /\ Changes' = Changes
  BY <1>1, NothingAdds
<1>3. row # NoIdentity
  BY TasksAre DEF SetStatus, Entered, Sound, RowFirst
<1>4. row'.status = s /\ row'.key = row.key
  <2>1. row \in Identity /\ row' = [row EXCEPT !.status = s]
    BY <1>3 DEF SetStatus, UpdateStatus, Sound, TypeOK
  <2>2. QED
    BY <2>1 DEF Identity
<1>5. SUFFICES ASSUME ~muddled' PROVE Agreement'
  BY DEF Agreement, ChangesSound, RegisteredSound
<1>6. ~muddled /\ Changing = {}
  BY <1>1, <1>5
<1>7. Registrations # {}
  BY <1>3, <1>6 DEF Agreement, ChangesSound
<1>8. /\ stage'[o] = "storing" /\ doing'[o] = s
      /\ \A x \in Tasks \ {o} : stage'[x] = stage[x] /\ doing'[x] = doing[x]
  BY <1>1, TasksAre DEF Sound, TypeOK
<1>9. Changing' = {o}
  <2>1. o \in Changing'
    BY <1>8, ChangingIsNext DEF Sound
  <2>2. \A x \in Tasks \ {o} : x \notin Changing'
    BY <1>6, <1>8, ChangingIs, ChangingIsNext, TasksAre DEF Sound
  <2>3. QED
    BY <2>1, <2>2, ChangingIsNext DEF Sound
<1>10. s # "registered" /\ Clients \cap Changing' = {}
  BY <1>9, TasksAre DEF Status
<1>11. \A e \in Registrations, f \in Changes : e.ts < f.ts
  BY <1>6 DEF Agreement, ChangesSound
<1>12. ChangesSound'
  BY <1>2, <1>4, <1>7, <1>8, <1>9, <1>10, <1>11 DEF ChangesSound
<1>13. RegisteredSound'
  BY <1>1, <1>2, <1>4, <1>6, <1>10 DEF RegisteredSound, Agreement
<1>14. QED
  BY <1>12, <1>13 DEF Agreement

\* The event of a change that has the agent to itself comes last, and says what
\* the row does; a registration is of the row's key.
LEMMA CommitAgrees ==
  ASSUME Sound, Sound', Agreement, NEW x \in Tasks, Commit(x)
  PROVE  Agreement'
<1>1. /\ UNCHANGED <<row, muddled, torn, doing, link>> /\ stage[x] = "anchoring"
      /\ log' = log \cup {EventOf(x)} /\ stage' = [stage EXCEPT ![x] = "ok"]
      /\ doing[x] \in Status \/ x \in Clients
  BY DEF Commit
<1>2. /\ EventOf(x) \in Event /\ EventOf(x).kind = doing[x] /\ EventOf(x).ts = link[x].ts
      /\ EventOf(x).key = envelope[x].key
  BY <1>1, EventTyped DEF Sound
<1>3. stage'[x] = "ok" /\ \A y \in Tasks \ {x} : stage'[y] = stage[y]
  BY <1>1 DEF Sound, TypeOK
<1>4. /\ x \notin Changing' /\ Changing' \subseteq Tasks
      /\ \A y \in Tasks \ {x} : y \in Changing' <=> y \in Changing
  BY <1>1, <1>3, ChangingIs, ChangingIsNext, TasksAre DEF Sound
<1>5. SUFFICES ASSUME ~muddled PROVE Agreement'
  BY <1>1 DEF Agreement, ChangesSound, RegisteredSound
<1>6. CASE x \in Clients
  <2>1. doing[x] = "registered" /\ envelope[x].key = x /\ x \in Clients \cap Changing
    BY <1>1, <1>6, ChangingIs DEF Sound, Staged
  <2>2. Registrations' = Registrations \cup {EventOf(x)} /\ Changes' = Changes
    BY <1>1, <1>2, <2>1 DEF Registrations, Changes, Status
  <2>3. /\ Changes = {} /\ row.status \in {"active", "none"} /\ Ops \cap Changing = {}
    BY <1>5, <2>1, TasksAre DEF Agreement, ChangesSound
  <2>4. row # NoIdentity /\ row.status = "active"
    BY <1>1, <1>6, <2>3 DEF Sound, RowFirst, TypeOK, Identity, Status
  <2>5. Ops \cap Changing' = {} /\ Registrations' # {}
    BY <1>4, <2>2, <2>3
  <2>6. ChangesSound'
    BY <1>1, <2>2, <2>3, <2>4, <2>5 DEF ChangesSound, Last
  <2>7. ASSUME ~torn
        PROVE  /\ \A e \in Registrations' : e.key = row.key
               /\ \A d \in Clients \cap Changing' : stage'[d] # "creating" => row.key = d
    <3>1. row.key = x /\ \A e \in Registrations : e.key = row.key
      BY <1>1, <1>5, <2>1, <2>7 DEF Agreement, RegisteredSound
    <3>2. \A e \in Registrations' : e.key = row.key
      BY <1>2, <2>1, <2>2, <3>1
    <3>3. ASSUME NEW d \in Clients \cap Changing', stage'[d] # "creating" PROVE row.key = d
      <4>1. d # x /\ d \in Clients \cap Changing /\ stage[d] # "creating"
        BY <1>3, <1>4, <3>3, TasksAre
      <4>2. QED
        BY <1>5, <2>7, <4>1 DEF Agreement, RegisteredSound
    <3>4. QED
      BY <3>2, <3>3
  <2>8. RegisteredSound'
    BY <1>1, <2>7 DEF RegisteredSound
  <2>9. QED
    BY <2>6, <2>8 DEF Agreement
<1>7. CASE x \in Ops
  <2>1. doing[x] \in Status /\ x \in Ops \cap Changing
    BY <1>1, <1>7, ChangingIs, TasksAre DEF Sound
  <2>2. Changes' = Changes \cup {EventOf(x)} /\ Registrations' = Registrations
    BY <1>1, <1>2, <2>1 DEF Registrations, Changes, Status
  <2>3. /\ Changing = {x} /\ Registrations # {} /\ row.status = doing[x]
        /\ \A e \in Registrations \cup Changes : e.ts < EventOf(x).ts
    BY <1>1, <1>2, <1>5, <2>1 DEF Agreement, ChangesSound
  <2>4. Changing' = {}
    BY <1>4, <2>3
  <2>5. \A e \in Registrations, f \in Changes : e.ts < f.ts
    BY <1>5 DEF Agreement, ChangesSound
  <2>6. ASSUME NEW e, Last(e, Changes') PROVE row.status = e.kind
    <3>1. e \in Changes' /\ EventOf(x).ts <= e.ts
      BY <2>2, <2>6 DEF Last
    <3>2. \A f \in Changes : f.ts \in Nat /\ f.ts < EventOf(x).ts /\ EventOf(x).ts \in Nat
      BY <1>2, <2>3 DEF Changes, Event, Sound, TypeOK
    <3>3. e = EventOf(x)
      BY <2>2, <3>1, <3>2
    <3>4. QED
      BY <1>2, <2>3, <3>3
  <2>7. ChangesSound'
    BY <1>1, <2>2, <2>3, <2>4, <2>5, <2>6 DEF ChangesSound
  <2>8. RegisteredSound'
    BY <1>1, <1>5, <2>2, <2>4 DEF RegisteredSound, Agreement
  <2>9. QED
    BY <2>7, <2>8 DEF Agreement
<1>8. QED
  BY <1>6, <1>7, TasksAre

\* The row and the log keep saying the same of the agent.
LEMMA AgreementKept ==
  ASSUME Sound, Sound', KeyedSound, Agreement, [Next]_vars
  PROVE  Agreement'
<1>1. ASSUME NEW c \in Clients, StoreKey(c) PROVE Agreement'
  <2>1. /\ UNCHANGED <<log, row, link, muddled, torn>> /\ stage[c] = "keying"
        /\ stage' = [stage EXCEPT ![c] = "storing"] /\ doing' = [doing EXCEPT ![c] = "registered"]
    BY <1>1 DEF StoreKey, history
  <2>2. /\ stage'[c] = "storing" /\ doing'[c] = "registered"
        /\ \A x \in Tasks \ {c} : stage'[x] = stage[x] /\ doing'[x] = doing[x]
    BY <2>1, TasksAre DEF Sound, TypeOK
  <2>3. Changing' = Changing
    <3>1. c \in Changing /\ c \in Changing'
      BY <2>1, <2>2, ChangingIs, ChangingIsNext DEF Sound
    <3>2. \A x \in Tasks \ {c} : x \in Changing' <=> x \in Changing
      BY <2>2, ChangingIs, ChangingIsNext, TasksAre DEF Sound
    <3>3. QED
      BY <3>1, <3>2, ChangingIs, ChangingIsNext DEF Sound
  <2>4. Registrations' = Registrations /\ Changes' = Changes
    BY <2>1, NothingAdds
  <2>5. \A d \in Clients \cap Changing : stage'[d] = "creating" <=> stage[d] = "creating"
    BY <2>1, <2>2, TasksAre
  <2>6. \A o \in Ops \cap Changing : stage'[o] = stage[o] /\ doing'[o] = doing[o]
    BY <2>2, TasksAre
  <2>7. QED
    BY <2>1, <2>3, <2>4, <2>5, <2>6, AgreementStays
<1>2. ASSUME NEW o \in Ops,
             SetStatusRaises(o) \/ WriteWaits(o) \/ ReadCounter(o) \/ Finish(o)
      PROVE  Agreement'
  <2>1. /\ UNCHANGED <<log, row, link, doing, muddled, torn>>
        /\ stage[o] \in {"idle", "counting", "counted"}
        /\ \E s \in {"failed", "waiting", "counted", "ok"} : stage' = [stage EXCEPT ![o] = s]
    BY <1>2 DEF SetStatusRaises, WriteWaits, ReadCounter, Finish, Entered, tables, history
  <2>2. PICK s \in {"failed", "waiting", "counted", "ok"} : stage' = [stage EXCEPT ![o] = s]
    BY <2>1
  <2>3. stage'[o] = s /\ \A x \in Tasks \ {o} : stage'[x] = stage[x]
    BY <2>2, TasksAre DEF Sound, TypeOK
  <2>4. o \notin Changing /\ o \notin Changing'
    BY <2>1, <2>3, ChangingIs, ChangingIsNext DEF Sound
  <2>5. Registrations' = Registrations /\ Changes' = Changes
    BY <2>1, NothingAdds
  <2>6. QED
    BY <2>1, <2>3, <2>4, <2>5, AgreementStaysOn, TasksAre
<1>3. ASSUME NEW o \in Ops, WriteNow(o) \/ Gathered(o) PROVE Agreement'
  <2>1. /\ UNCHANGED <<log, row, link, muddled, torn>> /\ stage[o] \in {"idle", "waiting"}
        /\ Check(o, view[ClientOf[o]]) \/ Check(o, ReplayAgent)
    BY <1>3 DEF WriteNow, Gathered, Entered, tables
  <2>2. o \notin Changing
    BY <2>1, ChangingIs DEF Sound
  <2>3. Registrations' = Registrations /\ Changes' = Changes
    BY <2>1, NothingAdds
  <2>4. QED
    BY <2>1, <2>2, <2>3, CheckAgrees
<1>4. ASSUME NEW o \in Ops, WriteReplays(o) PROVE Agreement'
  <2>1. UNCHANGED <<log, row, link, torn>> /\ Entered(o) /\ view[ClientOf[o]].status = "none"
    BY <1>4 DEF WriteReplays, tables
  <2>2. o \notin Changing /\ row # NoIdentity
    BY <2>1, ChangingIs, TasksAre DEF Entered, Sound, RowFirst
  <2>3. CASE ReplayAgent = NoIdentity
    <3>1. muddled' = (muddled \/ Changing # {})
      BY <1>4, <2>3 DEF WriteReplays
    <3>2. Registrations = {}
      <4>1. \A e \in log : e.kind # "registered"
        <5>1. log \in SUBSET Event /\ clock \in Nat /\ \A e \in log : e.ts < clock
          BY DEF Sound, TypeOK, Stamped
        <5>2. NoIdentity \notin Identity
          BY DEF NoIdentity, Identity, Status
        <5>3. QED
          BY <2>3, <5>1, <5>2, ProjectionIs DEF ReplayAgent
      <4>2. QED
        BY <4>1 DEF Registrations
    <3>3. muddled'
      BY <2>2, <3>1, <3>2 DEF Agreement, ChangesSound
    <3>4. QED
      BY <3>3 DEF Agreement, ChangesSound, RegisteredSound
  <2>4. CASE ReplayAgent # NoIdentity
    <3>1. Check(o, ReplayAgent) /\ UNCHANGED muddled
      BY <1>4, <2>4 DEF WriteReplays
    <3>2. Registrations' = Registrations /\ Changes' = Changes
      BY <2>1, NothingAdds
    <3>3. QED
      BY <2>1, <2>2, <3>1, <3>2, CheckAgrees
  <2>5. QED
    BY <2>3, <2>4
<1>5. ASSUME NEW o \in Ops, CommitWrite(o) PROVE Agreement'
  <2>1. /\ UNCHANGED <<row, link, doing, muddled, torn>> /\ stage[o] = "anchoring"
        /\ doing[o] = "memory" /\ log' = log \cup {EventOf(o)}
        /\ stage' = [stage EXCEPT ![o] = "counting"]
    BY <1>5 DEF CommitWrite, history
  <2>2. stage'[o] = "counting" /\ \A x \in Tasks \ {o} : stage'[x] = stage[x]
    BY <2>1, TasksAre DEF Sound, TypeOK
  <2>3. o \notin Changing /\ o \notin Changing'
    BY <2>1, <2>2, ChangingIs, ChangingIsNext DEF Sound, Status
  <2>4. EventOf(o).kind = "memory"
    BY <2>1, EventTyped, TasksAre DEF Sound
  <2>5. Registrations' = Registrations /\ Changes' = Changes
    BY <2>1, <2>4, MemoryAdds
  <2>6. QED
    BY <2>1, <2>2, <2>3, <2>5, AgreementStaysOn, TasksAre
<1>6. ASSUME NEW o \in Ops, CommitRegistration(o) PROVE Agreement'
  <2>1. stage[o] = "anchoring" /\ doing[o] = "registered" /\ muddled' = muddled
    BY <1>6 DEF CommitRegistration
  <2>2. o \in Ops \cap Changing
    BY <2>1, ChangingIs DEF Sound
  <2>3. muddled'
    BY <2>1, <2>2 DEF Agreement, ChangesSound
  <2>4. QED
    BY <2>3 DEF Agreement, ChangesSound, RegisteredSound
<1>7. ASSUME NEW x \in Tasks, Prepare(x) PROVE Agreement'
  <2>1. /\ UNCHANGED <<log, row, doing, muddled, torn>> /\ stage[x] = "storing"
        /\ stage' = [stage EXCEPT ![x] = "anchoring"]
    BY <1>7 DEF Prepare, history
  <2>2. /\ stage'[x] = "anchoring" /\ link'[x].ts = clock
        /\ \A y \in Tasks \ {x} : stage'[y] = stage[y] /\ link'[y] = link[y]
    BY <1>7, <2>1 DEF Prepare, Sound, TypeOK
  <2>3. Changing' = Changing
    <3>1. \A y \in Tasks : y \in Changing' <=> y \in Changing
      BY <2>1, <2>2, ChangingIs, ChangingIsNext, TasksAre DEF Sound
    <3>2. QED
      BY <3>1, ChangingIs, ChangingIsNext DEF Sound
  <2>4. Registrations' = Registrations /\ Changes' = Changes
    BY <2>1, NothingAdds
  <2>5. \A d \in Clients \cap Changing : stage'[d] = "creating" <=> stage[d] = "creating"
    BY <2>1, <2>2, TasksAre
  <2>6. \A e \in Registrations \cup Changes : e.ts < clock
    BY DEF Registrations, Changes, Sound, Stamped
  <2>7. \A o \in Ops \cap Changing :
          stage'[o] = "anchoring" => \/ stage[o] = "anchoring" /\ link'[o] = link[o]
                                     \/ \A e \in Registrations \cup Changes : e.ts < link'[o].ts
    BY <2>2, <2>6, TasksAre
  <2>8. QED
    BY <2>1, <2>3, <2>4, <2>5, <2>7, AgreementStays
<1>8. ASSUME NEW x \in Tasks, Fail(x) PROVE Agreement'
  <2>1. /\ UNCHANGED <<log, row, link, doing, torn>> /\ muddled' = (muddled \/ doing[x] # "memory")
        /\ stage' = [stage EXCEPT ![x] = "failed"]
    BY <1>8 DEF Fail, tables
  <2>2. CASE doing[x] # "memory"
    BY <2>1, <2>2 DEF Agreement, ChangesSound, RegisteredSound
  <2>3. CASE doing[x] = "memory"
    <3>1. stage'[x] = "failed" /\ \A y \in Tasks \ {x} : stage'[y] = stage[y]
      BY <2>1 DEF Sound, TypeOK
    <3>2. x \notin Changing /\ x \notin Changing'
      BY <1>8, <2>3, <3>1, ChangingIs, ChangingIsNext, TasksAre DEF Fail, Sound, Staged, Status
    <3>3. Registrations' = Registrations /\ Changes' = Changes
      BY <2>1, NothingAdds
    <3>4. QED
      BY <2>1, <3>1, <3>2, <3>3, AgreementStaysOn
  <2>4. QED
    BY <2>2, <2>3
<1>9. ASSUME NEW p \in Processes, Crash(p) PROVE Agreement'
  <2>1. SUFFICES ASSUME ~muddled' PROVE Agreement'
    BY DEF Agreement, ChangesSound, RegisteredSound
  <2>2. UNCHANGED <<log, row>> /\ (muddled => muddled') /\ (torn => torn')
    BY <1>9, CrashIs DEF Sound
  <2>3. \A x \in Changing : x \in Tasks /\ stage[x] \in InFlight /\ Process(x) # p
    <3>1. \A x \in Changing : x \in Tasks /\ stage[x] \in InFlight
      BY ChangingIs, StagesAre, TasksAre DEF Sound
    <3>2. QED
      BY <1>9, <2>1, <3>1, CrashIs DEF Sound
  <2>4. \A x \in Tasks : Process(x) # p =>
          stage'[x] = stage[x] /\ doing'[x] = doing[x] /\ link'[x] = link[x]
    BY <1>9, CrashIs DEF Sound
  <2>5. \A x \in Tasks : Process(x) = p =>
          stage'[x] = IF stage[x] \in InFlight THEN "lost" ELSE stage[x]
    BY <1>9, CrashIs DEF Sound
  <2>6. Changing' = Changing
    <3>1. \A x \in Tasks : Process(x) # p => (x \in Changing' <=> x \in Changing)
      BY <2>4, ChangingIs, ChangingIsNext, TasksAre DEF Sound
    <3>2. \A x \in Tasks : Process(x) = p => x \notin Changing'
      BY <2>5, StagesAre, ChangingIsNext, TasksAre DEF Sound
    <3>3. QED
      BY <2>3, <3>1, <3>2, ChangingIsNext DEF Sound
  <2>7. Registrations' = Registrations /\ Changes' = Changes
    BY <2>2, NothingAdds
  <2>8. \A x \in Changing : stage'[x] = stage[x] /\ doing'[x] = doing[x] /\ link'[x] = link[x]
    BY <2>3, <2>4
  <2>9. QED
    BY <2>2, <2>6, <2>7, <2>8, AgreementStays
<1>10. CASE UNCHANGED vars
  <2>1. UNCHANGED <<stage, doing, link, log, row, muddled, torn>>
    BY <1>10 DEF vars, appends, tables, history
  <2>2. Changing' = Changing /\ Registrations' = Registrations /\ Changes' = Changes
    BY <2>1 DEF Changing, Constructing, Registrations, Changes
  <2>3. QED
    BY <2>1, <2>2, AgreementStays
<1>11. QED
  BY <1>1, <1>2, <1>3, <1>4, <1>5, <1>6, <1>7, <1>8, <1>9, <1>10, ConstructAgrees,
     CreateRowAgrees, SetStatusAgrees, CommitAgrees, Steps

\* When no change is under way, what a replay of the log gives is what the row
\* says.
LEMMA ReplayAgrees ==
  ASSUME Sound, Agreement
  PROVE  StatusAgrees
<1>1. SUFFICES ASSUME row # NoIdentity, ~muddled, Changing = {}
               PROVE  ReplayAgent.status = row.status /\ (torn \/ ReplayAgent.key = row.key)
  BY DEF StatusAgrees
<1>2. log \in SUBSET Event /\ clock \in Nat /\ \A e \in log : e.ts < clock
  BY DEF Sound, TypeOK, Stamped
<1>3. PICK first \in log :
        /\ first.kind = "registered"
        /\ Projection(log).key = first.key
        /\ \/ /\ Projection(log).status = "active"
              /\ \A e \in log : e.kind \in Status => e.ts <= first.ts
           \/ \E e \in log : /\ e.kind \in Status
                             /\ Projection(log).status = e.kind
                             /\ \A f \in log : f.kind \in Status => f.ts <= e.ts
  <2>1. \E e \in log : e.kind = "registered"
    BY <1>1 DEF Agreement, ChangesSound, Registrations
  <2>2. QED
    BY <1>2, <2>1, ProjectionIs
<1>4. first \in Registrations /\ \A e \in log : e.ts \in Nat
  BY <1>2, <1>3 DEF Registrations, Event
<1>5. ReplayAgent.status = row.status
  <2>1. CASE /\ Projection(log).status = "active"
             /\ \A e \in log : e.kind \in Status => e.ts <= first.ts
    <3>1. \A f \in Changes : first.ts < f.ts /\ f.ts <= first.ts /\ f \in log
      BY <1>1, <1>4, <2>1 DEF Agreement, ChangesSound, Changes
    <3>2. Changes = {}
      BY <1>3, <1>4, <3>1
    <3>3. QED
      BY <1>1, <2>1, <3>2 DEF Agreement, ChangesSound, ReplayAgent
  <2>2. CASE \E e \in log : /\ e.kind \in Status
                            /\ Projection(log).status = e.kind
                            /\ \A f \in log : f.kind \in Status => f.ts <= e.ts
    <3>1. PICK e \in log : /\ e.kind \in Status
                           /\ Projection(log).status = e.kind
                           /\ \A f \in log : f.kind \in Status => f.ts <= e.ts
      BY <2>2
    <3>2. Last(e, Changes)
      BY <3>1 DEF Last, Changes
    <3>3. QED
      BY <1>1, <3>1, <3>2 DEF Agreement, ChangesSound, ReplayAgent
  <2>3. QED
    BY <1>3, <2>1, <2>2
<1>6. torn \/ ReplayAgent.key = row.key
  BY <1>1, <1>3, <1>4 DEF Agreement, RegisteredSound, ReplayAgent
<1>7. QED
  BY <1>5, <1>6

\* The three records kept of an agent agree: its row with what a replay of its
\* events gives, and the counter of its memories with the log.
THEOREM RecordsAlwaysAgree == Spec => []RecordsAgree
<1> DEFINE IInv == Sound /\ KeyedSound /\ CountSound /\ Agreement
<1>1. ASSUME Init PROVE KeyedSound /\ CountSound /\ Agreement
  <2>1. /\ row = NoIdentity /\ key = Nobody /\ log = {} /\ counter = 0
        /\ \A x \in Tasks : stage[x] = "idle" /\ doing[x] = "none" /\ envelope[x].signed = Nobody
    BY <1>1 DEF Init, Blank
  <2>2. Constructing = {} /\ Changing = {} /\ Memories = {} /\ Returned = {}
    BY <2>1, TasksAre, StagesAre DEF Constructing, Changing, Memories, Returned
  <2>3. Registrations = {} /\ Changes = {} /\ row.status = "none"
    BY <2>1 DEF Registrations, Changes, NoIdentity
  <2>4. KeyedSound
    BY <2>1, <2>2, TasksAre DEF KeyedSound
  <2>5. CountSound
    BY <2>1, <2>2, FS_EmptySet, TasksAre, StagesAre DEF CountSound
  <2>6. Agreement
    BY <2>1, <2>2, <2>3 DEF Agreement, ChangesSound, RegisteredSound
  <2>7. QED
    BY <2>4, <2>5, <2>6
<1>2. ASSUME Sound, Sound', KeyedSound, CountSound, Agreement, [Next]_vars
      PROVE  KeyedSound' /\ CountSound' /\ Agreement'
  BY <1>2, KeyedKept, CountKept, AgreementKept
<1>3. ASSUME Sound, CountSound, Agreement PROVE RecordsAgree
  BY <1>3, CounterIs, ReplayAgrees DEF RecordsAgree, Sound
<1>4. QED
  BY <1>1, <1>2, <1>3, SoundAlways, PTL DEF Spec

=============================================================================
