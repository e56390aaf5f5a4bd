--------------------------- MODULE EventLogProofs ---------------------------
(***************************************************************************)
(* Proofs about EventLog, about Replay, what is read of its table while    *)
(* calls are under way, and about Recovery, which adds to it the runs of   *)
(* recover() and losses of the database: for any number of calls,          *)
(* processes, workspaces, payloads, runs and losses.                       *)
(***************************************************************************)
EXTENDS Recovery, Replay, FiniteSetTheorems, FunctionTheorems, SequenceTheorems, TLAPS

-----------------------------------------------------------------------------
(***************************************************************************)
(* Type correctness                                                        *)
(***************************************************************************)

\* The hash of an event is a hash.
LEMMA EventHashType ==
  ASSUME NEW payload \in Payloads, NEW previous \in Hash
  PROVE  EventHash(payload, previous) \in Hash
BY DEF EventHash, Hash

\* The empty chain is a hash.
LEMMA NoHashType == NoHash \in Hash
BY DEF NoHash, Hash

\* An event is never hashed to the empty chain.
LEMMA EventHashNonEmpty ==
  ASSUME NEW payload \in Payloads, NEW previous \in Hash
  PROVE  EventHash(payload, previous) # NoHash
<1>1. Len(Append(previous, payload)) = Len(previous) + 1 /\ Len(previous) \in Nat
  BY DEF Hash
<1>2. Len(<< >>) = 0
  OBVIOUS
<1>3. QED
  BY <1>1, <1>2 DEF EventHash, NoHash

\* The row a call inserts is a row of the table.
LEMMA RowType ==
  ASSUME TypeOK, NEW c \in Calls, NEW digest \in BOOLEAN
  PROVE  /\ EventId(c) \in Hash
         /\ EventId(c) # NoHash
         /\ RowOf(c, digest) \in Row
<1>1. args[c] \in Args /\ link[c] \in Link
  BY DEF TypeOK
<1>2. EventId(c) \in Hash /\ EventId(c) # NoHash
  BY <1>1, EventHashType, EventHashNonEmpty DEF EventId, Args, Link
<1>3. QED
  BY <1>1, <1>2 DEF RowOf, Row, Args, Link

\* Every step keeps every variable within its type.
LEMMA TypeStep == TypeOK /\ [Next]_vars => TypeOK'
<1> SUFFICES ASSUME TypeOK, [Next]_vars PROVE TypeOK'
  OBVIOUS
<1> USE DEF Stage
<1>1. ASSUME NEW c \in Calls, Begin(c) PROVE TypeOK'
  BY <1>1 DEF TypeOK, Begin, Goto
<1>2. ASSUME NEW c \in Calls, StoreFails(c) PROVE TypeOK'
  BY <1>2 DEF TypeOK, StoreFails, Goto
<1>3. ASSUME NEW c \in Calls, Prepare(c) PROVE TypeOK'
  <2>1. PICK h \in Ids(rows) \cup {NoHash} :
          link' = [link EXCEPT ![c] = [prev |-> h, ts |-> clock, seen |-> Ids(rows)]]
    BY <1>3 DEF Prepare
  <2>2. Ids(rows) \subseteq Hash
    BY DEF TypeOK, Ids, Row
  <2>3. h \in Hash
    BY <2>2, NoHashType
  <2>4. [prev |-> h, ts |-> clock, seen |-> Ids(rows)] \in Link
    BY <2>2, <2>3 DEF TypeOK, Link
  <2>5. link' \in [Calls -> Link]
    BY <2>1, <2>4 DEF TypeOK
  <2>6. args[c].payload \in Payloads
    BY DEF TypeOK, Args
  <2>7. QED
    BY <1>3, <2>5, <2>6 DEF TypeOK, Prepare, Goto
<1>4. ASSUME NEW c \in Calls, AnchorLands(c) PROVE TypeOK'
  BY <1>4 DEF TypeOK, AnchorLands
<1>5. ASSUME NEW c \in Calls, Commit(c) PROVE TypeOK'
  <2>1. PICK digest \in AnchorResult(c) : rows' = rows \cup {RowOf(c, digest)}
    BY <1>5 DEF Commit
  <2>2. digest \in BOOLEAN
    BY <2>1 DEF AnchorResult
  <2>3. rows' \subseteq Row
    BY <2>1, <2>2, RowType DEF TypeOK
  <2>4. QED
    BY <1>5, <2>3 DEF TypeOK, Commit, Goto
<1>6. ASSUME NEW c \in Calls, CommitRefused(c) PROVE TypeOK'
  BY <1>6 DEF TypeOK, CommitRefused, Goto
<1>7. ASSUME NEW c \in Calls, Index(c) PROVE TypeOK'
  <2>1. StreamOf[args[c].payload] \in Streams
    BY <1>7, PayloadsAssumption DEF TypeOK, Index
  <2>2. EventId(c) \in Hash
    BY RowType
  <2>3. link[c].ts \in Nat
    BY DEF TypeOK, Link
  <2>4. [id |-> EventId(c), stream |-> StreamOf[args[c].payload], ts |-> link[c].ts]
          \in MemoryRow
    BY <2>1, <2>2, <2>3 DEF MemoryRow
  <2>5. QED
    BY <1>7, <2>1, <2>2, <2>4 DEF TypeOK, Index, Goto
<1>8. ASSUME NEW p \in Processes, Crash(p) PROVE TypeOK'
  BY <1>8 DEF TypeOK, Crash
<1>9. QED
  BY <1>1, <1>2, <1>3, <1>4, <1>5, <1>6, <1>7, <1>8 DEF Next, Step, Done, vars, TypeOK

\* Type correctness, from Init on.
THEOREM TypeCorrect == Spec => []TypeOK
<1>1. Init => TypeOK
  <2> SUFFICES ASSUME Init PROVE TypeOK
    OBVIOUS
  <2>1. [prev |-> NoHash, ts |-> 0, seen |-> {}] \in Link
    BY NoHashType DEF Link
  <2>2. QED
    BY <2>1, NoHashType DEF Init, TypeOK, Stage
<1>2. QED
  BY <1>1, TypeStep, PTL DEF Spec

-----------------------------------------------------------------------------
(***************************************************************************)
(* Which steps touch the tables                                            *)
(***************************************************************************)

\* The event log changes only by a commit; so do, elsewhere, the links the
\* calls hold, and never what a call was called with.
LEMMA OnlyCommitsWrite ==
  ASSUME [Next]_vars
  PROVE  /\ UNCHANGED rows \/ \E c \in Calls : Commit(c)
         /\ UNCHANGED link \/ \E c \in Calls : Prepare(c)
         /\ UNCHANGED memory \/ \E c \in Calls : Index(c)
         /\ UNCHANGED args
BY DEF Next, Step, Begin, StoreFails, Prepare, AnchorLands, Commit,
       CommitRefused, Index, Crash, Done, vars

\* Where a call may go in one step.
LEMMA Moves ==
  ASSUME TypeOK, [Next]_vars, NEW c \in Calls
  PROVE  \/ stage'[c] = stage[c]
         \/ Begin(c) /\ stage'[c] = "storing"
         \/ StoreFails(c) /\ stage'[c] = "failed"
         \/ Prepare(c) /\ stage'[c] = "anchoring"
         \/ Commit(c) /\ stage'[c] \in {"indexing", "ok"}
         \/ CommitRefused(c) /\ stage'[c] = "failed"
         \/ Index(c) /\ stage'[c] = "ok"
         \/ stage[c] \in {"storing", "anchoring", "indexing"} /\ stage'[c] = "lost"
<1> USE DEF TypeOK
<1>1. CASE UNCHANGED vars \/ Done
  BY <1>1 DEF vars, Done
<1>2. CASE \E p \in Processes : Crash(p)
  BY <1>2 DEF Crash
<1>3. ASSUME NEW d \in Calls, Step(d)
      PROVE  \/ stage'[c] = stage[c]
             \/ Begin(c) /\ stage'[c] = "storing"
             \/ StoreFails(c) /\ stage'[c] = "failed"
             \/ Prepare(c) /\ stage'[c] = "anchoring"
             \/ Commit(c) /\ stage'[c] \in {"indexing", "ok"}
             \/ CommitRefused(c) /\ stage'[c] = "failed"
             \/ Index(c) /\ stage'[c] = "ok"
  <2>1. CASE d = c
    BY <1>3, <2>1 DEF Step, Begin, StoreFails, Prepare, AnchorLands, Commit,
                      CommitRefused, Index, Goto
  <2>2. CASE d # c
    BY <1>3, <2>2 DEF Step, Begin, StoreFails, Prepare, AnchorLands, Commit,
                      CommitRefused, Index, Goto
  <2>3. QED
    BY <2>1, <2>2
<1>4. QED
  BY <1>1, <1>2, <1>3 DEF Next

-----------------------------------------------------------------------------
(***************************************************************************)
(* One row per call                                                        *)
(***************************************************************************)

\* The primary key and the stage of a call, together, decide whose row is in
\* the table.
THEOREM OneRowPerCallHolds == Spec => []OneRowPerCall
<1>1. Init => OneRowPerCall
  BY DEF Init, OneRowPerCall
<1>2. TypeOK /\ OneRowPerCall /\ [Next]_vars => OneRowPerCall'
  <2> SUFFICES ASSUME TypeOK, OneRowPerCall, [Next]_vars PROVE OneRowPerCall'
    OBVIOUS
  <2>1. CASE UNCHANGED rows
    <3>1. ASSUME NEW c \in Calls, stage'[c] \in {"indexing", "ok"}
          PROVE  stage[c] \in {"indexing", "ok"}
      <4>1. ~Commit(c)
        <5>1. SUFFICES ASSUME Commit(c) PROVE FALSE
          OBVIOUS
        <5>2. PICK digest \in AnchorResult(c) : rows' = rows \cup {RowOf(c, digest)}
          BY <5>1 DEF Commit
        <5>3. RowOf(c, digest) \in rows /\ RowOf(c, digest).id = EventId(c)
          BY <5>2, <2>1 DEF RowOf
        <5>4. QED
          BY <5>1, <5>3 DEF Commit, Ids
      <4>2. QED
        BY <3>1, <4>1, Moves DEF Index
    <3>2. ASSUME NEW c \in Calls,
                 stage'[c] \in {"idle", "storing", "anchoring", "failed"}
          PROVE  stage[c] \in {"idle", "storing", "anchoring", "failed"}
      BY <3>2, Moves DEF Begin, StoreFails, Prepare, Commit, CommitRefused, TypeOK, Stage
    <3>3. QED
      BY <2>1, <3>1, <3>2 DEF OneRowPerCall
  <2>2. ASSUME NEW c \in Calls, Commit(c) PROVE OneRowPerCall'
    <3>1. PICK digest \in AnchorResult(c) : rows' = rows \cup {RowOf(c, digest)}
      BY <2>2 DEF Commit
    <3>2. /\ RowOf(c, digest).id = EventId(c)
          /\ RowOf(c, digest).by = c
      BY DEF RowOf
    <3>3. \A r \in rows : r.id # EventId(c)
      BY <2>2 DEF Commit, Ids
    <3>4. /\ stage[c] = "anchoring"
          /\ stage'[c] \in {"indexing", "ok"}
          /\ \A d \in Calls \ {c} : stage'[d] = stage[d]
      BY <2>2 DEF Commit, Goto, TypeOK
    <3>5. \A q, r \in rows' : q.id = r.id => q = r
      BY <3>1, <3>2, <3>3 DEF OneRowPerCall
    <3>6. \A d \in Calls : stage'[d] \in {"indexing", "ok"} => \E r \in rows' : r.by = d
      BY <3>1, <3>2, <3>4 DEF OneRowPerCall
    <3>7. \A d \in Calls : stage'[d] \in {"idle", "storing", "anchoring", "failed"}
                             => \A r \in rows' : r.by # d
      BY <3>1, <3>2, <3>4 DEF OneRowPerCall
    <3>8. QED
      BY <3>5, <3>6, <3>7 DEF OneRowPerCall
  <2>3. QED
    BY <2>1, <2>2, OnlyCommitsWrite
<1>3. QED
  BY <1>1, <1>2, TypeCorrect, PTL DEF Spec

-----------------------------------------------------------------------------
(***************************************************************************)
(* The hash chain                                                          *)
(***************************************************************************)

\* What a call knew of workspace ws when it built the link e, in terms of the
\* events of a table: either the workspace was empty, or e names its latest
\* event, and no event it saw there is younger than that one.
Linked(e, ws, table) ==
  \/ /\ e.prev = NoHash
     /\ \A q \in table : q.ws = ws => q.id \notin e.seen
  \/ \E p \in table : /\ p.id = e.prev /\ p.ws = ws /\ p.ts < e.ts
                      /\ \A q \in table : q.ws = ws /\ q.id \in e.seen => q.ts <= p.ts

\* A link was built before now, from events that are still there.
Dated(e, now, table) == e.ts < now /\ e.seen \subseteq Ids(table)

\* The inductive invariant: every row, and every event about to become one,
\* carries such a link.  LinksClosed alone is not inductive, because it says
\* nothing of the events in flight.
ChainInv ==
  /\ \A r \in rows : r.id # NoHash
  /\ \A r \in rows : Linked(r, r.ws, rows) /\ Dated(r, clock, rows)
  /\ \A c \in Calls : stage[c] = "anchoring"
                        => Linked(link[c], args[c].ws, rows) /\ Dated(link[c], clock, rows)

\* A new row changes nothing for a link that was built before it: its id is
\* fresh, so the link has not seen it.
LEMMA LinkedStays ==
  ASSUME NEW e, NEW ws, NEW table, NEW row, NEW now \in Nat,
         Linked(e, ws, table), Dated(e, now, table),
         row.id \notin Ids(table)
  PROVE  /\ Linked(e, ws, table \cup {row})
         /\ Dated(e, now, table \cup {row})
<1>1. row.id \notin e.seen
  BY DEF Dated
<1>2. QED
  BY <1>1 DEF Linked, Dated, Ids

\* The link Prepare builds is of that kind.
LEMMA PrepareLinks ==
  ASSUME TypeOK, OneRowPerCall, ChainInv, NEW c \in Calls, Prepare(c)
  PROVE  /\ Linked(link'[c], args[c].ws, rows)
         /\ Dated(link'[c], clock', rows)
<1>1. PICK h \in Ids(rows) \cup {NoHash} :
        /\ IsLatestEventHash(h, args[c].ws)
        /\ link' = [link EXCEPT ![c] = [prev |-> h, ts |-> clock, seen |-> Ids(rows)]]
  BY DEF Prepare
<1>2. link'[c].prev = h /\ link'[c].ts = clock /\ link'[c].seen = Ids(rows)
  BY <1>1 DEF TypeOK
<1>3. clock \in Nat /\ clock' = clock + 1
  BY DEF TypeOK, Prepare
<1>4. Dated(link'[c], clock', rows)
  BY <1>2, <1>3 DEF Dated
<1>5. CASE RowsIn(args[c].ws) = {}
  <2>1. h = NoHash
    BY <1>1, <1>5 DEF IsLatestEventHash
  <2>2. \A q \in rows : q.ws # args[c].ws
    BY <1>5 DEF RowsIn
  <2>3. QED
    BY <1>2, <1>4, <2>1, <2>2 DEF Linked
<1>6. CASE RowsIn(args[c].ws) # {}
  <2>1. PICK p \in RowsIn(args[c].ws) : h = p.id /\ \A q \in RowsIn(args[c].ws) : q.ts <= p.ts
    BY <1>1, <1>6 DEF IsLatestEventHash
  <2>2. p \in rows /\ p.ws = args[c].ws /\ p.ts < clock
    BY <2>1 DEF RowsIn, ChainInv, Dated
  <2>3. \A q \in rows : q.ws = args[c].ws => q.ts <= p.ts
    BY <2>1 DEF RowsIn
  <2>4. p.id = link'[c].prev /\ p.ts < link'[c].ts
    BY <1>2, <2>1, <2>2
  <2>5. QED
    BY <1>4, <2>2, <2>3, <2>4 DEF Linked
<1>7. QED
  BY <1>4, <1>5, <1>6

\* Every step keeps every link in order.
LEMMA ChainStep == TypeOK /\ OneRowPerCall /\ ChainInv /\ [Next]_vars => ChainInv'
<1> SUFFICES ASSUME TypeOK, OneRowPerCall, ChainInv, [Next]_vars PROVE ChainInv'
  OBVIOUS
<1>1. CASE UNCHANGED <<rows, link>>
  <2>1. clock \in Nat /\ clock' \in Nat /\ clock <= clock' /\ UNCHANGED args
    BY TypeStep, OnlyCommitsWrite DEF TypeOK, Next, Step, Begin, StoreFails, Prepare,
       AnchorLands, Commit, CommitRefused, Index, Crash, Done, vars
  <2>2. ASSUME NEW e, e.ts \in Nat, Dated(e, clock, rows) PROVE Dated(e, clock', rows)
    BY <2>1, <2>2 DEF Dated
  <2>3. ASSUME NEW c \in Calls, stage'[c] = "anchoring"
        PROVE  Linked(link[c], args[c].ws, rows) /\ Dated(link[c], clock', rows)
    <3>1. CASE stage[c] = "anchoring"
      BY <2>2, <3>1 DEF ChainInv, TypeOK, Link
    <3>2. CASE stage[c] # "anchoring"
      BY <1>1, <2>3, <3>2, Moves, PrepareLinks
    <3>3. QED
      BY <3>1, <3>2
  <2>4. \A r \in rows : Linked(r, r.ws, rows) /\ Dated(r, clock', rows)
    BY <2>2 DEF ChainInv, TypeOK, Row
  <2>5. QED
    BY <1>1, <2>1, <2>3, <2>4 DEF ChainInv
<1>2. ASSUME NEW c \in Calls, Prepare(c) PROVE ChainInv'
  <2>1. /\ UNCHANGED <<rows, args>>
        /\ clock \in Nat /\ clock' = clock + 1
        /\ \A d \in Calls \ {c} : stage'[d] = stage[d] /\ link'[d] = link[d]
    BY <1>2 DEF Prepare, Goto, TypeOK
  <2>2. ASSUME NEW e, e.ts \in Nat, Dated(e, clock, rows) PROVE Dated(e, clock', rows)
    BY <2>1, <2>2 DEF Dated
  <2>3. \A r \in rows : Linked(r, r.ws, rows) /\ Dated(r, clock', rows)
    BY <2>2 DEF ChainInv, TypeOK, Row
  <2>4. \A d \in Calls \ {c} : stage'[d] = "anchoring"
          => Linked(link'[d], args[d].ws, rows) /\ Dated(link'[d], clock', rows)
    BY <2>1, <2>2 DEF ChainInv, TypeOK, Link
  <2>5. Linked(link'[c], args[c].ws, rows) /\ Dated(link'[c], clock', rows)
    BY <1>2, PrepareLinks
  <2>6. QED
    BY <2>1, <2>3, <2>4, <2>5 DEF ChainInv
<1>3. ASSUME NEW c \in Calls, Commit(c) PROVE ChainInv'
  <2>1. PICK digest \in AnchorResult(c) : rows' = rows \cup {RowOf(c, digest)}
    BY <1>3 DEF Commit
  <2> DEFINE row == RowOf(c, digest)
  <2>2. row.id \notin Ids(rows) /\ row.id # NoHash /\ clock \in Nat
    <3>1. row.id = EventId(c)
      BY DEF RowOf
    <3>2. EventId(c) # NoHash
      BY RowType
    <3>3. QED
      BY <1>3, <3>1, <3>2 DEF Commit, TypeOK
  <2>3. /\ UNCHANGED <<link, args, clock>>
        /\ \A d \in Calls : stage'[d] = "anchoring" => stage[d] = "anchoring"
        /\ stage[c] = "anchoring"
    BY <1>3 DEF Commit, Goto, TypeOK
  <2>4. Linked(row, row.ws, rows) /\ Dated(row, clock, rows)
    BY <2>3 DEF ChainInv, RowOf, Linked, Dated
  <2>5. \A r \in rows \cup {row} : Linked(r, r.ws, rows \cup {row})
                                   /\ Dated(r, clock, rows \cup {row})
    BY <2>2, <2>4, LinkedStays DEF ChainInv
  <2>6. \A d \in Calls : stage[d] = "anchoring"
          => /\ Linked(link[d], args[d].ws, rows \cup {row})
             /\ Dated(link[d], clock, rows \cup {row})
    BY <2>2, LinkedStays DEF ChainInv
  <2>7. \A r \in rows \cup {row} : r.id # NoHash
    BY <2>2 DEF ChainInv
  <2>8. QED
    BY <2>1, <2>3, <2>5, <2>6, <2>7 DEF ChainInv
<1>4. QED
  BY <1>1, <1>2, <1>3, OnlyCommitsWrite

\* The chain invariant holds of every reachable state.
THEOREM ChainHolds == Spec => []ChainInv
<1>1. Init => ChainInv
  BY DEF Init, ChainInv
<1>2. QED
  BY <1>1, ChainStep, TypeCorrect, OneRowPerCallHolds, PTL DEF Spec

\* The hash chain of every workspace is closed and ordered by time.
THEOREM LinksClosedHolds == Spec => []LinksClosed
<1>1. ChainInv => LinksClosed
  BY DEF ChainInv, Linked, LinksClosed, IsParent
<1>2. QED
  BY <1>1, ChainHolds, PTL

\* It forks only where appends overlap: an event the writer of r saw is no
\* younger than r's predecessor, but every event is younger than its own.
THEOREM ForkOnlyByOverlapHolds == Spec => []ForkOnlyByOverlap
<1>1. TypeOK /\ OneRowPerCall /\ ChainInv => ForkOnlyByOverlap
  <2> SUFFICES ASSUME TypeOK, OneRowPerCall, ChainInv,
                      NEW q \in rows, NEW r \in rows,
                      q.ws = r.ws, q.id \in r.seen, q.prev = r.prev
               PROVE  FALSE
    BY DEF ForkOnlyByOverlap
  <2>1. PICK p \in rows : p.id = r.prev /\ q.ts <= p.ts
    BY DEF ChainInv, Linked
  <2>2. CASE q.prev = NoHash /\ \A x \in rows : x.ws = q.ws => x.id \notin q.seen
    <3>1. p.id # NoHash
      BY DEF ChainInv
    <3>2. r.prev # NoHash
      BY <2>1, <3>1
    <3>3. QED
      BY <2>2, <3>2
  <2>3. ASSUME NEW x \in rows, x.id = q.prev, x.ts < q.ts PROVE FALSE
    <3>1. x = p
      BY <2>1, <2>3 DEF OneRowPerCall
    <3>2. x.ts \in Nat /\ q.ts \in Nat
      BY DEF TypeOK, Row
    <3>3. QED
      BY <2>1, <2>3, <3>1, <3>2
  <2>4. QED
    BY <2>2, <2>3 DEF ChainInv, Linked
<1>2. QED
  BY <1>1, TypeCorrect, OneRowPerCallHolds, ChainHolds, PTL

-----------------------------------------------------------------------------
(***************************************************************************)
(* Anchors                                                                 *)
(***************************************************************************)

\* AnchorIsBacked with what it needs of the calls in flight: a transaction is
\* sent when, and only when, the call leaves Walrus.
AnchorInv ==
  /\ AnchorIsBacked
  /\ \A c \in Calls : stage[c] \in {"idle", "storing"} => tx[c] = "none"
  /\ \A c \in Calls : stage[c] = "anchoring" => tx[c] # "none"

\* Every step keeps it.
LEMMA AnchorStep == TypeOK /\ AnchorInv /\ [Next]_vars => AnchorInv'
<1> SUFFICES ASSUME TypeOK, AnchorInv, [Next]_vars PROVE AnchorInv'
  OBVIOUS
<1> USE DEF AnchorInv, AnchorIsBacked
<1>1. ASSUME NEW c \in Calls, Begin(c) PROVE AnchorInv'
  BY <1>1 DEF Begin, Goto, TypeOK
<1>2. ASSUME NEW c \in Calls, StoreFails(c) \/ CommitRefused(c) PROVE AnchorInv'
  BY <1>2 DEF StoreFails, CommitRefused, Goto, TypeOK
<1>3. ASSUME NEW c \in Calls, Prepare(c) PROVE AnchorInv'
  <2>1. /\ UNCHANGED <<args, rows>>
        /\ stage[c] = "storing" /\ tx[c] = "none"
        /\ stage'[c] = "anchoring" /\ tx'[c] = "sent"
        /\ \A d \in Calls \ {c} : stage'[d] = stage[d] /\ tx'[d] = tx[d]
        /\ blobs' = blobs \cup {args[c].payload}
    BY <1>3 DEF Prepare, Goto, TypeOK
  <2>2. \A r \in rows : r.by \in Calls
    BY DEF TypeOK, Row
  <2>3. QED
    BY <2>1, <2>2
<1>4. ASSUME NEW c \in Calls, AnchorLands(c) PROVE AnchorInv'
  <2>1. /\ UNCHANGED <<args, rows, stage, blobs>>
        /\ tx[c] = "sent" /\ tx'[c] = "landed"
        /\ \A d \in Calls \ {c} : tx'[d] = tx[d]
    BY <1>4 DEF AnchorLands, TypeOK
  <2>2. \A r \in rows : r.by \in Calls
    BY DEF TypeOK, Row
  <2>3. QED
    BY <2>1, <2>2
<1>5. ASSUME NEW c \in Calls, Commit(c) PROVE AnchorInv'
  <2>1. PICK digest \in AnchorResult(c) : rows' = rows \cup {RowOf(c, digest)}
    BY <1>5 DEF Commit
  <2>2. /\ RowOf(c, digest).by = c
        /\ RowOf(c, digest).payload = args[c].payload
        /\ RowOf(c, digest).digest = digest
    BY DEF RowOf
  <2>3. digest => tx[c] = "landed"
    BY <2>1 DEF AnchorResult
  <2>4. /\ UNCHANGED <<args, tx, blobs>>
        /\ stage[c] = "anchoring" /\ stage'[c] \in {"indexing", "ok"}
        /\ \A d \in Calls \ {c} : stage'[d] = stage[d]
    BY <1>5 DEF Commit, Goto, TypeOK
  <2>5. args[c].payload \in blobs
    BY <2>4
  <2>6. QED
    BY <2>1, <2>2, <2>3, <2>4, <2>5
<1>6. ASSUME NEW c \in Calls, Index(c) PROVE AnchorInv'
  BY <1>6 DEF Index, Goto, TypeOK
<1>7. ASSUME NEW p \in Processes, Crash(p) PROVE AnchorInv'
  BY <1>7 DEF Crash, TypeOK
<1>8. CASE Done \/ UNCHANGED vars
  BY <1>8 DEF Done, vars
<1>9. QED
  BY <1>1, <1>2, <1>3, <1>4, <1>5, <1>6, <1>7, <1>8 DEF Next, Step

\* A digest in the table is a transaction on Sui, and nothing is anchored or
\* committed whose payload is not at Walrus.
THEOREM AnchorIsBackedHolds == Spec => []AnchorIsBacked
<1>1. Init => AnchorInv
  BY DEF Init, AnchorInv, AnchorIsBacked
<1>2. AnchorInv => AnchorIsBacked
  BY DEF AnchorInv
<1>3. QED
  BY <1>1, <1>2, AnchorStep, TypeCorrect, PTL DEF Spec

\* Both together: what a successful append stands for.
THEOREM AppendDeliversHolds == Spec => []AppendDelivers
<1>1. OneRowPerCall /\ AnchorIsBacked => AppendDelivers
  BY DEF AppendDelivers
<1>2. QED
  BY <1>1, OneRowPerCallHolds, AnchorIsBackedHolds, PTL

-----------------------------------------------------------------------------
(***************************************************************************)
(* The stream tables                                                       *)
(***************************************************************************)

\* MemoryFollowsLog, and the tie between a row and the call that wrote it,
\* which is what Index relies on when it runs after Commit.
MemoryInv ==
  /\ MemoryFollowsLog
  /\ \A r \in rows : r.id = EventId(r.by) /\ r.payload = args[r.by].payload

\* Every step keeps it.
LEMMA MemoryStep ==
  TypeOK /\ OneRowPerCall /\ MemoryInv /\ [Next]_vars => MemoryInv'
<1> SUFFICES ASSUME TypeOK, OneRowPerCall, MemoryInv, [Next]_vars PROVE MemoryInv'
  OBVIOUS
<1>0. \A r \in rows : r.by \in Calls
  BY DEF TypeOK, Row
<1>1. CASE UNCHANGED <<rows, memory, head>> /\ \A c \in Calls : ~Index(c)
  <2>1. \A r \in rows : stage[r.by] \notin {"idle", "storing", "anchoring", "failed"}
    BY <1>0 DEF OneRowPerCall
  <2>2. \A r \in rows : ~Prepare(r.by) /\ ~Begin(r.by) /\ ~StoreFails(r.by)
                        /\ ~CommitRefused(r.by) /\ ~Commit(r.by)
    BY <2>1 DEF Prepare, Begin, StoreFails, CommitRefused, Commit
  <2>3. \A r \in rows : stage[r.by] \in {"indexing", "lost"}
                          => stage'[r.by] \in {"indexing", "lost"}
    BY <1>0, <1>1, <2>2, Moves
  <2>4. ASSUME NEW r \in rows PROVE link'[r.by] = link[r.by] /\ args' = args
    <3>1. CASE UNCHANGED link
      BY <3>1, OnlyCommitsWrite
    <3>2. ASSUME NEW c \in Calls, Prepare(c) PROVE link'[r.by] = link[r.by]
      BY <1>0, <2>2, <3>2 DEF Prepare, TypeOK
    <3>3. QED
      BY <3>1, <3>2, OnlyCommitsWrite
  <2>5. \A r \in rows : EventId(r.by)' = EventId(r.by)
    BY <2>4 DEF EventId
  <2>6. QED
    BY <1>1, <2>3, <2>4, <2>5 DEF MemoryInv, MemoryFollowsLog
<1>2. ASSUME NEW c \in Calls, Commit(c) PROVE MemoryInv'
  <2>1. PICK digest \in AnchorResult(c) : rows' = rows \cup {RowOf(c, digest)}
    BY <1>2 DEF Commit
  <2>2. /\ RowOf(c, digest).by = c
        /\ RowOf(c, digest).payload = args[c].payload
        /\ RowOf(c, digest).id = EventId(c)
    BY DEF RowOf
  <2>3. /\ UNCHANGED <<args, link, memory, head>>
        /\ stage'[c] = IF args[c].payload \in MemoryPayloads THEN "indexing" ELSE "ok"
        /\ \A d \in Calls \ {c} : stage'[d] = stage[d]
    BY <1>2 DEF Commit, Goto, TypeOK
  <2>4. \A r \in rows : r.by # c
    BY <1>2 DEF Commit, OneRowPerCall
  <2>5. \A d \in Calls : EventId(d)' = EventId(d)
    BY <2>3 DEF EventId
  <2>6. \A r \in rows' : r.id = EventId(r.by)' /\ r.payload = args'[r.by].payload
    BY <1>0, <2>1, <2>2, <2>3, <2>5 DEF MemoryInv
  <2>7. \A r \in rows' : r.payload \in MemoryPayloads /\ r.id \notin Ids(memory')
                           => stage'[r.by] \in {"indexing", "lost"}
    BY <1>0, <2>1, <2>2, <2>3, <2>4 DEF MemoryInv, MemoryFollowsLog
  <2>8. QED
    BY <2>1, <2>3, <2>6, <2>7 DEF MemoryInv, MemoryFollowsLog
<1>3. ASSUME NEW c \in Calls, Index(c) PROVE MemoryInv'
  <2> DEFINE stream == StreamOf[args[c].payload]
             row == [id |-> EventId(c), stream |-> stream, ts |-> link[c].ts]
  <2>1. /\ UNCHANGED <<args, link, rows>>
        /\ memory' = memory \cup {row}
        /\ head' = [head EXCEPT ![stream] = EventId(c)]
        /\ \A d \in Calls \ {c} : stage'[d] = stage[d]
        /\ stage[c] = "indexing"
    BY <1>3 DEF Index, Goto, TypeOK
  <2>2. PICK r \in rows : r.by = c
    BY <2>1 DEF OneRowPerCall
  <2>3. r.id = EventId(c) /\ r.payload = args[c].payload
    BY <2>2 DEF MemoryInv
  <2>4. r.payload \in MemoryPayloads
    BY <2>1, <2>3 DEF TypeOK
  <2>5. stream \in Streams
    BY <2>3, <2>4, PayloadsAssumption
  <2>6. \A m \in memory' : \E q \in rows :
          m.id = q.id /\ q.payload \in MemoryPayloads /\ m.stream = StreamOf[q.payload]
    BY <2>1, <2>3, <2>4 DEF MemoryInv, MemoryFollowsLog
  <2>7. \A s \in Streams : \/ head'[s] = NoHash /\ \A m \in memory' : m.stream # s
                           \/ \E m \in memory' : m.stream = s /\ m.id = head'[s]
    <3>1. ASSUME NEW s \in Streams, s # stream
          PROVE  \/ head'[s] = NoHash /\ \A m \in memory' : m.stream # s
                 \/ \E m \in memory' : m.stream = s /\ m.id = head'[s]
      <4>1. head'[s] = head[s] /\ row.stream # s
        BY <2>1, <3>1 DEF TypeOK
      <4>2. QED
        BY <2>1, <3>1, <4>1 DEF MemoryInv, MemoryFollowsLog
    <3>2. row \in memory' /\ row.stream = stream /\ row.id = head'[stream]
      BY <2>1, <2>5 DEF TypeOK
    <3>3. QED
      BY <3>1, <3>2
  <2>8. \A q \in rows : q.payload \in MemoryPayloads /\ q.id \notin Ids(memory')
                          => q.by # c /\ q.id \notin Ids(memory)
    <3>1. EventId(c) \in Ids(memory') /\ Ids(memory) \subseteq Ids(memory')
      <4>1. row \in memory' /\ row.id = EventId(c) /\ memory \subseteq memory'
        BY <2>1
      <4>2. QED
        BY <4>1 DEF Ids
    <3>2. \A q \in rows : q.by = c => q.id = EventId(c)
      BY DEF MemoryInv
    <3>3. QED
      BY <3>1, <3>2
  <2>9. \A q \in rows : q.payload \in MemoryPayloads /\ q.id \notin Ids(memory')
                          => stage'[q.by] \in {"indexing", "lost"}
    BY <1>0, <2>1, <2>8 DEF MemoryInv, MemoryFollowsLog
  <2>10. \A q \in rows : q.id = EventId(q.by)' /\ q.payload = args'[q.by].payload
    BY <2>1 DEF MemoryInv, EventId
  <2>11. QED
    BY <2>1, <2>6, <2>7, <2>9, <2>10 DEF MemoryInv, MemoryFollowsLog
<1>4. UNCHANGED <<rows, memory, head>> \/ \E c \in Calls : Commit(c) \/ Index(c)
  BY DEF Next, Step, Begin, StoreFails, Prepare, AnchorLands, CommitRefused,
         Crash, Done, vars
<1>5. QED
  BY <1>1, <1>2, <1>3, <1>4

\* The stream tables never run ahead of the log, and lag behind it only where
\* a call is between its two commits or died there.
THEOREM MemoryFollowsLogHolds == Spec => []MemoryFollowsLog
<1>1. Init => MemoryInv
  BY DEF Init, MemoryInv, MemoryFollowsLog
<1>2. MemoryInv => MemoryFollowsLog
  BY DEF MemoryInv
<1>3. QED
  BY <1>1, <1>2, MemoryStep, TypeCorrect, OneRowPerCallHolds, PTL DEF Spec

-----------------------------------------------------------------------------
(***************************************************************************)
(* Refinement                                                              *)
(***************************************************************************)

\* A commit adds exactly one event to the abstract log; every other step
\* leaves it as it is.
LEMMA LogStep ==
  TypeOK /\ ChainInv /\ [Next]_vars => [Log!Next]_rows
<1> SUFFICES ASSUME TypeOK, ChainInv, NEW c \in Calls, Commit(c) PROVE Log!Next
  BY OnlyCommitsWrite
<1>1. PICK digest \in AnchorResult(c) : rows' = rows \cup {RowOf(c, digest)}
  BY DEF Commit
<1> DEFINE row == RowOf(c, digest)
<1>2. row \in Row
  BY RowType DEF AnchorResult
<1>3. \A old \in rows : old.id # row.id
  BY DEF Commit, Ids, RowOf
<1>4. row.prev = NoHash \/ \E parent \in rows : Log!IsParent(parent, row)
  <2>1. Linked(link[c], args[c].ws, rows)
    BY DEF ChainInv, Commit
  <2>2. row.prev = link[c].prev /\ row.ws = args[c].ws /\ row.ts = link[c].ts
    BY DEF RowOf
  <2>3. QED
    BY <2>1, <2>2 DEF Linked, Log!IsParent
<1>5. Log!Add(row)
  BY <1>1, <1>3, <1>4 DEF Log!Add
<1>6. QED
  BY <1>1, <1>2, <1>5 DEF Log!Next

\* EventStoreEngine.append implements the append-only log.
THEOREM ImplementsLog == Spec => LogSpec
<1>1. Init => Log!Init
  BY DEF Init, Log!Init
<1>2. QED
  BY <1>1, LogStep, TypeCorrect, ChainHolds, PTL DEF Spec, LogSpec, Log!Spec

-----------------------------------------------------------------------------
(***************************************************************************)
(* Order by a key                                                          *)
(***************************************************************************)

\* How many members come no later than x.
Rank(S, key, x) == Cardinality({y \in S : key[y] <= key[x]})

\* In a finite set whose members have keys of their own, each has a place of its
\* own, and the places are in the order of the keys.
LEMMA Ranks ==
  ASSUME NEW S, IsFiniteSet(S), NEW key \in [S -> Int],
         \A x, y \in S : key[x] = key[y] => x = y
  PROVE  /\ Cardinality(S) \in Nat
         /\ \A x \in S : Rank(S, key, x) \in 1 .. Cardinality(S)
         /\ \A x, y \in S : key[x] < key[y] => Rank(S, key, x) < Rank(S, key, y)
         /\ \A x, y \in S : Rank(S, key, x) = Rank(S, key, y) => x = y
         /\ \A n \in 1 .. Cardinality(S) : \E x \in S : Rank(S, key, x) = n
<1> DEFINE UpTo(x) == {y \in S : key[y] <= key[x]}
           N == Cardinality(S)
<1>0. \A x : Rank(S, key, x) = Cardinality(UpTo(x))
  BY DEF Rank
<1>1. N \in Nat /\ IsFiniteSet(1 .. N) /\ Cardinality(1 .. N) = N
  <2>1. N \in Nat
    BY FS_CardinalityType
  <2>2. \A l \in Int : IsFiniteSet(1 .. l) /\ Cardinality(1 .. l) = IF 1 > l THEN 0 ELSE l - 1 + 1
    BY FS_Interval
  <2> QED
    BY <2>1, <2>2
<1>2. ASSUME NEW x \in S PROVE IsFiniteSet(UpTo(x)) /\ Cardinality(UpTo(x)) \in 1 .. N
  <2>1. UpTo(x) \subseteq S /\ x \in UpTo(x)
    OBVIOUS
  <2>2. IsFiniteSet(UpTo(x)) /\ Cardinality(UpTo(x)) \in Nat /\ Cardinality(UpTo(x)) <= N
    BY <1>1, <2>1, FS_Subset, FS_CardinalityType
  <2>3. Cardinality(UpTo(x)) # 0
    BY <2>1, <2>2, FS_EmptySet
  <2> QED
    BY <1>1, <2>2, <2>3
<1>3. ASSUME NEW x \in S, NEW y \in S, key[x] < key[y]
      PROVE  Cardinality(UpTo(x)) < Cardinality(UpTo(y))
  <2>1. UpTo(x) \subseteq UpTo(y) /\ y \in UpTo(y) /\ y \notin UpTo(x)
    BY <1>3
  <2>2. Cardinality(UpTo(x)) <= Cardinality(UpTo(y)) /\ Cardinality(UpTo(x)) # Cardinality(UpTo(y))
    BY <1>2, <2>1, FS_Subset
  <2>3. Cardinality(UpTo(x)) \in 1 .. N /\ Cardinality(UpTo(y)) \in 1 .. N
    BY <1>2
  <2> QED
    BY <1>1, <2>2, <2>3
<1> HIDE DEF UpTo, N
<1>4. ASSUME NEW x \in S, NEW y \in S, Cardinality(UpTo(x)) = Cardinality(UpTo(y)) PROVE x = y
  <2>1. Cardinality(UpTo(x)) \in Int /\ Cardinality(UpTo(y)) \in Int
    BY <1>1, <1>2
  <2>2. ~(key[x] < key[y]) /\ ~(key[y] < key[x])
    BY <1>3, <1>4, <2>1
  <2> QED
    BY <2>2
<1>5. PICK f : f = [x \in S |-> Cardinality(UpTo(x))]
  OBVIOUS
<1>6. f \in Injection(S, 1 .. N)
  BY <1>2, <1>4, <1>5 DEF Injection, IsInjective
<1>7. f \in Surjection(S, 1 .. N)
  BY <1>1, <1>6, FS_Injection DEF N
<1>8. \A n \in 1 .. N : \E x \in S : Cardinality(UpTo(x)) = n
  BY <1>5, <1>7 DEF Surjection
<1> QED
  BY <1>0, <1>1, <1>2, <1>3, <1>4, <1>8 DEF N

\* Sorted has the members, each at its place.
LEMMA SortedRanks ==
  ASSUME NEW S, IsFiniteSet(S), NEW key \in [S -> Int],
         \A x, y \in S : key[x] = key[y] => x = y
  PROVE  /\ Sorted(S, key) \in Seq(S) /\ Len(Sorted(S, key)) = Cardinality(S) /\ Cardinality(S) \in Nat
         /\ \A n \in 1 .. Cardinality(S) :
              Sorted(S, key)[n] \in S /\ Rank(S, key, Sorted(S, key)[n]) = n
         /\ \A x \in S : /\ Rank(S, key, x) \in 1 .. Cardinality(S)
                         /\ Sorted(S, key)[Rank(S, key, x)] = x
<1>1. PICK N : N = Cardinality(S)
  OBVIOUS
<1>2. /\ N \in Nat
      /\ \A x \in S : Rank(S, key, x) \in 1 .. N
      /\ \A x, y \in S : Rank(S, key, x) = Rank(S, key, y) => x = y
      /\ \A n \in 1 .. N : \E x \in S : Rank(S, key, x) = n
  BY <1>1, Ranks
<1> DEFINE pick(n) == CHOOSE x \in S : Rank(S, key, x) = n
<1>3. \A n \in 1 .. N : pick(n) \in S /\ Rank(S, key, pick(n)) = n
  BY <1>2
<1>4. PICK sorted : sorted = Sorted(S, key)
  OBVIOUS
<1>5. sorted = [n \in 1 .. N |-> pick(n)]
  BY <1>1, <1>4 DEF Sorted, Rank
<1> HIDE DEF pick
<1>6. sorted \in [1 .. N -> S] /\ \A n \in 1 .. N : sorted[n] = pick(n)
  BY <1>3, <1>5
<1>7. sorted \in Seq(S) /\ Len(sorted) = N
  BY <1>2, <1>6
<1>8. ASSUME NEW x \in S PROVE sorted[Rank(S, key, x)] = x
  <2>1. PICK n \in 1 .. N : n = Rank(S, key, x)
    BY <1>2
  <2>2. sorted[n] \in S /\ Rank(S, key, sorted[n]) = n
    BY <1>3, <1>6
  <2> QED
    BY <1>2, <2>1, <2>2
<1>9. \A n \in 1 .. N : sorted[n] \in S /\ Rank(S, key, sorted[n]) = n
  BY <1>3, <1>6
<1> QED
  BY <1>1, <1>2, <1>4, <1>7, <1>8, <1>9

-----------------------------------------------------------------------------
(***************************************************************************)
(* Timestamps                                                              *)
(***************************************************************************)

\* e is younger than what its writer had seen of the table.
Younger(e, table) == \A q \in table : q.id \in e.seen => q.ts < e.ts

\* Events, committed or about to be, have timestamps of their own, later than
\* those of the events their writers had seen.
StampInv ==
  /\ IsFiniteSet(rows)
  /\ \A q, r \in rows : q.ts = r.ts => q = r
  /\ \A r \in rows : Younger(r, rows)
  /\ \A c \in Calls : stage[c] = "anchoring" =>
       Younger(link[c], rows) /\ \A r \in rows : r.ts # link[c].ts
  /\ \A c, d \in Calls : /\ stage[c] = "anchoring" /\ stage[d] = "anchoring"
                         /\ link[c].ts = link[d].ts
                         => c = d

\* The stamps survive every step: a call takes the clock, which is ahead of all of
\* them, and commits what it took.
LEMMA StampStep == TypeOK /\ OneRowPerCall /\ ChainInv /\ StampInv /\ [Next]_vars => StampInv'
<1> SUFFICES ASSUME TypeOK, OneRowPerCall, ChainInv, StampInv, [Next]_vars PROVE StampInv'
  OBVIOUS
<1>1. CASE UNCHANGED <<rows, link>> /\ ~(\E c \in Calls : Prepare(c))
  <2>1. \A c \in Calls : stage'[c] = "anchoring" => stage[c] = "anchoring"
    BY <1>1, Moves
  <2> QED
    BY <1>1, <2>1 DEF StampInv
<1>2. ASSUME NEW c \in Calls, Prepare(c) PROVE StampInv'
  <2>1. /\ UNCHANGED rows
        /\ \A d \in Calls \ {c} : stage'[d] = stage[d] /\ link'[d] = link[d]
    BY <1>2 DEF Prepare, Goto, TypeOK
  <2>2. link'[c].ts = clock /\ link'[c].seen = Ids(rows)
    BY <1>2 DEF Prepare, TypeOK
  <2>3. \A r \in rows : r.ts \in Nat /\ r.ts < clock
    BY DEF ChainInv, Dated, TypeOK, Row
  <2>4. \A d \in Calls : stage[d] = "anchoring" => link[d].ts \in Nat /\ link[d].ts < clock
    BY DEF ChainInv, Dated, TypeOK, Link
  <2>5. clock \in Nat
    BY DEF TypeOK
  <2>6. Younger(link'[c], rows) /\ \A r \in rows : r.ts # link'[c].ts
    BY <2>2, <2>3, <2>5 DEF Younger
  <2>7. \A d \in Calls \ {c} : stage'[d] = "anchoring" => link'[d].ts # link'[c].ts
    BY <2>1, <2>2, <2>4, <2>5
  <2> QED
    BY <2>1, <2>6, <2>7 DEF StampInv
<1>3. ASSUME NEW c \in Calls, Commit(c) PROVE StampInv'
  <2>1. PICK digest \in AnchorResult(c) : rows' = rows \cup {RowOf(c, digest)}
    BY <1>3 DEF Commit
  <2>2. PICK row : row = RowOf(c, digest)
    OBVIOUS
  <2>3. /\ row.ts = link[c].ts /\ row.seen = link[c].seen /\ row.id \notin Ids(rows)
        /\ rows' = rows \cup {row}
    BY <1>3, <2>1, <2>2 DEF RowOf, Commit
  <2>4. /\ UNCHANGED <<link, args>> /\ stage[c] = "anchoring"
        /\ \A d \in Calls : stage'[d] = "anchoring" => d # c /\ stage[d] = "anchoring"
    BY <1>3 DEF Commit, Goto, TypeOK
  <2>5. IsFiniteSet(rows')
    BY <2>3, FS_AddElement DEF StampInv
  <2>6. \A r \in rows : r.ts # row.ts
    BY <2>3, <2>4 DEF StampInv
  <2>7. \A e : e.seen \subseteq Ids(rows) /\ Younger(e, rows) => Younger(e, rows')
    BY <2>3 DEF Younger
  <2>8. Younger(row, rows) /\ row.seen \subseteq Ids(rows)
    BY <2>3, <2>4 DEF StampInv, Younger, ChainInv, Dated
  <2>9. \A r \in rows' : Younger(r, rows')
    BY <2>3, <2>7, <2>8 DEF StampInv, ChainInv, Dated
  <2>10. \A d \in Calls : stage'[d] = "anchoring" =>
           Younger(link[d], rows') /\ \A r \in rows' : r.ts # link[d].ts
    <3>1. ASSUME NEW d \in Calls, stage'[d] = "anchoring"
          PROVE  Younger(link[d], rows') /\ \A r \in rows' : r.ts # link[d].ts
      <4>1. Younger(link[d], rows')
        BY <2>4, <2>7, <3>1 DEF StampInv, ChainInv, Dated
      <4>2. row.ts # link[d].ts
        BY <2>3, <2>4, <3>1 DEF StampInv
      <4> QED
        BY <2>3, <2>4, <3>1, <4>1, <4>2 DEF StampInv
    <3> QED
      BY <3>1
  <2>11. \A q, r \in rows' : q.ts = r.ts => q = r
    BY <2>3, <2>6 DEF StampInv
  <2> QED
    BY <2>4, <2>5, <2>9, <2>10, <2>11 DEF StampInv
<1> QED
  BY <1>1, <1>2, <1>3, OnlyCommitsWrite

\* The stamps are sound in every state.
LEMMA StampsHold == Spec => []StampInv
<1>1. Init => StampInv
  BY FS_EmptySet DEF Init, StampInv
<1> QED
  BY <1>1, StampStep, TypeCorrect, OneRowPerCallHolds, ChainHolds, PTL DEF Spec

\* What a commit adds to the table.
Adds(x) ==
  /\ rows' = rows \cup {x} /\ x \notin rows /\ x \in Row
  /\ \E c \in Calls : stage[c] = "anchoring" /\ x.ts = link[c].ts
  /\ IsFiniteSet(rows) /\ IsFiniteSet(rows')
  /\ \A q, r \in rows' : q.ts = r.ts => q = r
  /\ \A q \in rows : q.id \in x.seen => q.ts < x.ts

\* The table changes by commits alone.
LEMMA CommitAdds ==
  ASSUME TypeOK, OneRowPerCall, ChainInv, StampInv, [Next]_vars, rows # rows'
  PROVE  \E x : Adds(x)
<1>1. PICK c \in Calls : Commit(c)
  BY OnlyCommitsWrite
<1>2. PICK digest \in AnchorResult(c) : rows' = rows \cup {RowOf(c, digest)}
  BY <1>1 DEF Commit
<1>3. PICK x : x = RowOf(c, digest)
  OBVIOUS
<1>4. digest \in BOOLEAN
  BY DEF AnchorResult
<1>5. x \in Row /\ x.id = EventId(c) /\ x.ts = link[c].ts
  BY <1>3, <1>4, RowType DEF RowOf
<1>6. x \notin rows /\ stage[c] = "anchoring"
  BY <1>1, <1>5 DEF Commit, Ids
<1>7. StampInv'
  BY StampStep
<1>8. IsFiniteSet(rows) /\ IsFiniteSet(rows') /\ \A q, r \in rows' : q.ts = r.ts => q = r
  BY <1>7 DEF StampInv
<1>9. \A q \in rows : q.id \in x.seen => q.ts < x.ts
  BY <1>2, <1>3, <1>7 DEF StampInv, Younger
<1>10. Adds(x)
  BY <1>2, <1>3, <1>5, <1>6, <1>8, <1>9 DEF Adds
<1> QED
  BY <1>10

-----------------------------------------------------------------------------
(***************************************************************************)
(* What readers see of a commit                                            *)
(***************************************************************************)

\* A finite set of rows with timestamps of their own.
Stamped(T) ==
  /\ IsFiniteSet(T)
  /\ \A r \in T : r.ts \in Int
  /\ \A q, r \in T : q.ts = r.ts => q = r

\* The place of a row by timestamp, from the oldest and from the latest.
Age(T, r) == Cardinality({q \in T : q.ts <= r.ts})
Youth(T, r) == Cardinality({q \in T : q.ts >= r.ts})

\* A table in the order of its timestamps: each row is at the place of its age.
LEMMA ByTimeRanks ==
  ASSUME NEW T, Stamped(T)
  PROVE  /\ ByTime(T) \in Seq(T) /\ DOMAIN ByTime(T) = 1 .. Cardinality(T) /\ Cardinality(T) \in Nat
         /\ \A n \in DOMAIN ByTime(T) : ByTime(T)[n] \in T /\ Age(T, ByTime(T)[n]) = n
         /\ \A r \in T : Age(T, r) \in DOMAIN ByTime(T) /\ ByTime(T)[Age(T, r)] = r
         /\ \A n \in DOMAIN ByTime(T) : \A k \in 1 .. n :
              k \in DOMAIN ByTime(T) /\ ByTime(T)[k].ts <= ByTime(T)[n].ts
<1>1. PICK key : key = [r \in T |-> r.ts]
  OBVIOUS
<1>2. /\ key \in [T -> Int] /\ IsFiniteSet(T) /\ \A r \in T : key[r] = r.ts
      /\ \A q, r \in T : key[q] = key[r] => q = r
  BY <1>1 DEF Stamped
<1>3. \A r \in T : Rank(T, key, r) = Age(T, r)
  <2>1. ASSUME NEW r \in T PROVE {q \in T : key[q] <= key[r]} = {q \in T : q.ts <= r.ts}
    BY <1>2
  <2> QED
    BY <2>1 DEF Rank, Age
<1>4. PICK rows1 : rows1 = ByTime(T)
  OBVIOUS
<1>5. rows1 = Sorted(T, key)
  BY <1>1, <1>4 DEF ByTime
<1>6. /\ rows1 \in Seq(T) /\ Len(rows1) = Cardinality(T) /\ Cardinality(T) \in Nat
      /\ \A n \in 1 .. Cardinality(T) : rows1[n] \in T /\ Rank(T, key, rows1[n]) = n
      /\ \A r \in T : Rank(T, key, r) \in 1 .. Cardinality(T) /\ rows1[Rank(T, key, r)] = r
  BY <1>2, <1>5, SortedRanks
<1>7. DOMAIN rows1 = 1 .. Cardinality(T)
  BY <1>6
<1>8. ASSUME NEW n \in 1 .. Cardinality(T), NEW k \in 1 .. n
      PROVE  k \in 1 .. Cardinality(T) /\ rows1[k].ts <= rows1[n].ts
  <2>1. k \in 1 .. Cardinality(T) /\ k <= n
    BY <1>6
  <2>2. PICK q, r : q = rows1[k] /\ r = rows1[n]
    OBVIOUS
  <2>3. q \in T /\ r \in T /\ Rank(T, key, q) = k /\ Rank(T, key, r) = n
    BY <1>6, <2>1, <2>2
  <2>4. ~(key[r] < key[q])
    <3>1. ASSUME key[r] < key[q] PROVE Rank(T, key, r) < Rank(T, key, q)
      BY <1>2, <2>3, <3>1, Ranks
    <3> QED
      BY <1>6, <2>1, <2>3, <3>1
  <2>5. q.ts <= r.ts
    BY <1>2, <2>3, <2>4
  <2> QED
    BY <2>1, <2>2, <2>5
<1> QED
  BY <1>3, <1>4, <1>6, <1>7, <1>8

\* A table from the latest: each row is at the place of its youth.
LEMMA LatestRanks ==
  ASSUME NEW T, Stamped(T)
  PROVE  /\ LatestFirst(T) \in Seq(T) /\ Len(LatestFirst(T)) = Cardinality(T) /\ Cardinality(T) \in Nat
         /\ \A n \in 1 .. Cardinality(T) : LatestFirst(T)[n] \in T /\ Youth(T, LatestFirst(T)[n]) = n
         /\ \A r \in T : Youth(T, r) \in 1 .. Cardinality(T) /\ LatestFirst(T)[Youth(T, r)] = r
<1>1. PICK key : key = [r \in T |-> -r.ts]
  OBVIOUS
<1>2. /\ key \in [T -> Int] /\ IsFiniteSet(T) /\ \A r \in T : key[r] = -r.ts /\ r.ts \in Int
      /\ \A q, r \in T : key[q] = key[r] => q = r
  <2>1. \A r \in T : r.ts \in Int /\ -r.ts \in Int
    BY DEF Stamped
  <2>2. key \in [T -> Int] /\ \A r \in T : key[r] = -r.ts
    BY <1>1, <2>1
  <2>3. \A q, r \in T : key[q] = key[r] => q.ts = r.ts
    BY <2>1, <2>2
  <2> QED
    BY <2>1, <2>2, <2>3 DEF Stamped
<1>3. \A r \in T : Rank(T, key, r) = Youth(T, r)
  <2>1. ASSUME NEW r \in T PROVE {q \in T : key[q] <= key[r]} = {q \in T : q.ts >= r.ts}
    BY <1>2
  <2> QED
    BY <2>1 DEF Rank, Youth
<1>4. PICK rows1 : rows1 = LatestFirst(T)
  OBVIOUS
<1>5. rows1 = Sorted(T, key)
  BY <1>1, <1>4 DEF LatestFirst
<1>6. /\ rows1 \in Seq(T) /\ Len(rows1) = Cardinality(T) /\ Cardinality(T) \in Nat
      /\ \A n \in 1 .. Cardinality(T) : rows1[n] \in T /\ Rank(T, key, rows1[n]) = n
      /\ \A r \in T : Rank(T, key, r) \in 1 .. Cardinality(T) /\ rows1[Rank(T, key, r)] = r
  BY <1>2, <1>5, SortedRanks
<1> QED
  BY <1>3, <1>4, <1>6

\* Two orders that agree up to a moment.
AgreeUpTo(E, F, moment) ==
  \A n : \/ n \in DOMAIN E /\ E[n].ts <= moment
         \/ n \in DOMAIN F /\ F[n].ts <= moment
         => /\ n \in DOMAIN E /\ n \in DOMAIN F /\ E[n] = F[n]
            /\ SubSeq(E, 1, n) = SubSeq(F, 1, n)

\* Rows later than a moment leave those up to then at their places.
LEMMA EarlierStays ==
  ASSUME NEW T, NEW U, T \subseteq U, Stamped(U), NEW moment \in Int,
         \A r \in U : r \notin T => r.ts > moment
  PROVE  AgreeUpTo(ByTime(T), ByTime(U), moment)
<1>1. Stamped(T)
  BY FS_Subset DEF Stamped
<1>2. /\ DOMAIN ByTime(T) = 1 .. Cardinality(T) /\ Cardinality(T) \in Nat
      /\ \A n \in DOMAIN ByTime(T) : ByTime(T)[n] \in T /\ Age(T, ByTime(T)[n]) = n
      /\ \A r \in T : Age(T, r) \in DOMAIN ByTime(T) /\ ByTime(T)[Age(T, r)] = r
      /\ \A n \in DOMAIN ByTime(T) : \A k \in 1 .. n :
           k \in DOMAIN ByTime(T) /\ ByTime(T)[k].ts <= ByTime(T)[n].ts
  BY <1>1, ByTimeRanks
<1>3. PICK E, F : E = ByTime(T) /\ F = ByTime(U)
  OBVIOUS
<1>4. /\ DOMAIN E \subseteq Nat /\ DOMAIN E = 1 .. Cardinality(T)
      /\ \A n \in DOMAIN E : E[n] \in T /\ Age(T, E[n]) = n
      /\ \A r \in T : Age(T, r) \in DOMAIN E /\ E[Age(T, r)] = r
      /\ \A n \in DOMAIN E : \A k \in 1 .. n : k \in DOMAIN E /\ E[k].ts <= E[n].ts
  BY <1>2, <1>3
<1>5. /\ \A n \in DOMAIN F : F[n] \in U /\ Age(U, F[n]) = n
      /\ \A r \in U : Age(U, r) \in DOMAIN F /\ F[Age(U, r)] = r
  <2>1. /\ \A n \in DOMAIN ByTime(U) : ByTime(U)[n] \in U /\ Age(U, ByTime(U)[n]) = n
        /\ \A r \in U : Age(U, r) \in DOMAIN ByTime(U) /\ ByTime(U)[Age(U, r)] = r
    BY ByTimeRanks
  <2> QED
    BY <1>3, <2>1
<1>6. ASSUME NEW r \in T, r.ts <= moment PROVE Age(U, r) = Age(T, r)
  <2>1. \A q \in U : q.ts <= r.ts => q \in T
    BY <1>1, <1>6 DEF Stamped
  <2>2. {q \in U : q.ts <= r.ts} = {q \in T : q.ts <= r.ts}
    BY <2>1
  <2> QED
    BY <2>2 DEF Age
<1>7. ASSUME NEW n \in DOMAIN E, E[n].ts <= moment PROVE n \in DOMAIN F /\ F[n] = E[n]
  <2>1. E[n] \in T /\ Age(U, E[n]) = n
    BY <1>4, <1>6, <1>7
  <2> QED
    BY <1>5, <2>1
<1>8. ASSUME NEW n \in DOMAIN F, F[n].ts <= moment PROVE n \in DOMAIN E /\ F[n] = E[n]
  <2>1. F[n] \in T
    BY <1>5, <1>8 DEF Stamped
  <2>2. Age(T, F[n]) = n
    BY <1>5, <1>6, <1>8, <2>1
  <2> QED
    BY <1>4, <2>1, <2>2
<1>9. ASSUME NEW n \in DOMAIN E, E[n].ts <= moment PROVE SubSeq(E, 1, n) = SubSeq(F, 1, n)
  <2>1. \A k \in 1 .. n : k \in DOMAIN E /\ E[k].ts <= moment
    <3>1. ASSUME NEW k \in 1 .. n PROVE k \in DOMAIN E /\ E[k].ts <= moment
      <4>1. k \in DOMAIN E /\ E[k].ts <= E[n].ts
        BY <1>4
      <4>2. E[k].ts \in Int /\ E[n].ts \in Int
        BY <1>1, <1>4, <4>1 DEF Stamped
      <4> QED
        BY <1>9, <4>1, <4>2
    <3> QED
      BY <3>1
  <2>2. \A k \in 1 .. n : E[k] = F[k] /\ E[k] \in U
    BY <1>4, <1>7, <2>1
  <2>3. n \in Nat
    BY <1>4
  <2>4. PICK S1, S2 : S1 = SubSeq(E, 1, n) /\ S2 = SubSeq(F, 1, n)
    OBVIOUS
  <2>5. \A k \in 1 .. n : E[k] \in U /\ F[k] \in U
    BY <2>2
  <2>6. /\ S1 \in Seq(U) /\ Len(S1) = (IF 1 <= n THEN n - 1 + 1 ELSE 0)
        /\ \A k \in 1 .. n - 1 + 1 : S1[k] = E[1 + k - 1]
    BY <2>3, <2>4, <2>5, SubSeqProperties
  <2>7. /\ S2 \in Seq(U) /\ Len(S2) = (IF 1 <= n THEN n - 1 + 1 ELSE 0)
        /\ \A k \in 1 .. n - 1 + 1 : S2[k] = F[1 + k - 1]
    BY <2>3, <2>4, <2>5, SubSeqProperties
  <2>8. \A k \in 1 .. n : S1[k] = E[k] /\ S2[k] = F[k]
    <3>1. \A k \in 1 .. n : k \in 1 .. n - 1 + 1 /\ 1 + k - 1 = k
      BY <2>3
    <3> QED
      BY <2>6, <2>7, <3>1
  <2>9. Len(S1) = n /\ Len(S2) = n
    BY <2>3, <2>6, <2>7
  <2>10. S1 = S2
    BY <2>2, <2>6, <2>7, <2>8, <2>9, SeqEqual
  <2> QED
    BY <2>4, <2>10
<1> QED
  BY <1>3, <1>7, <1>8, <1>9 DEF AgreeUpTo

\* A commit adds a row later than the moment; the earlier ones, and with them what
\* the writer was granted before each, stay where they were.
LEMMA ReplayStaysHolds ==
  ASSUME TypeOK, NEW x, Adds(x)
  PROVE  ReplayStays
<1> SUFFICES ASSUME NEW ws \in Workspaces, NEW moment \in 0 .. clock - 1,
                    \A c \in Calls : stage[c] = "anchoring" => link[c].ts > moment
             PROVE  Replayed(rows', ws, moment) = Replayed(rows, ws, moment)
  BY DEF ReplayStays
<1>1. moment \in Int /\ x.ts > moment
  BY DEF Adds, TypeOK
<1>2. PICK T, U : T = {r \in rows : r.ws = ws} /\ U = {r \in rows' : r.ws = ws}
  OBVIOUS
<1>3. T \subseteq U /\ \A r \in U : r \notin T => r.ts > moment
  BY <1>1, <1>2 DEF Adds
<1>4. Stamped(U)
  <2>1. U \subseteq rows'
    BY <1>2
  <2>2. IsFiniteSet(U)
    BY <2>1, FS_Subset DEF Adds
  <2>3. \A r \in rows' : r.ts \in Int
    BY DEF Adds, TypeOK, Row
  <2> QED
    BY <2>1, <2>2, <2>3 DEF Stamped, Adds
<1>5. PICK E, F : E = ByTime(T) /\ F = ByTime(U)
  OBVIOUS
<1>6. \A n : \/ n \in DOMAIN E /\ E[n].ts <= moment
             \/ n \in DOMAIN F /\ F[n].ts <= moment
             => /\ n \in DOMAIN E /\ n \in DOMAIN F /\ E[n] = F[n]
                /\ SubSeq(E, 1, n) = SubSeq(F, 1, n)
  <2>1. T \subseteq U /\ Stamped(U) /\ moment \in Int /\ \A r \in U : r \notin T => r.ts > moment
    BY <1>1, <1>3, <1>4
  <2>2. AgreeUpTo(ByTime(T), ByTime(U), moment)
    BY <2>1, EarlierStays
  <2> QED
    BY <1>5, <2>2 DEF AgreeUpTo
<1>7. PICK V, W : /\ V = {n \in DOMAIN E : E[n].ts <= moment /\ Allowed(Standing(E, n), E[n].payload)}
                  /\ W = {n \in DOMAIN F : F[n].ts <= moment /\ Allowed(Standing(F, n), F[n].payload)}
  OBVIOUS
<1>8. \A n \in V : n \in W /\ E[n] = F[n]
  <2>1. ASSUME NEW n \in V PROVE n \in W /\ E[n] = F[n]
    <3>1. /\ n \in DOMAIN E /\ n \in DOMAIN F /\ E[n] = F[n] /\ E[n].ts <= moment
          /\ SubSeq(E, 1, n) = SubSeq(F, 1, n)
      BY <1>6, <1>7
    <3>2. Standing(E, n) = Standing(F, n)
      BY <3>1 DEF Standing
    <3> QED
      BY <1>7, <3>1, <3>2
  <2> QED
    BY <2>1
<1>9. \A n \in W : n \in V
  <2>1. ASSUME NEW n \in W PROVE n \in V
    <3>1. /\ n \in DOMAIN E /\ n \in DOMAIN F /\ E[n] = F[n] /\ F[n].ts <= moment
          /\ SubSeq(E, 1, n) = SubSeq(F, 1, n)
      BY <1>6, <1>7
    <3>2. Standing(E, n) = Standing(F, n)
      BY <3>1 DEF Standing
    <3> QED
      BY <1>7, <3>1, <3>2
  <2> QED
    BY <2>1
<1>10. V = W
  BY <1>8, <1>9
<1>11. PICK kept : kept = Sorted(V, [n \in V |-> n])
  OBVIOUS
<1>12. \A k \in DOMAIN kept : kept[k] \in V
  <2>1. Stamped(T)
    BY <1>3, <1>4, FS_Subset DEF Stamped
  <2>2. DOMAIN E = 1 .. Cardinality(T) /\ Cardinality(T) \in Nat
    BY <1>5, <2>1, ByTimeRanks
  <2>3. V \subseteq 1 .. Cardinality(T) /\ IsFiniteSet(1 .. Cardinality(T))
    BY <1>7, <2>2, FS_Interval
  <2>4. IsFiniteSet(V) /\ V \subseteq Int
    <3>1. PICK D : D = 1 .. Cardinality(T)
      OBVIOUS
    <3>2. V \subseteq D /\ IsFiniteSet(D) /\ D \subseteq Int
      BY <2>2, <2>3, <3>1
    <3>3. IsFiniteSet(V)
      BY <3>2, FS_Subset
    <3> QED
      BY <3>2, <3>3
  <2>5. PICK key : key = [n \in V |-> n]
    OBVIOUS
  <2>6. key \in [V -> Int] /\ \A m, n \in V : key[m] = key[n] => m = n
    BY <2>4, <2>5
  <2>7. Sorted(V, key) \in Seq(V)
    BY <2>4, <2>6, SortedRanks
  <2> QED
    BY <1>11, <2>5, <2>7
<1>13. /\ Replayed(rows, ws, moment) = [k \in DOMAIN kept |-> E[kept[k]].id]
       /\ Replayed(rows', ws, moment) = [k \in DOMAIN kept |-> F[kept[k]].id]
  <2>1. E = Fetched(rows, ws) /\ F = Fetched(rows', ws)
    BY <1>2, <1>5 DEF Fetched
  <2>2. Replayed(rows, ws, moment) = [k \in DOMAIN kept |-> E[kept[k]].id]
    BY <1>7, <1>11, <2>1 DEF Replayed
  <2>3. Replayed(rows', ws, moment) = [k \in DOMAIN kept |-> F[kept[k]].id]
    BY <1>7, <1>10, <1>11, <2>1 DEF Replayed
  <2> QED
    BY <2>2, <2>3
<1>14. \A k \in DOMAIN kept : E[kept[k]].id = F[kept[k]].id
  BY <1>8, <1>12
<1> QED
  BY <1>13, <1>14

-----------------------------------------------------------------------------
\* The lesser of two numbers.
LEMMA LesserOfTwo ==
  ASSUME NEW a \in Int, NEW b \in Int
  PROVE  Min({a, b}) = IF a <= b THEN a ELSE b
BY DEF Min

\* A page has the rows from its offset on, as many as its limit allows.
LEMMA PageRows ==
  ASSUME NEW T, NEW events \in Seq(T), NEW offset \in Nat, NEW limit \in Nat, NEW r
  PROVE  r \in Page(events, offset, limit) <=>
           \E n \in 1 .. Len(events) : offset < n /\ n <= offset + limit /\ r = events[n]
<1>1. PICK last : last = Min({offset + limit, Len(events)})
  OBVIOUS
<1>2. Len(events) \in Nat /\ offset + limit \in Int
  OBVIOUS
<1>3. last = IF offset + limit <= Len(events) THEN offset + limit ELSE Len(events)
  BY <1>1, <1>2, LesserOfTwo
<1>4. \A n \in Int : n \in offset + 1 .. last <=> n \in 1 .. Len(events) /\ offset < n /\ n <= offset + limit
  BY <1>2, <1>3
<1>5. Page(events, offset, limit) = {events[n] : n \in offset + 1 .. last}
  BY <1>1 DEF Page
<1> QED
  BY <1>4, <1>5

\* The memories of a table in which a commit only added one row.
LEMMA MemoriesStamped ==
  ASSUME TypeOK, NEW x, Adds(x),
         NEW M, M = {r \in rows : r.payload \in MemoryPayloads},
         NEW N, N = {r \in rows' : r.payload \in MemoryPayloads}
  PROVE  /\ Stamped(rows') /\ Stamped(M) /\ Stamped(N) /\ M \subseteq N
         /\ Cardinality(N) <= Cardinality(rows') /\ Cardinality(rows') \in Nat
<1>1. Stamped(rows')
  BY DEF Stamped, Adds, TypeOK, Row
<1>2. M \subseteq rows' /\ N \subseteq rows' /\ M \subseteq N
  BY DEF Adds
<1>3. \A T : T \subseteq rows' => Stamped(T) /\ Cardinality(T) <= Cardinality(rows')
  <2>1. ASSUME NEW T, T \subseteq rows' PROVE Stamped(T) /\ Cardinality(T) <= Cardinality(rows')
    <3>1. IsFiniteSet(T) /\ Cardinality(T) <= Cardinality(rows')
      BY <1>1, <2>1, FS_Subset DEF Stamped
    <3> QED
      BY <1>1, <2>1, <3>1 DEF Stamped
  <2> QED
    BY <2>1
<1>4. Cardinality(rows') \in Nat
  BY <1>1, FS_CardinalityType DEF Stamped
<1> QED
  BY <1>1, <1>2, <1>3, <1>4

\* A commit moves a memory no further forward: its youth never falls.
LEMMA PagesMissNothingHolds ==
  ASSUME TypeOK, NEW x, Adds(x)
  PROVE  PagesMissNothing
<1> SUFFICES ASSUME NEW s \in Streams, NEW read \in 0 .. Cardinality(rows),
                    NEW r \in MemoryPage(rows, s, read, Cardinality(rows'))
             PROVE  \E k \in 0 .. Cardinality(rows') : r \in MemoryPage(rows', s, read + k, 1)
  BY DEF PagesMissNothing, Ids
<1>1. PICK M, N : /\ M = {q \in rows : q.payload \in MemoryPayloads}
                  /\ N = {q \in rows' : q.payload \in MemoryPayloads}
  OBVIOUS
<1>2. /\ Stamped(M) /\ Stamped(N) /\ M \subseteq N
      /\ Cardinality(N) <= Cardinality(rows') /\ Cardinality(rows') \in Nat
  BY <1>1, MemoriesStamped
<1>3. read \in Nat
  <2>1. Cardinality(rows) \in Nat
    BY FS_CardinalityType DEF Adds
  <2> QED
    BY <2>1
<1>4. StreamOf[r.payload] = s /\ r \in Page(LatestFirst(M), read, Cardinality(rows'))
  BY <1>1 DEF MemoryPage
<1>5. LatestFirst(M) \in Seq(M) /\ Len(LatestFirst(M)) = Cardinality(M) /\ Cardinality(M) \in Nat
  BY <1>2, LatestRanks
<1>6. PICK n \in 1 .. Cardinality(M) : read < n /\ r = LatestFirst(M)[n]
  BY <1>2, <1>3, <1>4, <1>5, PageRows
<1>7. r \in M /\ Youth(M, r) = n
  BY <1>2, <1>6, LatestRanks
<1>8. /\ Youth(N, r) \in 1 .. Cardinality(N) /\ LatestFirst(N)[Youth(N, r)] = r
      /\ LatestFirst(N) \in Seq(N) /\ Len(LatestFirst(N)) = Cardinality(N) /\ Cardinality(N) \in Nat
  BY <1>2, <1>7, LatestRanks
<1>9. Youth(M, r) <= Youth(N, r)
  <2>1. PICK A, B : A = {q \in M : q.ts >= r.ts} /\ B = {q \in N : q.ts >= r.ts}
    OBVIOUS
  <2>2. A \subseteq B /\ B \subseteq N
    BY <1>2, <2>1
  <2>3. IsFiniteSet(B)
    BY <1>2, <2>2, FS_Subset DEF Stamped
  <2>4. Cardinality(A) <= Cardinality(B)
    BY <2>2, <2>3, FS_Subset
  <2> QED
    BY <2>1, <2>4 DEF Youth
<1>10. PICK place : place = Youth(N, r)
  OBVIOUS
<1>11. PICK k : k = place - 1 - read
  OBVIOUS
<1>12. k \in 0 .. Cardinality(rows') /\ read + k \in Nat /\ place = read + k + 1
  BY <1>2, <1>3, <1>5, <1>6, <1>7, <1>8, <1>9, <1>10, <1>11
<1>13. r \in Page(LatestFirst(N), read + k, 1)
  <2>1. place \in 1 .. Len(LatestFirst(N)) /\ read + k < place /\ place <= read + k + 1
    BY <1>8, <1>10, <1>12
  <2>2. r = LatestFirst(N)[place]
    BY <1>8, <1>10
  <2>3. PICK from : from = read + k
    OBVIOUS
  <2>4. from \in Nat /\ 1 \in Nat /\ from < place /\ place <= from + 1
    BY <1>12, <2>1, <2>3
  <2>5. r \in Page(LatestFirst(N), from, 1)
    BY <1>8, <2>1, <2>2, <2>4, PageRows
  <2> QED
    BY <2>3, <2>5
<1>14. r \in MemoryPage(rows', s, read + k, 1)
  BY <1>1, <1>4, <1>13 DEF MemoryPage
<1> QED
  BY <1>12, <1>14

\* Only rows that the new one had not seen can be later than it.
LEMMA ActivityShowsNewHolds ==
  ASSUME TypeOK, NEW x, Adds(x)
  PROVE  ActivityShowsNew
<1> SUFFICES ASSUME NEW r \in rows' \ rows, NEW room \in 1 .. Cardinality(rows'),
                    ~(Cardinality({q \in rows : q.id \notin r.seen}) >= room)
             PROVE  r \in Activity(rows', room)
  BY DEF ActivityShowsNew
<1>1. r = x
  BY DEF Adds
<1>2. Stamped(rows') /\ Cardinality(rows') \in Nat
  BY MemoriesStamped
<1>3. PICK place : place = Youth(rows', r)
  OBVIOUS
<1>4. /\ LatestFirst(rows') \in Seq(rows') /\ Len(LatestFirst(rows')) = Cardinality(rows')
      /\ place \in 1 .. Cardinality(rows') /\ LatestFirst(rows')[place] = r
  BY <1>2, <1>3, LatestRanks
<1>5. place <= room
  <2>1. PICK unseen, later : /\ unseen = {q \in rows : q.id \notin r.seen}
                             /\ later = {q \in rows' : q.ts >= r.ts}
    OBVIOUS
  <2>2. later \subseteq unseen \cup {x}
    <3>1. ASSUME NEW q \in later, q # x PROVE q \in unseen
      <4>1. q \in rows /\ q.ts >= x.ts /\ q.ts \in Int /\ x.ts \in Int
        BY <1>1, <2>1, <3>1 DEF Adds, TypeOK, Row
      <4>2. q.id \notin x.seen
        BY <4>1 DEF Adds
      <4> QED
        BY <1>1, <2>1, <4>1, <4>2
    <3> QED
      BY <3>1
  <2>3. x \notin unseen /\ unseen \subseteq rows
    BY <2>1 DEF Adds
  <2>4. IsFiniteSet(unseen) /\ Cardinality(unseen) \in Nat
    BY <2>3, FS_Subset, FS_CardinalityType DEF Adds
  <2>5. IsFiniteSet(unseen \cup {x}) /\ Cardinality(unseen \cup {x}) = Cardinality(unseen) + 1
    BY <2>3, <2>4, FS_AddElement
  <2>6. Cardinality(later) <= Cardinality(unseen) + 1
    BY <2>2, <2>5, FS_Subset
  <2>7. Cardinality(later) = place
    BY <1>3, <2>1 DEF Youth
  <2>8. ~(Cardinality(unseen) >= room)
    BY <2>1
  <2> QED
    BY <1>2, <1>4, <2>4, <2>6, <2>7, <2>8
<1>6. place \in 1 .. Len(LatestFirst(rows')) /\ 0 < place /\ place <= 0 + room /\ room \in Nat
  BY <1>2, <1>4, <1>5
<1>7. r \in Page(LatestFirst(rows'), 0, room)
  BY <1>4, <1>6, PageRows
<1> QED
  BY <1>7 DEF Activity

\* What a commit means to readers.
LEMMA CommitsAreRead ==
  TypeOK /\ OneRowPerCall /\ ChainInv /\ StampInv /\ [Next]_vars
    => [rows # rows' => ReplayStays /\ PagesMissNothing /\ ActivityShowsNew]_rows
<1> SUFFICES ASSUME TypeOK, OneRowPerCall, ChainInv, StampInv, [Next]_vars, rows # rows'
             PROVE  ReplayStays /\ PagesMissNothing /\ ActivityShowsNew
  OBVIOUS
<1>1. PICK x : Adds(x)
  BY CommitAdds
<1> QED
  BY <1>1, ReplayStaysHolds, PagesMissNothingHolds, ActivityShowsNewHolds

\* Readers are never misled by a commit, whatever is being appended while they
\* read: a replay of the past is not changed by a call that took its timestamp
\* later, a page by page reader of memories skips none, and an event is in the
\* activity feed as soon as it is committed, as long as the feed has room for
\* those that were committed while it was under way.
THEOREM ReadersStaySound == Spec => ReadersSound
<1>1. TypeOK /\ OneRowPerCall /\ ChainInv /\ StampInv /\ [Next]_vars
        => [rows # rows' => ReplayStays /\ PagesMissNothing /\ ActivityShowsNew]_rows
  BY CommitsAreRead
<1> QED
  BY <1>1, TypeCorrect, OneRowPerCallHolds, ChainHolds, StampsHold, PTL DEF Spec, ReadersSound

-----------------------------------------------------------------------------
(***************************************************************************)
(* Recovery: runs that overlap the appends, are cut short and run again    *)
(*                                                                         *)
(* OneRowPerCall and the chain invariant above do not survive here: a row  *)
(* that was recovered stands for a call that may have failed, and what an  *)
(* append had seen of the table may be gone.  The invariant below is what  *)
(* is left of them, with what Sui and the run agree on.                    *)
(***************************************************************************)

(***************************************************************************)
(* The inductive invariant                                                 *)
(***************************************************************************)

\* A transaction is sent when, and only when, its call leaves Walrus, and the
\* event it carries was stamped with the time of day.
SentSound ==
  /\ clock >= 1
  /\ \A c \in Calls : stage[c] \in {"idle", "storing"} => tx[c] = "none"
  /\ \A c \in Calls : stage[c] = "anchoring" => tx[c] # "none"
  /\ \A c \in Calls : tx[c] # "none" => link[c].ts >= 1

\* The chain lists the transactions that landed, each of them once, and so
\* does what a run has read of it.
HeadersSound ==
  /\ \A c \in Calls : tx[c] = "landed" <=> \E i \in 1..Len(chain) : chain[i] = c
  /\ \A i, j \in 1..Len(chain) : chain[i] = chain[j] => i = j
  /\ \A i \in 1..Len(headers) : tx[headers[i]] = "landed"
  /\ \A i, j \in 1..Len(headers) : headers[i] = headers[j] => i = j
  /\ run = "aborted" => pos < Len(headers)

\* What a run has been through and not dropped is in the table, and what the
\* table has without a timestamp is on Sui.
PassedSound ==
  /\ run \in {"running", "done", "aborted"} =>
       \A i \in 1..pos : args[headers[i]].payload \in Keyed
                           \/ EventId(headers[i]) \in Ids(rows)
  /\ \A r \in rows : r.ts = 0 => tx[r.by] = "landed"

\* A run that has the table to itself finds in it what it put there.
AloneSound ==
  alone /\ run \in {"running", "aborted"} =>
    \A r \in rows : \E i \in 1..pos : r.id = EventId(headers[i])

\* What refused a run is in the table.
RefusedSound == run = "aborted" => EventId(headers[pos + 1]) \in Ids(rows)

\* The predecessor a link names is in the table, in workspace ws, and older.
Parented(e, ws) ==
  e.prev = NoHash \/ \E q \in rows : q.id = e.prev /\ q.ws = ws /\ q.ts < e.ts

\* The links of the rows, and those of the events about to become rows.
ParentsSound ==
  /\ \A r \in rows : r.ts < clock /\ Parented(r, r.ws)
  /\ \A c \in Calls : stage[c] = "anchoring" =>
                        link[c].ts < clock /\ Parented(link[c], args[c].ws)

RecoveryInv ==
  /\ RecoveryTypeOK
  /\ SentSound
  /\ HeadersSound
  /\ PassedSound
  /\ AloneSound
  /\ RefusedSound
  /\ ParentsSound

-----------------------------------------------------------------------------
(***************************************************************************)
(* The steps of the composition                                            *)
(***************************************************************************)

\* What a step can be: one of an append, which a run of recover() shows
\* nothing of but who has the table to himself; a step of a run that leaves
\* the append path alone; an insertion; or a disaster.
LEMMA StepsOfRecovery ==
  ASSUME [RecoveryNext]_allVars
  PROVE  \/ Appending \/ Committing \/ Anchoring \/ Disaster \/ Sync
         \/ DropUnverified \/ Insert \/ InsertRefused \/ Die
         \/ UNCHANGED allVars
BY DEF RecoveryNext

\* An append in the composition is an append.
LEMMA AppendsAreSteps ==
  ASSUME Appending \/ Committing \/ Anchoring
  PROVE  [Next]_vars
BY DEF Appending, Committing, Anchoring, Next, Step

\* The part of the state that is the run's.
LEMMA AppendsLeaveTheRun ==
  ASSUME Appending \/ Committing \/ Anchoring
  PROVE  /\ UNCHANGED <<sealed, run, headers, pos, count, hollow, runs, disasters>>
         /\ alone' => alone
BY DEF Appending, Committing, Anchoring, recoveryVars, local

\* What a call was called with is what it was called with.
LEMMA ArgsStay ==
  ASSUME [RecoveryNext]_allVars
  PROVE  UNCHANGED args
<1>1. ASSUME Appending \/ Committing \/ Anchoring PROVE UNCHANGED args
  BY <1>1, AppendsAreSteps, OnlyCommitsWrite
<1>2. ASSUME Disaster \/ Sync \/ DropUnverified \/ Insert \/ InsertRefused \/ Die
             \/ UNCHANGED allVars
      PROVE UNCHANGED args
  BY <1>2 DEF Disaster, Sync, DropUnverified, Insert, InsertRefused, Die, allVars, vars
<1>3. QED
  BY <1>1, <1>2, StepsOfRecovery

\* A link is fixed once its transaction is sent, and a transaction that was
\* sent or has landed stays so.
LEMMA SentStays ==
  ASSUME TypeOK, SentSound, [RecoveryNext]_allVars, NEW c \in Calls, tx[c] # "none"
  PROVE  /\ link'[c] = link[c]
         /\ tx'[c] # "none"
         /\ tx[c] = "landed" => tx'[c] = "landed"
         /\ EventId(c)' = EventId(c)
<1>1. /\ link'[c] = link[c]
      /\ tx'[c] # "none"
      /\ tx[c] = "landed" => tx'[c] = "landed"
  <2>1. ASSUME Appending \/ Committing \/ Anchoring
        PROVE  /\ link'[c] = link[c]
               /\ tx'[c] # "none"
               /\ tx[c] = "landed" => tx'[c] = "landed"
    <3>1. ASSUME NEW d \in Calls, Prepare(d)
          PROVE  /\ link'[c] = link[c]
                 /\ tx'[c] = tx[c]
      <4>1. d # c
        BY <3>1 DEF Prepare, SentSound
      <4>2. QED
        BY <3>1, <4>1 DEF Prepare, TypeOK
    <3>2. ASSUME NEW d \in Calls, AnchorLands(d)
          PROVE  /\ link'[c] = link[c]
                 /\ tx'[c] # "none"
                 /\ tx[c] = "landed" => tx'[c] = "landed"
      BY <3>2 DEF AnchorLands, TypeOK
    <3>3. ASSUME NEW d \in Calls,
                 Begin(d) \/ StoreFails(d) \/ Commit(d) \/ CommitRefused(d) \/ Index(d)
          PROVE  UNCHANGED <<link, tx>>
      BY <3>3 DEF Begin, StoreFails, Commit, CommitRefused, Index
    <3>4. ASSUME NEW p \in Processes, Crash(p) PROVE UNCHANGED <<link, tx>>
      BY <3>4 DEF Crash
    <3>5. QED
      BY <2>1, <3>1, <3>2, <3>3, <3>4 DEF Appending, Committing, Anchoring
  <2>2. ASSUME Disaster \/ Sync \/ DropUnverified \/ Insert \/ InsertRefused \/ Die
               \/ UNCHANGED allVars
        PROVE UNCHANGED <<link, tx>>
    BY <2>2 DEF Disaster, Sync, DropUnverified, Insert, InsertRefused, Die, allVars, vars
  <2>3. QED
    BY <2>1, <2>2, StepsOfRecovery
<1>2. args' = args
  BY ArgsStay
<1>3. QED
  BY <1>1, <1>2 DEF EventId

\* Rows come, and go only by a disaster.
LEMMA RowsStay ==
  ASSUME [RecoveryNext]_allVars, ~Disaster
  PROVE  rows \subseteq rows'
<1>1. ASSUME Appending \/ Committing \/ Anchoring PROVE rows \subseteq rows'
  <2>1. ASSUME NEW c \in Calls, Commit(c) PROVE rows \subseteq rows'
    BY <2>1 DEF Commit
  <2>2. QED
    BY <1>1, <2>1, AppendsAreSteps, OnlyCommitsWrite
<1>2. ASSUME Sync \/ DropUnverified \/ Insert \/ InsertRefused \/ Die \/ UNCHANGED allVars
      PROVE rows \subseteq rows'
  BY <1>2 DEF Sync, DropUnverified, Insert, InsertRefused, Die, allVars, vars
<1>3. QED
  BY <1>1, <1>2, StepsOfRecovery

\* The row made of a header is a row of the table.
LEMMA RestoredType ==
  ASSUME TypeOK, NEW c \in Calls
  PROVE  /\ Restored(c) \in Row
         /\ Restored(c).id = EventId(c)
<1>1. args[c] \in Args /\ EventId(c) \in Hash /\ NoHash \in Hash
  BY RowType, NoHashType DEF TypeOK
<1>2. QED
  BY <1>1 DEF Restored, Row, Args

-----------------------------------------------------------------------------
(***************************************************************************)
(* Type correctness                                                        *)
(***************************************************************************)

\* Every step keeps every variable of the append path within its type.
LEMMA AppendTypeStep ==
  ASSUME RecoveryTypeOK, [RecoveryNext]_allVars
  PROVE  TypeOK'
<1>1. CASE Appending \/ Committing \/ Anchoring
  BY <1>1, AppendsAreSteps, TypeStep DEF RecoveryTypeOK
<1>2. CASE Disaster
  <2>1. rows' = {} /\ memory' = {} /\ head' = [s \in Streams |-> NoHash]
        /\ UNCHANGED <<args, link, tx, blobs, clock>>
        /\ stage' = [c \in Calls |-> IF stage[c] \in {"storing", "anchoring", "indexing"}
                                     THEN "lost" ELSE stage[c]]
    BY <1>2 DEF Disaster
  <2>2. TypeOK
    BY DEF RecoveryTypeOK
  <2>3. QED
    BY <2>1, <2>2, NoHashType DEF TypeOK, Stage
<1>3. CASE Insert
  <2>1. headers[pos + 1] \in Calls
    BY <1>3 DEF RecoveryTypeOK, Insert
  <2>2. PICK c \in Calls : rows' = rows \cup {Restored(c)}
    BY <1>3, <2>1 DEF Insert
  <2>3. TypeOK /\ Restored(c) \in Row
    BY RestoredType DEF RecoveryTypeOK
  <2>4. UNCHANGED <<stage, args, link, tx, blobs, memory, head, clock>>
    BY <1>3 DEF Insert
  <2>5. QED
    BY <2>2, <2>3, <2>4 DEF TypeOK
<1>4. CASE Sync \/ DropUnverified \/ InsertRefused \/ Die \/ UNCHANGED allVars
  <2>1. TypeOK /\ UNCHANGED vars
    BY <1>4 DEF RecoveryTypeOK, Sync, DropUnverified, InsertRefused, Die, allVars
  <2>2. QED
    BY <2>1, TypeStep
<1>5. QED
  BY <1>1, <1>2, <1>3, <1>4, StepsOfRecovery

\* The chain is a sequence of calls.
LEMMA ChainTypeStep ==
  ASSUME RecoveryTypeOK, [RecoveryNext]_allVars
  PROVE  chain' \in Seq(Calls) /\ headers' \in Seq(Calls) /\ sealed' \subseteq Calls
<1>1. CASE Anchoring
  <2>1. PICK c \in Calls : chain' = Append(chain, c)
    BY <1>1 DEF Anchoring
  <2>2. QED
    BY <1>1, <2>1 DEF RecoveryTypeOK, Anchoring, local
<1>2. CASE Disaster
  BY <1>2 DEF RecoveryTypeOK, Disaster
<1>3. CASE Sync \/ Appending \/ Committing \/ DropUnverified \/ Insert \/ InsertRefused
           \/ Die \/ UNCHANGED allVars
  BY <1>3 DEF RecoveryTypeOK, Sync, Appending, Committing, DropUnverified, Insert,
     InsertRefused, Die, allVars, recoveryVars, local
<1>4. QED
  BY <1>1, <1>2, <1>3, StepsOfRecovery

\* The run is where it can be.
LEMMA RunTypeStep ==
  ASSUME RecoveryTypeOK, [RecoveryNext]_allVars
  PROVE  /\ run' \in {"never", "running", "done", "aborted", "dead"}
         /\ run' = "running" => pos' < Len(headers')
         /\ pos' \in 0..Len(headers') /\ count' \in 0..pos'
         /\ runs' \in 0..MaxRuns /\ disasters' \in 0..MaxDisasters
         /\ alone' \in BOOLEAN
<1>0. Len(headers) \in Nat /\ Len(chain) \in Nat /\ (chain # <<>> => Len(chain) > 0)
  BY DEF RecoveryTypeOK
<1>1. CASE Appending \/ Committing \/ Anchoring
  BY <1>1 DEF RecoveryTypeOK, Appending, Committing, Anchoring, recoveryVars, local
<1>2. CASE Disaster
  <2>1. /\ disasters < MaxDisasters /\ disasters' = disasters + 1
        /\ run' = IF run = "never" THEN "never" ELSE "dead"
        /\ alone' = FALSE
        /\ UNCHANGED <<headers, pos, count, runs>>
    BY <1>2 DEF Disaster
  <2>2. disasters' \in 0..MaxDisasters
    BY <2>1, BoundsAssumption DEF RecoveryTypeOK
  <2>3. QED
    BY <2>1, <2>2 DEF RecoveryTypeOK
<1>3. CASE Sync
  BY <1>0, <1>3, BoundsAssumption DEF RecoveryTypeOK, Sync
<1>4. CASE DropUnverified \/ Insert
  <2>1. run = "running" /\ UNCHANGED <<headers, runs, disasters, alone>> /\ Proceed
    BY <1>4 DEF DropUnverified, Insert
  <2>2. count' = count \/ count' = count + 1
    BY <1>4 DEF DropUnverified, Insert
  <2>3. /\ pos' = pos + 1
        /\ run' = IF pos + 1 = Len(headers) THEN "done" ELSE "running"
    BY <2>1 DEF Proceed
  <2>4. pos \in Nat /\ pos < Len(headers) /\ count \in 0..pos
    BY <1>0, <2>1 DEF RecoveryTypeOK
  <2>5. pos' \in 0..Len(headers) /\ count' \in 0..pos'
    BY <1>0, <2>2, <2>3, <2>4
  <2>6. run' = "running" => pos' < Len(headers)
    BY <1>0, <2>3, <2>4
  <2>7. run' \in {"running", "done"}
    BY <2>3
  <2>8. QED
    BY <2>1, <2>5, <2>6, <2>7 DEF RecoveryTypeOK
<1>5. CASE InsertRefused \/ Die \/ UNCHANGED allVars
  BY <1>5 DEF RecoveryTypeOK, InsertRefused, Die, allVars, recoveryVars, local
<1>6. QED
  BY <1>1, <1>2, <1>3, <1>4, <1>5, StepsOfRecovery

\* An event is listed as PayloadLost only if it has a row.
LEMMA HollowStep ==
  ASSUME RecoveryTypeOK, [RecoveryNext]_allVars
  PROVE  hollow' \subseteq Ids(rows')
<1>1. CASE Disaster
  BY <1>1 DEF Disaster
<1>2. CASE Insert
  <2>1. headers[pos + 1] \in Calls
    BY <1>2 DEF RecoveryTypeOK, Insert
  <2>2. PICK c \in Calls : /\ rows' = rows \cup {Restored(c)}
                           /\ hollow' \subseteq hollow \cup {EventId(c)}
    BY <1>2, <2>1 DEF Insert
  <2>3. Restored(c).id = EventId(c)
    BY DEF Restored
  <2>4. QED
    BY <2>2, <2>3 DEF Ids, RecoveryTypeOK
<1>3. CASE ~Disaster /\ ~Insert
  <2>1. hollow' = hollow
    BY <1>3, StepsOfRecovery, AppendsLeaveTheRun
    DEF Sync, DropUnverified, InsertRefused, Die, allVars, recoveryVars, local
  <2>2. rows \subseteq rows'
    BY <1>3, RowsStay
  <2>3. QED
    BY <2>1, <2>2 DEF Ids, RecoveryTypeOK
<1>4. QED
  BY <1>1, <1>2, <1>3

\* The type invariant of the composition is kept.
LEMMA RecoveryTypeStep ==
  ASSUME RecoveryTypeOK, [RecoveryNext]_allVars
  PROVE  RecoveryTypeOK'
BY AppendTypeStep, ChainTypeStep, RunTypeStep, HollowStep DEF RecoveryTypeOK

-----------------------------------------------------------------------------
(***************************************************************************)
(* Transactions and headers                                                *)
(***************************************************************************)

\* Every step keeps SentSound.
LEMMA SentStep ==
  ASSUME TypeOK, SentSound, [RecoveryNext]_allVars
  PROVE  SentSound'
<1>1. CASE Appending \/ Committing \/ Anchoring
  <2> USE DEF SentSound, TypeOK
  <2>1. ASSUME NEW c \in Calls, Begin(c) PROVE SentSound'
    BY <2>1 DEF Begin, Goto
  <2>2. ASSUME NEW c \in Calls, StoreFails(c) \/ CommitRefused(c) PROVE SentSound'
    BY <2>2 DEF StoreFails, CommitRefused, Goto
  <2>3. ASSUME NEW c \in Calls, Prepare(c) PROVE SentSound'
    <3>1. /\ clock' = clock + 1 /\ clock \in Nat
          /\ stage'[c] = "anchoring" /\ tx'[c] = "sent" /\ link'[c].ts = clock
          /\ \A d \in Calls \ {c} : /\ stage'[d] = stage[d] /\ tx'[d] = tx[d]
                                    /\ link'[d] = link[d]
      BY <2>3 DEF Prepare, Goto
    <3>2. QED
      BY <3>1
  <2>4. ASSUME NEW c \in Calls, AnchorLands(c) PROVE SentSound'
    BY <2>4 DEF AnchorLands
  <2>5. ASSUME NEW c \in Calls, Commit(c) PROVE SentSound'
    <3>1. /\ UNCHANGED <<link, tx, clock>>
          /\ stage'[c] \in {"indexing", "ok"}
          /\ \A d \in Calls \ {c} : stage'[d] = stage[d]
      BY <2>5 DEF Commit, Goto
    <3>2. QED
      BY <3>1
  <2>6. ASSUME NEW c \in Calls, Index(c) PROVE SentSound'
    BY <2>6 DEF Index, Goto
  <2>7. ASSUME NEW p \in Processes, Crash(p) PROVE SentSound'
    BY <2>7 DEF Crash
  <2>8. QED
    BY <1>1, <2>1, <2>2, <2>3, <2>4, <2>5, <2>6, <2>7 DEF Appending, Committing, Anchoring
<1>2. CASE Disaster
  <2>1. /\ UNCHANGED <<link, tx, clock>>
        /\ stage' = [c \in Calls |-> IF stage[c] \in {"storing", "anchoring", "indexing"}
                                     THEN "lost" ELSE stage[c]]
    BY <1>2 DEF Disaster
  <2>2. QED
    BY <2>1 DEF SentSound, TypeOK
<1>3. CASE Sync \/ DropUnverified \/ Insert \/ InsertRefused \/ Die \/ UNCHANGED allVars
  <2>1. UNCHANGED <<stage, link, tx, clock>>
    BY <1>3 DEF Sync, DropUnverified, Insert, InsertRefused, Die, allVars, vars
  <2>2. QED
    BY <2>1 DEF SentSound
<1>4. QED
  BY <1>1, <1>2, <1>3, StepsOfRecovery

\* Only an anchor that lands changes what has landed, or the chain.
LEMMA OnlyAnchorsLand ==
  ASSUME TypeOK, SentSound, [RecoveryNext]_allVars, ~Anchoring
  PROVE  /\ chain' = chain
         /\ \A c \in Calls : tx'[c] = "landed" <=> tx[c] = "landed"
<1>1. CASE Appending \/ Committing
  <2>1. chain' = chain
    BY <1>1 DEF Appending, Committing, recoveryVars
  <2>2. ASSUME NEW c \in Calls, Prepare(c)
        PROVE  \A d \in Calls : tx'[d] = "landed" <=> tx[d] = "landed"
    <3>1. tx[c] = "none" /\ tx' = [tx EXCEPT ![c] = "sent"]
      BY <2>2 DEF Prepare, SentSound
    <3>2. QED
      BY <3>1 DEF TypeOK
  <2>3. ASSUME NEW c \in Calls,
               Begin(c) \/ StoreFails(c) \/ Commit(c) \/ CommitRefused(c) \/ Index(c)
        PROVE  tx' = tx
    BY <2>3 DEF Begin, StoreFails, Commit, CommitRefused, Index
  <2>4. ASSUME NEW p \in Processes, Crash(p) PROVE tx' = tx
    BY <2>4 DEF Crash
  <2>5. QED
    BY <1>1, <2>1, <2>2, <2>3, <2>4 DEF Appending, Committing
<1>2. CASE Disaster \/ Sync \/ DropUnverified \/ Insert \/ InsertRefused \/ Die
           \/ UNCHANGED allVars
  BY <1>2 DEF Disaster, Sync, DropUnverified, Insert, InsertRefused, Die, allVars, vars,
     recoveryVars
<1>3. QED
  BY <1>1, <1>2, StepsOfRecovery

\* Every step keeps HeadersSound.
LEMMA HeadersStep ==
  ASSUME RecoveryTypeOK, SentSound, HeadersSound, [RecoveryNext]_allVars
  PROVE  HeadersSound'
<1>0. /\ TypeOK /\ chain \in Seq(Calls) /\ headers \in Seq(Calls)
      /\ Len(chain) \in Nat /\ Len(headers) \in Nat
      /\ \A i \in 1..Len(chain) : chain[i] \in Calls
      /\ \A i \in 1..Len(headers) : headers[i] \in Calls
  BY DEF RecoveryTypeOK
<1>1. \A i \in 1..Len(headers) : tx'[headers[i]] = "landed"
  BY <1>0, SentStays DEF HeadersSound
<1>2. CASE Anchoring
  <2>1. PICK c \in Calls : AnchorLands(c) /\ chain' = Append(chain, c)
    BY <1>2 DEF Anchoring
  <2>2. UNCHANGED <<headers, run, pos>>
    BY <1>2 DEF Anchoring, local
  <2>3. /\ tx[c] = "sent" /\ tx'[c] = "landed"
        /\ \A d \in Calls \ {c} : tx'[d] = tx[d]
    BY <1>0, <2>1 DEF AnchorLands, TypeOK
  <2>4. /\ Len(chain') = Len(chain) + 1
        /\ chain'[Len(chain) + 1] = c
        /\ \A i \in 1..Len(chain) : chain'[i] = chain[i]
    BY <1>0, <2>1
  <2>5. \A i \in 1..Len(chain) : chain[i] # c
    BY <1>0, <2>3 DEF HeadersSound
  <2>6. \A i \in 1..Len(chain') : i \in 1..Len(chain) \/ i = Len(chain) + 1
    BY <1>0, <2>4
  <2>7. 1..Len(chain) \subseteq 1..Len(chain') /\ Len(chain) + 1 \in 1..Len(chain')
    BY <1>0, <2>4
  <2>8. \A i, j \in 1..Len(chain') : chain'[i] = chain'[j] => i = j
    BY <2>4, <2>5, <2>6 DEF HeadersSound
  <2>9. ASSUME NEW d \in Calls
        PROVE  tx'[d] = "landed" <=> \E i \in 1..Len(chain') : chain'[i] = d
    <3>1. CASE d = c
      BY <2>3, <2>4, <2>7, <3>1
    <3>2. CASE d # c
      <4>1. tx'[d] = "landed" <=> \E i \in 1..Len(chain) : chain[i] = d
        BY <2>3, <3>2 DEF HeadersSound
      <4>2. (\E i \in 1..Len(chain) : chain[i] = d)
              <=> (\E i \in 1..Len(chain') : chain'[i] = d)
        BY <2>4, <2>6, <2>7, <3>2
      <4>3. QED
        BY <4>1, <4>2
    <3>3. QED
      BY <3>1, <3>2
  <2>10. QED
    BY <1>1, <2>2, <2>8, <2>9 DEF HeadersSound
<1>3. CASE ~Anchoring
  <2>1. /\ chain' = chain
        /\ \A c \in Calls : tx'[c] = "landed" <=> tx[c] = "landed"
    BY <1>0, <1>3, OnlyAnchorsLand
  <2>2. /\ \A c \in Calls : tx'[c] = "landed" <=> \E i \in 1..Len(chain') : chain'[i] = c
        /\ \A i, j \in 1..Len(chain') : chain'[i] = chain'[j] => i = j
    BY <2>1 DEF HeadersSound
  <2>3. CASE Sync
    <3>1. headers' = chain /\ run' \in {"done", "running"}
      BY <2>3 DEF Sync
    <3>2. \A i \in 1..Len(chain) : tx'[chain[i]] = "landed"
      BY <1>0, <2>1 DEF HeadersSound
    <3>3. QED
      BY <2>2, <3>1, <3>2, <2>1 DEF HeadersSound
  <2>4. CASE ~Sync
    <3>1. headers' = headers /\ (run' = "aborted" => pos' < Len(headers))
      <4>1. CASE Appending \/ Committing
        BY <4>1, AppendsLeaveTheRun DEF HeadersSound
      <4>2. CASE Disaster
        BY <4>2 DEF Disaster
      <4>3. CASE DropUnverified \/ Insert
        BY <4>3 DEF DropUnverified, Insert, Proceed
      <4>4. CASE InsertRefused
        BY <4>4 DEF InsertRefused, RecoveryTypeOK
      <4>5. CASE Die \/ UNCHANGED allVars
        BY <4>5 DEF Die, allVars, recoveryVars, local, HeadersSound
      <4>6. QED
        BY <1>3, <2>4, <4>1, <4>2, <4>3, <4>4, <4>5, StepsOfRecovery
    <3>2. QED
      BY <1>1, <2>2, <3>1 DEF HeadersSound
  <2>5. QED
    BY <2>3, <2>4
<1>4. QED
  BY <1>2, <1>3

-----------------------------------------------------------------------------
(***************************************************************************)
(* What a run has been through                                             *)
(***************************************************************************)

\* The id of an event of the headers is what it was.
LEMMA HeadersStay ==
  ASSUME RecoveryTypeOK, SentSound, HeadersSound, [RecoveryNext]_allVars,
         NEW i \in 1..Len(headers)
  PROVE  /\ headers[i] \in Calls
         /\ args' = args
         /\ link'[headers[i]] = link[headers[i]]
<1>1. headers[i] \in Calls /\ tx[headers[i]] = "landed" /\ TypeOK
  BY DEF RecoveryTypeOK, HeadersSound
<1>2. ASSUME NEW c \in Calls, tx[c] # "none" PROVE link'[c] = link[c]
  BY <1>1, <1>2, SentStays
<1>3. QED
  BY <1>1, <1>2, ArgsStay

\* A header that a run has passed stays accounted for, unless the table is lost.
LEMMA PassedStays ==
  ASSUME RecoveryTypeOK, SentSound, HeadersSound, PassedSound, [RecoveryNext]_allVars,
         ~Disaster, run \in {"running", "done", "aborted"}, headers' = headers,
         NEW i \in 1..pos
  PROVE  args'[headers'[i]].payload \in Keyed \/ EventId(headers[i])' \in Ids(rows')
<1>1. i \in 1..Len(headers)
  BY DEF RecoveryTypeOK
<1>2. args[headers[i]].payload \in Keyed \/ EventId(headers[i]) \in Ids(rows)
  BY DEF PassedSound
<1>3. EventId(headers[i])' = EventId(headers[i])
  BY <1>1, HeadersStay DEF EventId
<1>4. Ids(rows) \subseteq Ids(rows')
  BY RowsStay DEF Ids
<1>5. QED
  BY <1>1, <1>2, <1>3, <1>4, HeadersStay

\* The header a run deals with is dropped as unverified, or in the table after.
LEMMA NextPassed ==
  ASSUME RecoveryTypeOK, SentSound, HeadersSound, [RecoveryNext]_allVars,
         DropUnverified \/ Insert
  PROVE  /\ pos + 1 \in 1..Len(headers)
         /\ headers' = headers /\ pos' = pos + 1
         /\ run = "running" /\ run' \in {"running", "done"}
         /\ \A k \in {pos + 1} : \/ args'[headers'[k]].payload \in Keyed
                               \/ EventId(headers[k])' \in Ids(rows')
<1>1. /\ headers' = headers /\ pos' = pos + 1 /\ run = "running"
      /\ run' \in {"running", "done"}
  BY DEF DropUnverified, Insert, Proceed
<1>2. pos + 1 \in 1..Len(headers)
  BY <1>1 DEF RecoveryTypeOK
<1>3. \A c \in Calls : Restored(c).id = EventId(c)
  BY DEF Restored
<1>4. CASE DropUnverified
  BY <1>1, <1>2, <1>4, HeadersStay DEF DropUnverified
<1>5. CASE Insert
  <2>1. PICK c \in Calls : c = headers[pos + 1]
    BY <1>2, HeadersStay
  <2>2. rows' = rows \cup {Restored(c)}
    BY <1>5, <2>1 DEF Insert
  <2>3. EventId(c) \in Ids(rows')
    BY <1>3, <2>2 DEF Ids
  <2>4. \A k \in {pos + 1} : EventId(headers[k])' = EventId(c)
    BY <1>1, <1>2, <2>1, HeadersStay DEF EventId
  <2>5. QED
    BY <1>1, <1>2, <2>3, <2>4
<1>6. QED
  BY <1>1, <1>2, <1>4, <1>5

\* Nothing comes into the table without a timestamp that is not on Sui.
LEMMA UntimedStep ==
  ASSUME RecoveryTypeOK, SentSound, HeadersSound, PassedSound, [RecoveryNext]_allVars,
         NEW r \in rows', r.ts = 0
  PROVE  tx'[r.by] = "landed"
<1>0. TypeOK
  BY DEF RecoveryTypeOK
<1>1. CASE r \in rows
  <2>1. PICK c \in Calls : c = r.by
    BY <1>0, <1>1 DEF TypeOK, Row
  <2>2. tx[c] = "landed"
    BY <1>1, <2>1 DEF PassedSound
  <2>3. tx'[c] = "landed"
    BY <1>0, <2>2, SentStays
  <2>4. QED
    BY <2>1, <2>3
<1>2. CASE r \notin rows
  <2>1. CASE Insert
    <3>1. pos + 1 \in 1..Len(headers)
      BY <2>1, NextPassed
    <3>2. PICK c \in Calls : c = headers[pos + 1] /\ tx[c] = "landed"
      BY <3>1, HeadersStay DEF HeadersSound
    <3>3. rows' = rows \cup {Restored(c)} /\ tx' = tx
      BY <2>1, <3>2 DEF Insert
    <3>4. r.by = c
      BY <1>2, <3>3 DEF Restored
    <3>5. QED
      BY <3>2, <3>3, <3>4
  <2>2. ASSUME NEW c \in Calls, Commit(c) PROVE FALSE
    <3>1. PICK digest \in AnchorResult(c) : rows' = rows \cup {RowOf(c, digest)}
      BY <2>2 DEF Commit
    <3>2. r.ts = link[c].ts
      BY <1>2, <3>1 DEF RowOf
    <3>3. link[c].ts >= 1
      BY <2>2 DEF Commit, SentSound
    <3>4. QED
      BY <3>2, <3>3
  <2>3. CASE ~Insert /\ \A c \in Calls : ~Commit(c)
    <3>1. rows' \subseteq rows
      <4>1. ASSUME Appending \/ Anchoring PROVE rows' = rows
        BY <2>3, <4>1, AppendsAreSteps, OnlyCommitsWrite
      <4>2. ASSUME Disaster \/ Sync \/ DropUnverified \/ InsertRefused \/ Die
                   \/ UNCHANGED allVars
            PROVE  rows' \subseteq rows
        BY <4>2 DEF Disaster, Sync, DropUnverified, InsertRefused, Die, allVars, vars
      <4>3. QED
        BY <2>3, <4>1, <4>2, StepsOfRecovery DEF Committing
    <3>2. QED
      BY <1>2, <3>1
  <2>4. QED
    BY <2>1, <2>2, <2>3
<1>3. QED
  BY <1>1, <1>2

\* Every step keeps PassedSound.
LEMMA PassedStep ==
  ASSUME RecoveryTypeOK, SentSound, HeadersSound, PassedSound, [RecoveryNext]_allVars
  PROVE  PassedSound'
<1>1. \A r \in rows' : r.ts = 0 => tx'[r.by] = "landed"
  BY UntimedStep
<1>2. ASSUME run' \in {"running", "done", "aborted"}, NEW i \in 1..pos'
      PROVE  args'[headers'[i]].payload \in Keyed \/ EventId(headers[i])' \in Ids(rows')
  <2>1. CASE Disaster
    BY <1>2, <2>1 DEF Disaster
  <2>2. CASE Sync
    BY <1>2, <2>2 DEF Sync
  <2>3. CASE (DropUnverified \/ Insert) /\ ~Disaster
    <3>1. i \in 1..pos \/ i = pos + 1
      BY <1>2, <2>3, NextPassed DEF RecoveryTypeOK
    <3>2. CASE i \in 1..pos
      BY <2>3, <3>2, NextPassed, PassedStays
    <3>3. CASE i = pos + 1
      BY <2>3, <3>3, NextPassed
    <3>4. QED
      BY <3>1, <3>2, <3>3
  <2>4. CASE ~Disaster /\ ~Sync /\ ~DropUnverified /\ ~Insert
    <3>1. headers' = headers /\ pos' = pos /\ run \in {"running", "done", "aborted"}
      <4>1. CASE Appending \/ Committing \/ Anchoring
        BY <1>2, <4>1, AppendsLeaveTheRun
      <4>2. CASE InsertRefused \/ Die \/ UNCHANGED allVars
        BY <1>2, <4>2 DEF InsertRefused, Die, allVars, recoveryVars, local
      <4>3. QED
        BY <2>4, <4>1, <4>2, StepsOfRecovery
    <3>2. QED
      BY <1>2, <2>4, <3>1, PassedStays
  <2>5. QED
    BY <2>1, <2>2, <2>3, <2>4
<1>3. QED
  BY <1>1, <1>2 DEF PassedSound

\* Every step keeps AloneSound: whoever else writes has the table no more to
\* itself, and neither has the run.
LEMMA AloneStep ==
  ASSUME RecoveryTypeOK, SentSound, HeadersSound, AloneSound, [RecoveryNext]_allVars
  PROVE  AloneSound'
<1> SUFFICES ASSUME alone', run' \in {"running", "aborted"}, NEW r \in rows'
             PROVE  \E i \in 1..pos' : r.id = EventId(headers[i])'
  BY DEF AloneSound
<1>0. pos \in Nat /\ \A i \in 1..pos : i \in 1..Len(headers)
  BY DEF RecoveryTypeOK
<1>1. CASE Sync
  BY <1>1 DEF Sync, vars
<1>2. CASE Committing \/ Disaster
  BY <1>2 DEF Committing, Disaster
<1>3. CASE Appending \/ Anchoring \/ DropUnverified \/ InsertRefused \/ Die
           \/ UNCHANGED allVars
  <2>1. /\ headers' = headers /\ pos' \in {pos, pos + 1}
        /\ alone /\ run \in {"running", "aborted"}
    <3>1. CASE Appending \/ Anchoring
      BY <3>1, AppendsLeaveTheRun
    <3>2. CASE DropUnverified
      BY <3>2 DEF DropUnverified, Proceed
    <3>3. CASE InsertRefused \/ Die \/ UNCHANGED allVars
      BY <3>3 DEF InsertRefused, Die, allVars, recoveryVars, local
    <3>4. QED
      BY <1>3, <3>1, <3>2, <3>3
  <2>2. rows' = rows
    <3>1. CASE Appending \/ Anchoring
      <4>1. \A c \in Calls : ~Commit(c)
        <5> SUFFICES ASSUME NEW c \in Calls, Commit(c) PROVE FALSE
          OBVIOUS
        <5>1. PICK digest \in AnchorResult(c) : rows' = rows \cup {RowOf(c, digest)}
          BY DEF Commit
        <5>2. RowOf(c, digest) \notin rows
          BY DEF Commit, RowOf, Ids
        <5>3. rows' = rows
          BY <3>1 DEF Appending, Anchoring, Begin, StoreFails, Prepare, CommitRefused,
             Index, Crash, AnchorLands
        <5>4. QED
          BY <5>1, <5>2, <5>3
      <4>2. QED
        BY <3>1, <4>1, AppendsAreSteps, OnlyCommitsWrite
    <3>2. CASE DropUnverified \/ InsertRefused \/ Die \/ UNCHANGED allVars
      BY <3>2 DEF DropUnverified, InsertRefused, Die, allVars, vars
    <3>3. QED
      BY <1>3, <3>1, <3>2
  <2>3. PICK i \in 1..pos : r.id = EventId(headers[i])
    BY <2>1, <2>2 DEF AloneSound
  <2>4. EventId(headers[i])' = EventId(headers[i])
    BY <1>0, <2>1, HeadersStay DEF EventId
  <2>5. i \in 1..pos'
    BY <1>0, <2>1
  <2>6. QED
    BY <2>3, <2>4, <2>5
<1>4. CASE Insert
  <2>1. /\ headers' = headers /\ pos' = pos + 1 /\ run = "running" /\ alone
        /\ pos + 1 \in 1..Len(headers)
    BY <1>4, NextPassed DEF Insert
  <2>2. CASE r \in rows
    <3>1. PICK i \in 1..pos : r.id = EventId(headers[i])
      BY <2>1, <2>2 DEF AloneSound
    <3>2. EventId(headers[i])' = EventId(headers[i])
      BY <1>0, <2>1, HeadersStay DEF EventId
    <3>3. i \in 1..pos'
      BY <1>0, <2>1
    <3>4. QED
      BY <3>1, <3>2, <3>3
  <2>3. CASE r \notin rows
    <3>1. PICK c \in Calls : c = headers[pos + 1]
      BY <2>1, HeadersStay
    <3>2. r = Restored(c)
      BY <1>4, <2>3, <3>1 DEF Insert
    <3>3. PICK k \in 1..Len(headers) : k = pos + 1
      BY <2>1
    <3>4. r.id = EventId(headers[k])
      BY <3>1, <3>2, <3>3 DEF Restored
    <3>5. EventId(headers[k])' = EventId(headers[k])
      BY <2>1, HeadersStay DEF EventId
    <3>6. k \in 1..pos'
      BY <1>0, <2>1, <3>3
    <3>7. QED
      BY <3>4, <3>5, <3>6
  <2>4. QED
    BY <2>2, <2>3
<1>5. QED
  BY <1>1, <1>2, <1>3, <1>4, StepsOfRecovery

\* Every step keeps RefusedSound.
LEMMA RefusedStep ==
  ASSUME RecoveryTypeOK, SentSound, HeadersSound, RefusedSound, [RecoveryNext]_allVars
  PROVE  RefusedSound'
<1> SUFFICES ASSUME run' = "aborted" PROVE EventId(headers[pos + 1])' \in Ids(rows')
  BY DEF RefusedSound
<1>1. /\ headers' = headers /\ pos' = pos /\ pos < Len(headers) /\ ~Disaster
      /\ EventId(headers[pos + 1]) \in Ids(rows)
  <2>1. CASE Appending \/ Committing \/ Anchoring
    <3>1. ~Disaster
      BY <2>1, AppendsLeaveTheRun DEF Disaster
    <3>2. QED
      BY <2>1, <3>1, AppendsLeaveTheRun DEF HeadersSound, RefusedSound
  <2>2. CASE InsertRefused
    BY <2>2 DEF InsertRefused, RecoveryTypeOK, Disaster
  <2>3. CASE Sync \/ DropUnverified \/ Insert \/ Die \/ Disaster
    BY <2>3 DEF Sync, DropUnverified, Insert, Die, Disaster, Proceed
  <2>4. CASE UNCHANGED allVars
    BY <2>4 DEF allVars, recoveryVars, local, HeadersSound, RefusedSound, Disaster
  <2>5. QED
    BY <2>1, <2>2, <2>3, <2>4, StepsOfRecovery
<1>2. pos + 1 \in 1..Len(headers)
  BY <1>1 DEF RecoveryTypeOK
<1>3. EventId(headers[pos + 1])' = EventId(headers[pos + 1])
  BY <1>1, <1>2, HeadersStay DEF EventId
<1>4. QED
  BY <1>1, <1>3, RowsStay DEF Ids

-----------------------------------------------------------------------------
(***************************************************************************)
(* The hash chain                                                          *)
(***************************************************************************)

\* A link keeps its parent as long as the table is not lost.
LEMMA ParentedStays ==
  ASSUME [RecoveryNext]_allVars, ~Disaster, NEW e, NEW ws, Parented(e, ws)
  PROVE  e.prev = NoHash \/ \E q \in rows' : q.id = e.prev /\ q.ws = ws /\ q.ts < e.ts
BY RowsStay DEF Parented

\* The clock only goes forward.
LEMMA ClockGoesOn ==
  ASSUME TypeOK, [RecoveryNext]_allVars
  PROVE  clock \in Nat /\ clock' \in Nat /\ clock <= clock'
<1>1. CASE Appending \/ Committing \/ Anchoring
  BY <1>1 DEF Appending, Committing, Anchoring, Begin, StoreFails, Prepare, AnchorLands,
     Commit, CommitRefused, Index, Crash, TypeOK
<1>2. CASE Disaster \/ Sync \/ DropUnverified \/ Insert \/ InsertRefused \/ Die
           \/ UNCHANGED allVars
  BY <1>2 DEF Disaster, Sync, DropUnverified, Insert, InsertRefused, Die, allVars, vars, TypeOK
<1>3. QED
  BY <1>1, <1>2, StepsOfRecovery

\* The link of an event about to become a row is in order: it was, or it is
\* the one Prepare has just built.
LEMMA FlightStep ==
  ASSUME RecoveryTypeOK, ParentsSound, [RecoveryNext]_allVars, ~Disaster,
         NEW c \in Calls, stage'[c] = "anchoring"
  PROVE  /\ link'[c].ts < clock'
         /\ \/ link'[c].prev = NoHash
            \/ \E q \in rows' : q.id = link'[c].prev /\ q.ws = args[c].ws /\ q.ts < link'[c].ts
<1>0. TypeOK
  BY DEF RecoveryTypeOK
<1>1. clock \in Nat /\ clock' \in Nat /\ clock <= clock' /\ link[c].ts \in Nat
  BY <1>0, ClockGoesOn DEF TypeOK, Link
<1>2. CASE Prepare(c)
  <2>1. PICK h \in Ids(rows) \cup {NoHash} :
          /\ IsLatestEventHash(h, args[c].ws)
          /\ link' = [link EXCEPT ![c] = [prev |-> h, ts |-> clock, seen |-> Ids(rows)]]
    BY <1>2 DEF Prepare
  <2>2. link'[c].prev = h /\ link'[c].ts = clock /\ clock' = clock + 1 /\ rows' = rows
    BY <1>0, <1>2, <2>1 DEF TypeOK, Prepare
  <2>3. CASE RowsIn(args[c].ws) = {}
    BY <1>1, <2>1, <2>2, <2>3 DEF IsLatestEventHash
  <2>4. CASE RowsIn(args[c].ws) # {}
    <3>1. PICK p \in RowsIn(args[c].ws) : h = p.id
      BY <2>1, <2>4 DEF IsLatestEventHash
    <3>2. p \in rows /\ p.ws = args[c].ws /\ p.ts < clock
      BY <3>1 DEF RowsIn, ParentsSound
    <3>3. QED
      BY <1>1, <2>2, <3>1, <3>2
  <2>5. QED
    BY <2>3, <2>4
<1>3. CASE ~Prepare(c)
  <2>1. stage[c] = "anchoring" /\ link'[c] = link[c]
    <3>1. CASE Appending \/ Committing \/ Anchoring
      <4>1. [Next]_vars
        BY <3>1, AppendsAreSteps
      <4>2. stage[c] = "anchoring"
        BY <1>0, <1>3, <4>1, Moves
      <4>3. ASSUME NEW d \in Calls, Prepare(d) PROVE link'[c] = link[c]
        <5>1. d # c
          BY <1>3, <4>3
        <5>2. QED
          BY <1>0, <4>3, <5>1 DEF Prepare, TypeOK
      <4>4. QED
        BY <4>1, <4>2, <4>3, OnlyCommitsWrite
    <3>2. CASE Sync \/ DropUnverified \/ Insert \/ InsertRefused \/ Die \/ UNCHANGED allVars
      BY <3>2 DEF Sync, DropUnverified, Insert, InsertRefused, Die, allVars, vars
    <3>3. QED
      BY <3>1, <3>2, StepsOfRecovery
  <2>2. link[c].ts < clock /\ Parented(link[c], args[c].ws)
    BY <2>1 DEF ParentsSound
  <2>3. QED
    BY <1>1, <2>1, <2>2, ParentedStays
<1>4. QED
  BY <1>2, <1>3

\* So is the link of every row: it was there, or it was in flight, or it was
\* recovered, and then it has none.
LEMMA RowParentStep ==
  ASSUME RecoveryTypeOK, ParentsSound, [RecoveryNext]_allVars, ~Disaster,
         SentSound, NEW r \in rows'
  PROVE  /\ r.ts < clock'
         /\ \/ r.prev = NoHash
            \/ \E q \in rows' : q.id = r.prev /\ q.ws = r.ws /\ q.ts < r.ts
<1>0. TypeOK /\ clock \in Nat /\ clock' \in Nat /\ clock <= clock'
  BY ClockGoesOn DEF RecoveryTypeOK
<1>1. CASE r \in rows
  <2>1. r.ts \in Nat /\ r.ts < clock /\ Parented(r, r.ws)
    BY <1>0, <1>1 DEF TypeOK, Row, ParentsSound
  <2>2. QED
    BY <1>0, <2>1, ParentedStays
<1>2. ASSUME NEW c \in Calls, Commit(c), r \notin rows
      PROVE  /\ r.ts < clock'
             /\ \/ r.prev = NoHash
                \/ \E q \in rows' : q.id = r.prev /\ q.ws = r.ws /\ q.ts < r.ts
  <2>1. PICK digest \in AnchorResult(c) : rows' = rows \cup {RowOf(c, digest)}
    BY <1>2 DEF Commit
  <2>2. r.prev = link[c].prev /\ r.ts = link[c].ts /\ r.ws = args[c].ws
    BY <1>2, <2>1 DEF RowOf
  <2>3. link[c].ts < clock /\ Parented(link[c], args[c].ws) /\ link[c].ts \in Nat
    BY <1>0, <1>2 DEF Commit, ParentsSound, TypeOK, Link
  <2>4. QED
    BY <1>0, <2>2, <2>3, ParentedStays
<1>3. ASSUME Insert, r \notin rows PROVE r.ts < clock' /\ r.prev = NoHash
  <2>1. headers[pos + 1] \in Calls
    BY <1>3 DEF RecoveryTypeOK, Insert
  <2>2. PICK c \in Calls : rows' = rows \cup {Restored(c)}
    BY <1>3, <2>1 DEF Insert
  <2>3. r.prev = NoHash /\ r.ts = 0
    BY <1>3, <2>2 DEF Restored
  <2>4. QED
    BY <1>0, <2>3 DEF SentSound
<1>4. CASE ~Insert /\ \A c \in Calls : ~Commit(c)
  <2>1. ASSUME Appending \/ Committing \/ Anchoring PROVE rows' = rows
    BY <1>4, <2>1, AppendsAreSteps, OnlyCommitsWrite
  <2>2. ASSUME Sync \/ DropUnverified \/ InsertRefused \/ Die \/ UNCHANGED allVars
        PROVE  rows' = rows
    BY <2>2 DEF Sync, DropUnverified, InsertRefused, Die, allVars, vars
  <2>3. r \in rows
    BY <1>4, <2>1, <2>2, StepsOfRecovery
  <2>4. QED
    BY <1>1, <2>3
<1>5. QED
  BY <1>1, <1>2, <1>3, <1>4

\* Every step keeps every link in order.
LEMMA ParentsStep ==
  ASSUME RecoveryTypeOK, SentSound, ParentsSound, [RecoveryNext]_allVars
  PROVE  ParentsSound'
<1>1. CASE Disaster
  <2>1. /\ rows' = {}
        /\ stage' = [c \in Calls |-> IF stage[c] \in {"storing", "anchoring", "indexing"}
                                     THEN "lost" ELSE stage[c]]
    BY <1>1 DEF Disaster
  <2>2. \A c \in Calls : stage'[c] # "anchoring"
    BY <2>1
  <2>3. QED
    BY <2>1, <2>2 DEF ParentsSound
<1>2. CASE ~Disaster
  <2>1. args' = args
    BY ArgsStay
  <2>2. QED
    BY <1>2, <2>1, FlightStep, RowParentStep DEF ParentsSound, Parented
<1>3. QED
  BY <1>1, <1>2

-----------------------------------------------------------------------------
(***************************************************************************)
(* What follows                                                            *)
(***************************************************************************)

\* The invariant holds before anything has happened.
LEMMA RecoveryStarts == RecoveryInit => RecoveryInv
<1> SUFFICES ASSUME RecoveryInit PROVE RecoveryInv
  OBVIOUS
<1>1. Init /\ chain = <<>> /\ headers = <<>> /\ run = "never" /\ pos = 0 /\ count = 0
      /\ sealed = {} /\ hollow = {} /\ runs = 0 /\ disasters = 0 /\ alone = FALSE
  BY DEF RecoveryInit
<1>2. TypeOK
  <2>1. [prev |-> NoHash, ts |-> 0, seen |-> {}] \in Link
    BY NoHashType DEF Link
  <2>2. QED
    BY <1>1, <2>1, NoHashType DEF Init, TypeOK, Stage
<1>3. RecoveryTypeOK
  <2>1. chain \in Seq(Calls) /\ headers \in Seq(Calls) /\ pos \in 0..Len(headers)
    BY <1>1
  <2>2. runs \in 0..MaxRuns /\ disasters \in 0..MaxDisasters
    BY <1>1, BoundsAssumption
  <2>3. QED
    BY <1>1, <1>2, <2>1, <2>2 DEF RecoveryTypeOK
<1>4. SentSound /\ ParentsSound
  BY <1>1 DEF SentSound, ParentsSound, Init
<1>5. HeadersSound /\ PassedSound /\ AloneSound /\ RefusedSound
  BY <1>1 DEF HeadersSound, PassedSound, AloneSound, RefusedSound, Init
<1>6. QED
  BY <1>3, <1>4, <1>5 DEF RecoveryInv

\* Every step keeps it.
LEMMA RecoveryStep == RecoveryInv /\ [RecoveryNext]_allVars => RecoveryInv'
<1> SUFFICES ASSUME RecoveryInv, [RecoveryNext]_allVars PROVE RecoveryInv'
  OBVIOUS
<1>1. RecoveryTypeOK /\ TypeOK /\ SentSound /\ HeadersSound /\ PassedSound /\ AloneSound
      /\ RefusedSound /\ ParentsSound
  BY DEF RecoveryInv, RecoveryTypeOK
<1>2. QED
  BY <1>1, RecoveryTypeStep, SentStep, HeadersStep, PassedStep, AloneStep, RefusedStep,
     ParentsStep
  DEF RecoveryInv

\* It holds of every reachable state.
THEOREM RecoveryHolds == RecoverySpec => []RecoveryInv
BY RecoveryStarts, RecoveryStep, PTL DEF RecoverySpec

\* The rows, the chain and the run's counts agree, and a run passes over no
\* event but those it drops as unverified, however often it is cut short and
\* whoever appends meanwhile.
THEOREM RecoveryIsSound == RecoverySpec => []RecoverySound
<1>1. RecoveryInv => RecoverySound
  <2> SUFFICES ASSUME RecoveryInv PROVE Accounted
    BY DEF RecoveryInv, RecoverySound
  <2>1. RecoveryTypeOK /\ PassedSound /\ HeadersSound
    BY DEF RecoveryInv
  <2>2. ASSUME NEW r \in rows, r.ts = 0 PROVE r.by \in Range(chain)
    <3>1. r.by \in Calls /\ tx[r.by] = "landed"
      BY <2>1, <2>2 DEF RecoveryTypeOK, TypeOK, Row, PassedSound
    <3>2. PICK i \in 1..Len(chain) : chain[i] = r.by
      BY <2>1, <3>1 DEF HeadersSound
    <3>3. DOMAIN chain = 1..Len(chain)
      BY <2>1 DEF RecoveryTypeOK
    <3>4. QED
      BY <3>2, <3>3 DEF Range
  <2>3. QED
    BY <2>1, <2>2 DEF Accounted, PassedSound
<1>2. QED
  BY <1>1, RecoveryHolds, PTL

\* A run that has an empty table to itself is refused by nothing but an event
\* that was anchored twice: what refuses it, it put there itself, and it read
\* every transaction once.
THEOREM AbortsAreTwins == RecoverySpec => []AbortOnlyAtTwin
<1>1. RecoveryInv => AbortOnlyAtTwin
  <2> SUFFICES ASSUME RecoveryInv, run = "aborted", alone
               PROVE  \E i \in 1..pos : /\ headers[i] # headers[pos + 1]
                                        /\ EventId(headers[i]) = EventId(headers[pos + 1])
    BY DEF AbortOnlyAtTwin
  <2>1. EventId(headers[pos + 1]) \in Ids(rows)
    BY DEF RecoveryInv, RefusedSound
  <2>2. PICK i \in 1..pos : EventId(headers[pos + 1]) = EventId(headers[i])
    BY <2>1 DEF RecoveryInv, AloneSound, Ids
  <2>3. pos \in Nat /\ Len(headers) \in Nat /\ pos < Len(headers)
    BY DEF RecoveryInv, RecoveryTypeOK, HeadersSound
  <2>4. i \in 1..Len(headers) /\ pos + 1 \in 1..Len(headers) /\ i # pos + 1
    BY <2>3
  <2>5. headers[i] # headers[pos + 1]
    BY <2>4 DEF RecoveryInv, HeadersSound
  <2>6. QED
    BY <2>2, <2>5
<1>2. QED
  BY <1>1, RecoveryHolds, PTL

\* The hash chain of the rows stays closed, recovered and new ones together.
THEOREM RecoveredLinksClosed == RecoverySpec => []LinksClosed
<1>1. RecoveryInv => LinksClosed
  BY DEF RecoveryInv, ParentsSound, Parented, LinksClosed, IsParent
<1>2. QED
  BY <1>1, RecoveryHolds, PTL

\* Neither a run, repeated or concurrent with appends, nor an append changes
\* or removes a committed row.
THEOREM RowsAreKept == RecoverySpec => RowsKept
<1>1. RecoveryInv /\ [RecoveryNext]_allVars
        => [rows \subseteq rows' \/ disasters' > disasters]_allVars
  <2> SUFFICES ASSUME RecoveryInv, [RecoveryNext]_allVars
               PROVE  rows \subseteq rows' \/ disasters' > disasters
    OBVIOUS
  <2>1. CASE Disaster
    BY <2>1 DEF Disaster, RecoveryInv, RecoveryTypeOK
  <2>2. QED
    BY <2>1, RowsStay
<1>2. QED
  BY <1>1, RecoveryHolds, PTL DEF RecoverySpec, RowsKept

=============================================================================
