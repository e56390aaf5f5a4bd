------------------------------ MODULE Recovery ------------------------------
(***************************************************************************)
(* Disaster recovery (src/walrusos/engine/recovery.py) composed with the   *)
(* append path whose events it recovers.  What survives a disaster is the  *)
(* payloads on Walrus and the headers on Sui; recover() reads the headers  *)
(* in the order they were anchored, fetches each payload, verifies it and  *)
(* inserts the event into the local table, one commit at a time.  It is a  *)
(* process of its own (walrusos recover), and may run while others append, *)
(* die in the middle, and be run again.                                    *)
(*                                                                         *)
(* A header carries the event's id, type and blob, but neither the         *)
(* signature, the previous hash nor the timestamp of the event             *)
(* (sui_real.py:460-462): anchor_event sends "cli-unsigned" and "genesis". *)
(***************************************************************************)
EXTENDS EventLog, Functions

CONSTANTS
  Keyed,         \* payloads that hold a public_key: memories, registrations
  MaxRuns,       \* bound on the runs of recover()
  MaxDisasters   \* bound on the losses of the database

ASSUME KeyedAssumption == Keyed \subseteq Payloads
ASSUME BoundsAssumption == MaxRuns \in Nat /\ MaxDisasters \in Nat

VARIABLES
  chain,     \* the calls whose ProtocolEventAnchored is on Sui, oldest first
  run,       \* "never", "running", "done", "aborted" or "dead"
  headers,   \* raw_headers of the last run
  pos,       \* how many of them it has been through
  count,     \* recovered_count
  sealed,    \* calls whose payload is encrypted with a key that is lost
  hollow,    \* ids of the rows whose payload is {"_status": "PayloadLost"}
  runs,      \* the runs started
  disasters, \* the losses of the database so far
  alone      \* history: the last run found an empty table, and nobody has
             \* appended since

local == <<run, headers, pos, count, hollow, runs, alone>>
recoveryVars == <<chain, sealed, local, disasters>>
allVars == <<vars, recoveryVars>>

RecoveryInit ==
  /\ Init
  /\ chain = <<>>
  /\ run = "never"
  /\ headers = <<>>
  /\ pos = 0
  /\ count = 0
  /\ sealed = {}
  /\ hollow = {}
  /\ runs = 0
  /\ disasters = 0
  /\ alone = FALSE

-----------------------------------------------------------------------------
(***************************************************************************)
(* The append path.  Timestamps of appends are positive here: the empty    *)
(* string a recovered row has for a timestamp sorts before all of them.    *)
(***************************************************************************)
Appending ==
  /\ \/ \E c \in Calls : \/ Begin(c) \/ StoreFails(c) \/ Prepare(c)
                         \/ CommitRefused(c) \/ Index(c)
     \/ \E p \in Processes : Crash(p)
  /\ UNCHANGED recoveryVars

Committing ==
  /\ \E c \in Calls : Commit(c)
  /\ alone' = FALSE
  /\ UNCHANGED <<chain, sealed, run, headers, pos, count, hollow, runs, disasters>>

Anchoring ==
  /\ \E c \in Calls : AnchorLands(c) /\ chain' = Append(chain, c)
  /\ UNCHANGED <<sealed, local, disasters>>

\* The machine is wiped: the database, and with it every process that used it
\* and whatever a run of recover() had achieved.  The key store is in the same
\* file (client.py:140, 148): the payloads stored so far are lost with it,
\* unless the adapter was given its key (walrus.py:143-146).
Disaster ==
  /\ disasters < MaxDisasters
  /\ disasters' = disasters + 1
  /\ rows' = {} /\ memory' = {} /\ head' = [s \in Streams |-> NoHash]
  /\ stage' = [c \in Calls |-> IF stage[c] \in {"storing", "anchoring", "indexing"}
                               THEN "lost" ELSE stage[c]]
  /\ run' = IF run = "never" THEN "never" ELSE "dead"
  /\ sealed' \in {sealed, sealed \cup {c \in Calls : tx[c] # "none"}}
  /\ hollow' = {}
  /\ alone' = FALSE
  /\ UNCHANGED <<args, link, tx, blobs, clock, chain, headers, pos, count, runs>>

-----------------------------------------------------------------------------
\* Mistake: the last event of a page is the first of the next.
SyncOverlapping ==
  /\ run # "running" /\ runs < MaxRuns /\ chain # <<>>
  /\ runs' = runs + 1
  /\ headers' = <<chain[1]>> \o chain
  /\ pos' = 0
  /\ count' = 0
  /\ run' = "running"
  /\ alone' = (rows = {})
  /\ UNCHANGED <<vars, chain, sealed, hollow, disasters>>

\* sync_events_from_network: all pages of the query, in the order of the chain.
Sync ==
  /\ run # "running" /\ runs < MaxRuns
  /\ runs' = runs + 1
  /\ headers' = chain
  /\ pos' = 0
  /\ count' = 0
  /\ run' = IF chain = <<>> THEN "done" ELSE "running"
  /\ alone' = (rows = {})
  /\ UNCHANGED <<vars, chain, sealed, hollow, disasters>>

\* Mistake: the event keeps the previous hash it had.
RestoredWithLink(c) ==
  [id |-> EventId(c), ws |-> args[c].ws, payload |-> args[c].payload,
   prev |-> link[c].prev, ts |-> 0, digest |-> FALSE, seen |-> {}, by |-> c]

\* The row made of a header: no digest, no link, and for a timestamp "", since
\* no payload has a timestamp of its own.
Restored(c) ==
  [id |-> EventId(c), ws |-> args[c].ws, payload |-> args[c].payload,
   prev |-> NoHash, ts |-> 0, digest |-> FALSE, seen |-> {}, by |-> c]

\* The loop goes on behind header i, or has been through all of them.
Proceed ==
  /\ pos' = pos + 1
  /\ run' = IF pos + 1 = Len(headers) THEN "done" ELSE "running"

\* The payload arrives, and holds a public key.  The signature of the header
\* does not verify, and the event is dropped.
DropUnverified ==
  /\ run = "running"
  /\ headers[pos + 1] \notin sealed /\ args[headers[pos + 1]].payload \in Keyed
  /\ Proceed
  /\ UNCHANGED <<vars, chain, sealed, headers, count, hollow, runs, disasters, alone>>

\* Mistake: an event of unavailable payload is skipped.
InsertHydrated ==
  LET c == headers[pos + 1] IN
  /\ run = "running"
  /\ EventId(c) \notin Ids(rows)
  /\ \E lost \in BOOLEAN :
       /\ args[c].payload \in Keyed \/ c \in sealed => lost
       /\ rows' = IF lost THEN rows ELSE rows \cup {Restored(c)}
  /\ count' = count + 1
  /\ Proceed
  /\ UNCHANGED <<stage, args, link, tx, blobs, memory, head, clock,
                 chain, sealed, headers, hollow, runs, disasters, alone>>

\* Mistake: INSERT OR REPLACE.
InsertReplacing ==
  LET c == headers[pos + 1] IN
  /\ run = "running"
  /\ args[c].payload \notin Keyed
  /\ rows' = {r \in rows : r.id # EventId(c)} \cup {Restored(c)}
  /\ count' = count + 1
  /\ Proceed
  /\ UNCHANGED <<stage, args, link, tx, blobs, memory, head, clock,
                 chain, sealed, headers, hollow, runs, disasters, alone>>

\* The event is inserted: unverified, if there is no public key to verify it
\* with, or without its payload, if that is not retrieved or not decrypted.  Re-indexing is
\* for memories with their payload, and those have a public key.
Insert ==
  LET c == headers[pos + 1] IN
  /\ run = "running"
  /\ EventId(c) \notin Ids(rows)
  /\ \E lost \in BOOLEAN :
       /\ args[c].payload \in Keyed \/ c \in sealed => lost
       /\ hollow' = IF lost THEN hollow \cup {EventId(c)} ELSE hollow
  /\ rows' = rows \cup {Restored(c)}
  /\ count' = count + 1
  /\ Proceed
  /\ UNCHANGED <<stage, args, link, tx, blobs, memory, head, clock,
                 chain, sealed, headers, runs, disasters, alone>>

\* The primary key is taken: the IntegrityError leaves recover().
InsertRefused ==
  /\ run = "running"
  /\ EventId(headers[pos + 1]) \in Ids(rows)
  /\ run' = "aborted"
  /\ UNCHANGED <<vars, chain, sealed, headers, pos, count, hollow, runs, disasters, alone>>

\* The process that recovers dies.
Die ==
  /\ run = "running"
  /\ run' = "dead"
  /\ UNCHANGED <<vars, chain, sealed, headers, pos, count, hollow, runs, disasters, alone>>

RecoveryNext == \/ Appending \/ Committing \/ Anchoring \/ Disaster
                \/ Sync \/ DropUnverified \/ Insert \/ InsertRefused \/ Die

RecoverySpec == RecoveryInit /\ [][RecoveryNext]_allVars
-----------------------------------------------------------------------------
\* Type invariant of the composition: an event is listed as PayloadLost only
\* if it has a row, and a run that goes on has a header to go on with.
RecoveryTypeOK ==
  /\ TypeOK
  /\ chain \in Seq(Calls) /\ headers \in Seq(Calls)
  /\ run \in {"never", "running", "done", "aborted", "dead"}
  /\ run = "running" => pos < Len(headers)
  /\ pos \in 0..Len(headers) /\ count \in 0..pos
  /\ hollow \subseteq Ids(rows) /\ sealed \subseteq Calls
  /\ runs \in 0..MaxRuns /\ disasters \in 0..MaxDisasters
  /\ alone \in BOOLEAN

\* A run that finds an empty table and has it to itself is aborted by nothing
\* but an event anchored twice: two appends that raced to the same event id,
\* of which the table had refused one (event_store.py:96, recovery.py:139).
AbortOnlyAtTwin ==
  run = "aborted" /\ alone =>
    \E i \in 1..pos : /\ headers[i] # headers[pos + 1]
                      /\ EventId(headers[i]) = EventId(headers[pos + 1])

\* Whatever a run has been through and not dropped as unverified is in the
\* table, with or without its payload, even if the run was cut short; and a
\* row without a timestamp was made of a header on the chain.
Accounted ==
  /\ run \in {"running", "done", "aborted"} =>
       \A i \in 1..pos : args[headers[i]].payload \in Keyed
                           \/ EventId(headers[i]) \in Ids(rows)
  /\ \A r \in rows : r.ts = 0 => r.by \in Range(chain)

\* The rows, the chain and the run's counts agree, and no event is passed over.
RecoverySound == RecoveryTypeOK /\ Accounted

\* Neither a run of recover(), repeated or concurrent with appends, nor an
\* append changes or removes a committed row; only a disaster does.
RowsKept == [][rows \subseteq rows' \/ disasters' > disasters]_allVars

\* What docs/recovery.md:9 guarantees: "Every piece of memory WalrusOS has ever
\* written can be recovered [...] even if your local machine is completely
\* wiped."  After a run that is done every event anchored before it has a row,
\* with its payload or without.
EverythingRecovered ==
  run = "done" /\ alone /\ disasters > 0 => \A c \in Range(headers) : EventId(c) \in Ids(rows)
=============================================================================
