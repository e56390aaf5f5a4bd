------------------------------- MODULE Replay -------------------------------
(***************************************************************************)
(* What is read of the log of EventLog while calls of append are under     *)
(* way: the state of a workspace at an earlier moment, from the events up  *)
(* to then (ReplayEngine, src/walrusos/engine/replay.py), and the pages of *)
(* memories that the dashboard bridge lists.                               *)
(*                                                                         *)
(* One agent writes all events.  A payload may grant it a permission or    *)
(* revoke one; signatures and hashes are those the log was written with,   *)
(* and verify.                                                             *)
(***************************************************************************)
EXTENDS EventLog, FiniteSets, SequencesExt

CONSTANT Change   \* payloads to the permission that they grant or revoke

ASSUME ChangeAssumption ==
  /\ DOMAIN Change \subseteq Payloads \ MemoryPayloads
  /\ \A p \in DOMAIN Change : Change[p].op \in {"grant", "revoke"}

\* The members of a finite set in the order of their keys, which all differ.
Sorted(S, key) ==
  [n \in 1 .. Cardinality(S) |-> CHOOSE x \in S : Cardinality({y \in S : key[y] <= key[x]}) = n]

\* ORDER BY timestamp, and ORDER BY timestamp DESC.
ByTime(table) == Sorted(table, [r \in table |-> r.ts])
LatestFirst(table) == Sorted(table, [r \in table |-> -r.ts])

\* fetch_events: a workspace's events, ORDER BY timestamp.
Fetched(table, ws) == ByTime({r \in table : r.ws = ws})

\* The trackers: an agent's permissions in the order of their grants.
Tracked(caps, payload) ==
  IF payload \notin DOMAIN Change THEN caps
  ELSE IF Change[payload].op = "grant" THEN Append(caps, Change[payload].perm)
  ELSE IF Contains(caps, Change[payload].perm) THEN Remove(caps, Change[payload].perm)
  ELSE caps

\* An agent without any grant may write, one with a grant only if it has "write".
Allowed(caps, payload) ==
  payload \in MemoryPayloads => caps = <<>> \/ Contains(caps, "write")

After(events) == FoldLeft(LAMBDA caps, r : Tracked(caps, r.payload), <<>>, events)

\* Mistake: the permissions of now decide about every event.
StandingNow(events, n) == After(events)

\* An event's own change is tracked before it is looked at.
Standing(events, n) == After(SubSeq(events, 1, n))

\* replay: the events not later than the moment that the agent was allowed to
\* write when it wrote them.
Replayed(table, ws, moment) ==
  LET events == Fetched(table, ws)
      valid == {n \in DOMAIN events : /\ events[n].ts <= moment
                                      /\ Allowed(Standing(events, n), events[n].payload)}
      kept == Sorted(valid, [n \in valid |-> n])
  IN [k \in DOMAIN kept |-> events[kept[k]].id]

\* The rows at the places of a page.
Page(events, offset, limit) ==
  {events[n] : n \in offset + 1 .. Min({offset + limit, Len(events)})}

\* get_memory_events: ORDER BY timestamp DESC, and of the page those events that
\* are in the stream asked for.
MemoryPage(table, stream, offset, limit) ==
  LET memories == {r \in table : r.payload \in MemoryPayloads}
  IN {r \in Page(LatestFirst(memories), offset, limit) : StreamOf[r.payload] = stream}

\* get_activity: the latest events of all workspaces.
Activity(table, limit) == Page(LatestFirst(table), 0, limit)
------------------------------------------------------------------------------
\* A replay up to a moment is final, once no call under way took its timestamp
\* before that moment: whatever is committed, granted or revoked afterwards, the
\* workspace as it was then stays as it was.  Only a call that overlapped the
\* moment may still change it, two awaits after its timestamp (event_store.py:83).
ReplayStays ==
  \A ws \in Workspaces, moment \in 0 .. clock - 1 :
    (\A c \in Calls : stage[c] = "anchoring" => link[c].ts > moment)
      => Replayed(rows', ws, moment) = Replayed(rows, ws, moment)

\* Whoever reads a stream page by page misses nothing, though memories are
\* committed between two requests: one that was after the pages that have been
\* read is still after them, and in some later page.
PagesMissNothing ==
  \A s \in Streams, read \in 0 .. Cardinality(rows) :
    LET all == Cardinality(rows')
    IN Ids(MemoryPage(rows, s, read, all)) \subseteq
         UNION {Ids(MemoryPage(rows', s, read + k, 1)) : k \in 0 .. all}

\* An event that is committed is in the activity feed at once, unless as many
\* as the feed has room for were committed while it was under way: those it had
\* not seen when it took its timestamp.
ActivityShowsNew ==
  \A r \in rows' \ rows, room \in 1 .. Cardinality(rows') :
    r \in Activity(rows', room) \/ Cardinality({q \in rows : q.id \notin r.seen}) >= room

ReadersSound == [][rows # rows' => ReplayStays /\ PagesMissNothing /\ ActivityShowsNew]_rows
==============================================================================
