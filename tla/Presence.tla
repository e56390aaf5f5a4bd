------------------------------- MODULE Presence -------------------------------
(***************************************************************************)
(* Who is online: the presence store and the agent registry of the         *)
(* dashboard bridge, the sessions of agents (sdk/agent.py) and of MCP      *)
(* servers (mcp/server.py) that call it over HTTP, and the pages that show *)
(* it (dashboard/app/page.tsx).                                            *)
(*                                                                         *)
(* The bridge is one event loop, and its locks are never held across a     *)
(* suspension: a call runs until it waits for a viewer to take a message.  *)
(* A call its client gave up on is handled all the same.  The bridge may   *)
(* restart: everything here is in its memory.                              *)
(***************************************************************************)
EXTENDS Budget, Sequences, FiniteSets, SequencesExt

CONSTANTS
  Clients,       \* AgentClient objects and MCP servers, in processes of their own
  AgentOf,       \* the agent of each
  Viewers,       \* connections to /ws/events, each used once
  MaxCalls       \* calls that the bridge has not finished

VARIABLES
  sessions,     \* the presence store: agents to session ids
  registry,     \* the registry: agents that were registered with what they can do
  subscribers,  \* the presence store's callbacks, one of each connection, in order
  calls,        \* requests at the bridge, the latest broadcast last
  client,       \* each AgentClient: its token, its loop, the call it waits for
  page          \* what each connection's page shows, and its outstanding list request

presenceVars == <<sessions, registry, subscribers, calls, client, page>>

\* Sessions begun, status changes, pages and lists opened, restarts.
Op == Spend("presence")

Agents == {AgentOf[c] : c \in Clients}
None == 0
NoList == <<FALSE>>

\* Waiting for a viewer, ready to go on, or not begun.
Sending(call) == call.at # "sent" /\ call.todo # <<>>
Ready(call) == call.at # "sent" /\ call.todo = <<>>
\* The event loop runs a call that need not wait before anything else.
Idle == \A i \in DOMAIN calls : ~Ready(calls[i])

\* A view of who is online, the store's own or a page's, with a session put in.
With(view, a, id) == [b \in DOMAIN view \cup {a} |-> IF b = a THEN id ELSE view[b]]
Without(view, a) == Restrict(view, DOMAIN view \ {a})

\* What a message does to the agents a page shows.
Shown(view, m) == IF m.id = None THEN Without(view, m.agent) ELSE With(view, m.agent, m.id)
------------------------------------------------------------------------------
(* AgentClient. *)

\* The client waits for no answer of these any more.
Unawaited(c) ==
  [i \in DOMAIN calls |-> IF calls[i].client = c THEN [calls[i] EXCEPT !.awaited = FALSE] ELSE calls[i]]

Ask(c, kind, id) ==
  /\ Len(calls) < MaxCalls
  /\ calls' = Append(IF kind = "status" THEN calls ELSE Unawaited(c),
                     [kind |-> kind, client |-> c, id |-> id, at |-> "sent",
                      todo |-> <<>>, msg |-> <<>>, awaited |-> kind # "status"])

\* A session is asked for: the token is the session's, once the bridge answers.
AskSession(c) ==
  /\ client[c].waits = "no"
  /\ client[c].token = None
  /\ Op
  /\ Ask(c, "start", left.presence)
  /\ client' = [client EXCEPT ![c].waits = "start"]
  /\ UNCHANGED <<sessions, registry, subscribers, page>>

GoOnline(c) == c \notin left.servers /\ AskSession(c)

\* _ensure_agent_session, with an MCP server's first tool call.
EnsureSession(c) == c \in left.servers /\ AskSession(c)

\* An MCP server that was not answered starts no loop.
StartsLoop(c, id) == c \in left.servers => id # AgentOf[c]

\* The five seconds of a call are over, or the bridge is not there: the agent's
\* own id serves as a token, a heartbeat is lost, a session ends anyway.
After(c, id) ==
  CASE client[c].waits = "start" -> [token |-> id, loop |-> StartsLoop(c, id), waits |-> "no"]
    [] client[c].waits = "beat" -> [client[c] EXCEPT !.waits = "no"]
    [] client[c].waits = "end" -> [token |-> None, loop |-> FALSE, waits |-> "no"]

GiveUp(c) ==
  /\ client[c].waits # "no"
  /\ client' = [client EXCEPT ![c] = After(c, AgentOf[c])]
  /\ calls' = Unawaited(c)
  /\ UNCHANGED <<sessions, registry, subscribers, page, left>>

\* A heartbeat is due, every ten seconds.
KeepAlive(c) ==
  /\ client[c].loop /\ client[c].waits = "no"
  /\ Ask(c, "beat", client[c].token)
  /\ client' = [client EXCEPT ![c].waits = "beat"]
  /\ UNCHANGED <<sessions, registry, subscribers, page, left>>

\* The two _heartbeat_loops, of an agent's client and of an MCP server.
Beat(c) == c \notin left.servers /\ KeepAlive(c)
ServerBeat(c) == c \in left.servers /\ KeepAlive(c)

\* A heartbeat that carries news, when there is a token.
Tell(c) ==
  /\ client[c].token # None
  /\ Op
  /\ Ask(c, "status", client[c].token)
  /\ UNCHANGED <<sessions, registry, subscribers, client, page>>

\* set_status, and the heartbeat that follows a publish, in a task of its own.
SetStatus(c) == c \notin left.servers /\ Tell(c)

\* _report_activity: with each tool call of an MCP server.
Report(c) == c \in left.servers /\ Tell(c)

\* The session ends: the loop is cancelled, with the heartbeat it waits for.
EndSession(c) ==
  /\ client[c].token # None /\ client[c].waits \in {"no", "beat"}
  /\ Ask(c, "end", client[c].token)
  /\ client' = [client EXCEPT ![c].loop = FALSE, ![c].waits = "end"]
  /\ UNCHANGED <<sessions, registry, subscribers, page, left>>

GoOffline(c) == c \notin left.servers /\ EndSession(c)

\* _shutdown_agent_session.
Shutdown(c) == c \in left.servers /\ EndSession(c)
------------------------------------------------------------------------------
(* The bridge. *)

\* _broadcast: over a copy of the subscribers, each awaited.
Broadcast(call, at, agent, id) ==
  [call EXCEPT !.at = at, !.todo = subscribers, !.msg = [agent |-> agent, id |-> id]]

\* Call number i goes on, as the last of those that broadcast.
GoesOn(i, call) == calls' = Append(RemoveAt(calls, i), call)

AgentOfCall(i) == AgentOf[calls[i].client]

\* PresenceStore.register: it replaces the session there was.
Register(i, at, id) ==
  LET a == AgentOfCall(i)
  IN /\ sessions' = With(sessions, a, id)
     /\ GoesOn(i, Broadcast(calls[i], at, a, id))

\* Mistake: a heartbeat of an agent that is not there is refused.
RefuseUnknown(i) ==
  LET a == AgentOfCall(i)
  IN /\ UNCHANGED sessions
     /\ GoesOn(i, IF a \in DOMAIN sessions THEN Broadcast(calls[i], "last", a, sessions[a])
                  ELSE [calls[i] EXCEPT !.at = "last"])

\* PresenceStore.heartbeat, or with no session of the agent _auto_recover_session.
Heartbeat(i) ==
  LET a == AgentOfCall(i)
  IN IF a \in DOMAIN sessions
     THEN UNCHANGED sessions /\ GoesOn(i, Broadcast(calls[i], "last", a, sessions[a]))
     ELSE Register(i, "recovered", calls[i].id)

\* PresenceStore.unregister: whichever session the agent has.
Unregister(i) ==
  LET a == AgentOfCall(i)
  IN /\ sessions' = Without(sessions, a)
     /\ GoesOn(i, IF a \in DOMAIN sessions THEN Broadcast(calls[i], "left", a, None)
                  ELSE [calls[i] EXCEPT !.at = "left"])

Handle(i) ==
  /\ Idle
  /\ calls[i].at = "sent"
  /\ CASE calls[i].kind = "start" -> Register(i, "joined", calls[i].id)
       [] calls[i].kind \in {"beat", "status"} -> Heartbeat(i)
       [] calls[i].kind = "end" -> Unregister(i)
  /\ UNCHANGED <<registry, subscribers, client, page, left>>

\* The answer: to a start, the id of the session.
Answer(i) ==
  /\ calls' = RemoveAt(calls, i)
  /\ client' = IF calls[i].awaited
                 THEN [client EXCEPT ![calls[i].client] = After(calls[i].client, calls[i].id)]
                 ELSE client

\* session_start, session_end and the heartbeat, when their messages are out.
Joined(i) ==
  /\ calls[i].at = "joined"
  /\ registry' = registry \cup {AgentOfCall(i)}
  /\ Answer(i)

Left(i) ==
  /\ calls[i].at = "left"
  /\ registry' = registry \ {AgentOfCall(i)}
  /\ Answer(i)

Beaten(i) == calls[i].at = "last" /\ UNCHANGED registry /\ Answer(i)

\* A session is recovered: then its heartbeat.  One that was ended meanwhile is
\* a KeyError: the call fails.
Recovered(i) ==
  /\ calls[i].at = "recovered"
  /\ IF AgentOfCall(i) \in DOMAIN sessions
       THEN /\ GoesOn(i, Broadcast(calls[i], "last", AgentOfCall(i), sessions[AgentOfCall(i)]))
            /\ UNCHANGED client
       ELSE Answer(i)
  /\ UNCHANGED registry

Continue(i) ==
  /\ Ready(calls[i])
  /\ Joined(i) \/ Left(i) \/ Beaten(i) \/ Recovered(i)
  /\ UNCHANGED <<sessions, subscribers, page, left>>

\* Mistake: a later broadcast may overtake an earlier one.
SomeTurn(i) == TRUE

\* A connection's messages are sent in the order of the broadcasts.
Turn(i) == \A k \in 1 .. i - 1 : Sending(calls[k]) => Head(calls[i].todo) \notin ToSet(calls[k].todo)

\* A message reaches a page, or fails: the callback swallows that.
Deliver(i) ==
  LET v == Head(calls[i].todo)
  IN /\ Idle /\ Sending(calls[i]) /\ Turn(i)
     /\ calls' = [calls EXCEPT ![i].todo = Tail(@)]
     /\ page' = IF page[v].on
                  THEN [page EXCEPT ![v].view = Shown(@, calls[i].msg), ![v].fresh = TRUE]
                  ELSE page
     /\ UNCHANGED <<sessions, registry, subscribers, client, left>>

\* events_ws: subscribe, then a snapshot of what the store has.
Connect(v) ==
  /\ Op
  /\ Idle
  /\ v \notin ToSet(subscribers)
  /\ subscribers' = Append(subscribers, v)
  /\ page' = [page EXCEPT ![v].on = TRUE, ![v].view = sessions, ![v].stale = FALSE]
  /\ UNCHANGED <<sessions, registry, calls, client>>

\* Nothing is ever received from it, so the bridge keeps its callback.
Close(v) ==
  /\ page[v].on
  /\ page' = [page EXCEPT ![v].on = FALSE, ![v].list = NoList]
  /\ UNCHANGED <<sessions, registry, subscribers, calls, client, left>>

\* agent_presence, which the page asks for when it loads and at a sync: read
\* now, and shown later, over what messages have said meanwhile.
List(v) ==
  /\ Op
  /\ Idle
  /\ page[v].on /\ page[v].list = NoList
  /\ page' = [page EXCEPT ![v].list = <<TRUE, sessions>>, ![v].fresh = FALSE]
  /\ UNCHANGED <<sessions, registry, subscribers, calls, client>>

ShowList(v) ==
  /\ page[v].list # NoList
  /\ page' = [page EXCEPT ![v].list = NoList, ![v].view = page[v].list[2],
                          ![v].stale = @ \/ page[v].fresh]
  /\ UNCHANGED <<sessions, registry, subscribers, calls, client, left>>

\* agent_discover, which workspaces and MCP servers ask for the agents that can do
\* something: those that are registered, whatever the presence store says.
Discovered == registry

Restart ==
  /\ Op
  /\ sessions' = <<>> /\ registry' = {} /\ subscribers' = <<>> /\ calls' = <<>>
  /\ client' = [c \in Clients |-> IF client[c].waits = "no" THEN client[c] ELSE After(c, AgentOf[c])]
  /\ page' = [v \in Viewers |-> [page[v] EXCEPT !.on = FALSE, !.list = NoList]]
------------------------------------------------------------------------------
PresenceInit ==
  /\ sessions = <<>> /\ registry = {} /\ subscribers = <<>> /\ calls = <<>>
  /\ client = [c \in Clients |-> [token |-> None, loop |-> FALSE, waits |-> "no"]]
  /\ page = [v \in Viewers |-> [on |-> FALSE, view |-> <<>>, list |-> NoList,
                                fresh |-> FALSE, stale |-> FALSE]]

PresenceNext ==
  \/ \E c \in left.clients : GoOnline(c) \/ EnsureSession(c) \/ GiveUp(c) \/ Beat(c) \/ ServerBeat(c)
                           \/ GoOffline(c) \/ Shutdown(c) \/ SetStatus(c) \/ Report(c)
  \/ \E i \in DOMAIN calls : Handle(i) \/ Continue(i) \/ Deliver(i)
  \/ \E v \in left.viewers : Connect(v) \/ Close(v) \/ List(v) \/ ShowList(v)
  \/ Restart

\* The bridge's event loop serves every request and every message, the oldest
\* first; the loop of an agent that is online sends its heartbeats.
First(i, waiting) == i \in waiting /\ \A k \in waiting : i <= k

PresenceFair ==
  /\ \A c \in Clients : WF_presenceVars(KeepAlive(c))
  /\ WF_presenceVars(\E i \in DOMAIN calls : First(i, {k \in DOMAIN calls : calls[k].at = "sent"}) /\ Handle(i))
  /\ WF_presenceVars(\E i \in DOMAIN calls : First(i, {k \in DOMAIN calls : Sending(calls[k])}) /\ Deliver(i))
  /\ WF_presenceVars(\E i \in DOMAIN calls : Continue(i))
------------------------------------------------------------------------------
(* Properties. *)

\* An agent's session by a view of who is online.
Session(view, a) == IF a \in DOMAIN view THEN view[a] ELSE None

\* The messages about an agent that are on their way to a page, and whether the
\* last of them says what the store has.
Coming(v, a) ==
  {i \in DOMAIN calls : calls[i].at # "sent" /\ v \in ToSet(calls[i].todo) /\ calls[i].msg.agent = a}
LastSays(v, a) ==
  \E i \in Coming(v, a) : calls[i].msg.id = Session(sessions, a) /\ \A k \in Coming(v, a) : k <= i

\* A page that is connected shows exactly who the store has, once it has the
\* messages on their way to it, in their order: from the snapshot on, until it
\* shows a list over messages that were newer.
PageCatchesUp ==
  \A v \in Viewers : page[v].on /\ ~page[v].stale =>
    \A a \in Agents :
      IF Coming(v, a) = {} THEN Session(page[v].view, a) = Session(sessions, a) ELSE LastSays(v, a)

\* An agent that can be discovered is online, whatever starts and ends of its
\* sessions overlap, but while the end that took its session away has yet to
\* tell the pages and then the registry.
DiscoveredIsOnline ==
  \A a \in Discovered :
    \/ a \in DOMAIN sessions
    \/ \E i \in DOMAIN calls : calls[i].at = "left" /\ AgentOfCall(i) = a

PresenceSound == PageCatchesUp /\ DiscoveredIsOnline

\* An agent whose client is online is in the presence store, or will be: after a
\* lost or late start, a restart of the bridge, another client's go_offline.
OnlineIsPresent ==
  \A c \in Clients : client[c].loop ~> (AgentOf[c] \in DOMAIN sessions \/ ~client[c].loop)
==============================================================================
