------------------------------- MODULE BridgeMC -------------------------------
(***************************************************************************)
(* Model checking Bridge: two clients of one agent, two pages, two task    *)
(* clients, one watched stream and its writers, a mix of them at a time.   *)
(***************************************************************************)
EXTENDS Bridge

CONSTANTS c1, c2, ag, m1, m2, v1, v2, j1, j2, j3, j4, e1, e2, s1

MCAgentOf == [c \in Clients |-> ag]
MCEngineOf == [j \in Jobs |-> IF j = j2 THEN e2 ELSE e1]

Nothing == [presence |-> 0, clients |-> {}, servers |-> {}, viewers |-> {}, board |-> 0, feed |-> 0, stores |-> 0, store |-> "none"]
Seen(clients, viewers, n) ==
  [Nothing EXCEPT !.presence = n, !.clients = clients, !.viewers = viewers]

MCChat == <<"ask", "answer", "ask", "thanks">>
Store(name, n) == [Nothing EXCEPT !.stores = n, !.store = name]

MCShares == {Seen({c1, c2}, {}, 4), Seen({c1, c2}, {v1}, 3), Seen({c1}, {v1, v2}, 3),
             [Seen({c1, c2}, {}, 3) EXCEPT !.servers = {c1, c2}],
             [Nothing EXCEPT !.board = 4], [Nothing EXCEPT !.feed = 1]}
  \cup {Store(name, 4) : name \in {"openai", "autogen", "crewai",
                                  "llama_chat", "llama_documents", "langgraph"}}
  \cup {Store("pydantic_ai", 3)}
MCBoard == {[Nothing EXCEPT !.board = 4]}
==============================================================================
