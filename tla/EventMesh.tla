------------------------------ MODULE EventMesh ------------------------------
(***************************************************************************)
(* The event mesh (runtime/event_bus.py) of one process, for one stream:   *)
(* subscriptions with a callback or with a queue, poll, watch, publish.    *)
(*                                                                         *)
(* Its lock is never held across a suspension and its queues are not       *)
(* bounded, so each method is one step up to the posts to the dashboard    *)
(* bridge: publish_event emits two topics, and each emit awaits a post.    *)
(* A callback that is a coroutine runs later, as a task of its own.  The   *)
(* list of subscriptions is a set of callbacks, which are subscribed once  *)
(* each, and a number of places per agent: its order only decides which    *)
(* callback hears first of an event, and each has a queue of its own.      *)
(* Topic subscriptions take part in nothing else and are left out.         *)
(***************************************************************************)
EXTENDS Integers, Sequences, FiniteSets, SequencesExt

CONSTANTS
  Agents,
  Watches,     \* generators that watch returns
  MaxEvents,   \* memories published
  MaxOps,      \* subscriptions, watches, their ends and patterns, all together
  Bridged      \* whether set_bridge_url was called

ASSUME BridgedAssumption == Bridged \in BOOLEAN

VARIABLES
  callbacks,   \* _stream_subs: pairs of an agent and the owner of a callback
  places,      \* and how often each agent is on the list without one
  queueOf,     \* _queues: agents to queue objects
  queues,      \* the content of every queue object ever made
  tasks,       \* callbacks that are scheduled, by owner and event
  published,   \* the events, in the order of publish_event
  posts,       \* calls of each agent's publish_event that wait for their posts
  watch,       \* each watch: its agent, its queue object, what it has yielded
  polled,      \* what poll has returned to each agent
  taken,       \* owners whose callback was taken off the list
  since,       \* when each agent that polls began to, by its first subscription
  ops

meshVars == <<callbacks, places, queueOf, queues, tasks, published, posts, watch, polled, taken,
              since, ops>>

Off == -1
NoWatch == [agent |-> <<>>, queue |-> 0, got |-> {}]

Subscribed(a) == places[a] > 0 \/ \E c \in callbacks : c[1] = a

NewQueueOf(a) ==
  [b \in DOMAIN queueOf \cup {a} |-> IF b = a THEN Len(queues) + 1 ELSE queueOf[b]]

\* Mistake: every subscription makes a queue.
WithNewQueue(a) ==
  /\ queues' = Append(queues, <<>>)
  /\ queueOf' = NewQueueOf(a)

\* The queue of an agent, made when it has none.
WithQueue(a) ==
  IF a \in DOMAIN queueOf THEN UNCHANGED <<queueOf, queues>>
  ELSE /\ queues' = Append(queues, <<>>)
       /\ queueOf' = NewQueueOf(a)

Op == ops < MaxOps /\ ops' = ops + 1
------------------------------------------------------------------------------
\* subscribe without a callback: the agent may be on the list already.
Subscribe(a) ==
  /\ Op
  /\ places' = [places EXCEPT ![a] = @ + 1]
  /\ WithQueue(a)
  /\ since' = [since EXCEPT ![a] = IF @ = Off THEN Len(published) ELSE @]
  /\ UNCHANGED <<callbacks, tasks, published, posts, watch, polled, taken>>

\* subscribe with a callback, once for each pair of an agent and an owner.
SubscribeCallbacks(pairs) ==
  /\ Op
  /\ callbacks' = callbacks \cup pairs
  /\ UNCHANGED <<places, queueOf, queues, tasks, published, posts, watch, polled, taken, since>>

\* Every subscription of the agents goes, and their queues, whoever made them.
Drop(A) ==
  LET gone == {c \in callbacks : c[1] \in A}
  IN /\ callbacks' = callbacks \ gone
     /\ places' = [a \in Agents |-> IF a \in A THEN 0 ELSE places[a]]
     /\ queueOf' = Restrict(queueOf, DOMAIN queueOf \ A)
     /\ taken' = taken \cup {c[2] : c \in gone}
     /\ since' = [a \in Agents |-> IF a \in A THEN Off ELSE since[a]]

Unsubscribe(a) ==
  /\ Op
  /\ Drop({a})
  /\ UNCHANGED <<queues, tasks, published, posts, watch, polled>>
------------------------------------------------------------------------------
\* publish_event, up to the first post.
\* An agent gets it as often as it is on the list, if it has a queue still.
PutInto(q, e) ==
  LET readers == {a \in DOMAIN queueOf : queueOf[a] = q}
      times == IF readers = {} THEN 0 ELSE places[CHOOSE a \in readers : TRUE]
  IN queues[q] \o [i \in 1 .. times |-> e]

Publish(a, yes) ==
  LET e == Len(published) + 1
  IN /\ e <= MaxEvents
     /\ published' = Append(published, [by |-> a, yes |-> yes])
     /\ queues' = [q \in DOMAIN queues |-> PutInto(q, e)]
     /\ tasks' = tasks \cup {<<c[2], e>> : c \in callbacks}
     /\ posts' = [posts EXCEPT ![a] = @ + IF Bridged THEN 1 ELSE 0]
     /\ UNCHANGED <<callbacks, places, queueOf, watch, polled, taken, since, ops>>

\* The posts of publish_event's two emits end, each after two seconds at most.
Posted(a) ==
  /\ posts[a] > 0
  /\ posts' = [posts EXCEPT ![a] = @ - 1]
  /\ UNCHANGED <<callbacks, places, queueOf, queues, tasks, published, watch, polled, taken, since, ops>>
------------------------------------------------------------------------------
Poll(a) ==
  /\ a \in DOMAIN queueOf
  /\ queues[queueOf[a]] # <<>>
  /\ polled' = [polled EXCEPT ![a] = @ \cup ToSet(queues[queueOf[a]])]
  /\ queues' = [queues EXCEPT ![queueOf[a]] = <<>>]
  /\ UNCHANGED <<callbacks, places, queueOf, tasks, published, posts, watch, taken, since, ops>>

\* watch: with no queue the agent gets one, and is put on the list unless it
\* is there already, with a callback perhaps.
StartWatch(w, a) ==
  /\ Op
  /\ watch[w] = NoWatch
  /\ WithQueue(a)
  /\ places' = IF a \notin DOMAIN queueOf /\ ~Subscribed(a) THEN [places EXCEPT ![a] = 1] ELSE places
  /\ watch' = [watch EXCEPT ![w] = [agent |-> a, queue |-> queueOf'[a], got |-> {}]]
  /\ UNCHANGED <<callbacks, tasks, published, posts, polled, taken, since>>

\* It keeps the queue object it started with.
WatchNext(w) ==
  /\ watch[w] # NoWatch
  /\ queues[watch[w].queue] # <<>>
  /\ watch' = [watch EXCEPT ![w].got = @ \cup {Head(queues[watch[w].queue])}]
  /\ queues' = [queues EXCEPT ![watch[w].queue] = Tail(@)]
  /\ UNCHANGED <<callbacks, places, queueOf, tasks, published, posts, polled, taken, since, ops>>

\* The generator is closed: its finally clause.
EndWatch(w) ==
  /\ Op
  /\ watch[w] # NoWatch
  /\ Drop({watch[w].agent})
  /\ watch' = [watch EXCEPT ![w] = NoWatch]
  /\ UNCHANGED <<queues, tasks, published, posts, polled>>
------------------------------------------------------------------------------
MeshInit ==
  /\ callbacks = {} /\ queueOf = <<>> /\ queues = <<>> /\ tasks = {}
  /\ places = [a \in Agents |-> 0]
  /\ published = <<>>
  /\ posts = [a \in Agents |-> 0]
  /\ watch = [w \in Watches |-> NoWatch]
  /\ polled = [a \in Agents |-> {}]
  /\ since = [a \in Agents |-> Off]
  /\ taken = {}
  /\ ops = 0

\* What needs no one's callback.
MeshStep ==
  \E a \in Agents :
    \/ Subscribe(a) \/ Posted(a) \/ Poll(a)
    \/ \E w \in Watches : StartWatch(w, a) \/ (watch[w].agent = a /\ (WatchNext(w) \/ EndWatch(w)))
------------------------------------------------------------------------------
(* Properties. *)

Ascending(s) == \A i, j \in DOMAIN s : i < j => s[i] <= s[j]
YieldedTo(a) == UNION {watch[w].got : w \in {v \in Watches : watch[v].agent = a}}

\* An agent that polls gets every event published since it subscribed, in
\* order, from poll or from its own watches, which share its queue: until it
\* unsubscribes or one of its watches ends.
PollLosesNothing ==
  \A a \in Agents : since[a] # Off =>
    /\ a \in DOMAIN queueOf
    /\ Ascending(queues[queueOf[a]])
    /\ \A e \in since[a] + 1 .. Len(published) :
         e \in polled[a] \cup ToSet(queues[queueOf[a]]) \cup YieldedTo(a)
==============================================================================
