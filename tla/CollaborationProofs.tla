-------------------------- MODULE CollaborationProofs --------------------------
(***************************************************************************)
(* Proofs about the event mesh and the patterns over it, for any agents,   *)
(* watches and jobs, pipelines of any length, and any number of events.    *)
(***************************************************************************)
EXTENDS Collaboration, FiniteSetTheorems, SequenceTheorems, TLAPS

(***************************************************************************)
(* Queues of event numbers                                                 *)
(***************************************************************************)

\* Taking the first one.
LEMMA TailOf ==
  ASSUME NEW s \in Seq(Nat), s # <<>>
  PROVE  /\ Tail(s) \in Seq(Nat) /\ Head(s) \in Nat /\ Len(s) \in Nat /\ Len(s) > 0
         /\ ToSet(s) = {Head(s)} \cup ToSet(Tail(s))
         /\ Ascending(s) => Ascending(Tail(s))
         /\ Increasing(s) => Increasing(Tail(s)) /\ \A e \in ToSet(Tail(s)) : Head(s) < e
<1>1. Tail(s) \in Seq(Nat) /\ Len(Tail(s)) = Len(s) - 1 /\ Head(s) \in Nat
  BY HeadTailProperties
<1> DEFINE t == Tail(s)
<1>2. \A i \in 1 .. Len(t) : t[i] = s[i + 1]
  BY HeadTailProperties
<1>3. Len(s) \in Nat /\ DOMAIN s = 1 .. Len(s) /\ DOMAIN t = 1 .. Len(t) /\ Len(t) \in Nat
  BY <1>1, LenProperties
<1>4. Len(s) > 0
  BY <1>3, EmptySeq
<1>5. Head(s) = s[1]
  BY DEF Head
<1>6. t \in Seq(Nat) /\ Len(t) = Len(s) - 1
  BY <1>1
<1> HIDE DEF t
<1>7. \A i \in DOMAIN t : i + 1 \in DOMAIN s /\ t[i] = s[i + 1]
  BY <1>2, <1>3, <1>4, <1>6
<1>8. \A i \in DOMAIN s : i = 1 \/ (i - 1 \in DOMAIN t /\ t[i - 1] = s[i])
  <2> SUFFICES ASSUME NEW i \in DOMAIN s, i # 1 PROVE i - 1 \in DOMAIN t /\ t[i - 1] = s[i]
    OBVIOUS
  <2>1. i \in 1 .. Len(s) /\ i - 1 \in 1 .. Len(t)
    BY <1>3, <1>6
  <2>2. t[i - 1] = s[(i - 1) + 1]
    BY <1>2, <2>1 DEF t
  <2>3. (i - 1) + 1 = i
    BY <2>1
  <2>4. QED
    BY <1>3, <2>1, <2>2, <2>3
<1>9. ToSet(s) = {Head(s)} \cup ToSet(t)
  <2>1. 1 \in DOMAIN s
    BY <1>3, <1>4
  <2>2. QED
    BY <1>5, <1>7, <1>8, <2>1 DEF ToSet
<1>10. DOMAIN s \subseteq Int /\ DOMAIN t \subseteq Nat /\ \A i \in DOMAIN t : i + 1 > 1
  BY <1>3
<1>11. Ascending(s) => Ascending(t)
  BY <1>7, <1>10 DEF Ascending
<1>12. Increasing(s) => Increasing(t)
  BY <1>7, <1>10 DEF Increasing
<1>13. Increasing(s) => \A e \in ToSet(t) : Head(s) < e
  <2>1. 1 \in DOMAIN s
    BY <1>3, <1>4
  <2>2. QED
    BY <1>5, <1>7, <1>10, <2>1 DEF Increasing, ToSet
<1>14. QED
  BY <1>1, <1>3, <1>4, <1>9, <1>11, <1>12, <1>13 DEF t

\* Adding one that is newer than all.
LEMMA AppendOf ==
  ASSUME NEW s \in Seq(Nat), NEW e \in Nat
  PROVE  /\ Append(s, e) \in Seq(Nat) /\ Len(Append(s, e)) = Len(s) + 1 /\ Len(s) \in Nat
         /\ DOMAIN Append(s, e) = 1 .. Len(s) + 1 /\ DOMAIN s = 1 .. Len(s)
         /\ \A i \in 1 .. Len(s) : Append(s, e)[i] = s[i]
         /\ Append(s, e)[Len(s) + 1] = e
         /\ ToSet(Append(s, e)) = ToSet(s) \cup {e}
         /\ Increasing(s) /\ (\A x \in ToSet(s) : x < e) => Increasing(Append(s, e))
<1> DEFINE t == Append(s, e)
<1>1. /\ t \in Seq(Nat) /\ Len(t) = Len(s) + 1 /\ t[Len(s) + 1] = e
      /\ \A i \in 1 .. Len(s) : t[i] = s[i]
  BY AppendProperties
<1>2. Len(s) \in Nat /\ DOMAIN s = 1 .. Len(s) /\ DOMAIN t = 1 .. Len(s) + 1
  BY <1>1, LenProperties
<1>3. \A i \in DOMAIN s : s[i] \in Nat
  BY <1>2, ElementOfSeq
<1> HIDE DEF t
<1>4. \A i \in DOMAIN t : i \in DOMAIN s \/ i = Len(s) + 1
  BY <1>2
<1>5. DOMAIN s \subseteq DOMAIN t /\ Len(s) + 1 \in DOMAIN t /\ \A i \in DOMAIN s : i < Len(s) + 1
  BY <1>2
<1>6. ToSet(t) = ToSet(s) \cup {e}
  BY <1>1, <1>2, <1>4, <1>5 DEF ToSet
<1>7. ASSUME Increasing(s), \A x \in ToSet(s) : x < e PROVE Increasing(t)
  <2>1. \A i \in DOMAIN s : s[i] < e
    BY <1>7 DEF ToSet
  <2> SUFFICES ASSUME NEW i \in DOMAIN t, NEW k \in DOMAIN t, i < k PROVE t[i] < t[k]
    BY DEF Increasing
  <2>2. i \in DOMAIN s
    BY <1>2
  <2>3. CASE k \in DOMAIN s
    BY <1>1, <1>2, <1>7, <2>2, <2>3 DEF Increasing
  <2>4. CASE k = Len(s) + 1
    BY <1>1, <1>2, <2>1, <2>2, <2>4
  <2>5. QED
    BY <1>4, <2>3, <2>4
<1>8. QED
  BY <1>1, <1>2, <1>6, <1>7 DEF t

(***************************************************************************)
(* The mesh: what an agent that polls has, or will have                    *)
(***************************************************************************)

Event == [by : Agents, yes : BOOLEAN]
Watching == [agent : Agents, queue : Nat, got : SUBSET Nat]

MeshTypes ==
  /\ places \in [Agents -> Nat]
  /\ queues \in Seq(Seq(Nat))
  /\ queueOf \in [DOMAIN queueOf -> DOMAIN queues] /\ DOMAIN queueOf \subseteq Agents
  /\ published \in Seq(Event)
  /\ watch \in [Watches -> Watching \cup {NoWatch}]
  /\ polled \in [Agents -> SUBSET Nat]
  /\ since \in [Agents -> Nat \cup {Off}]

\* No two agents share a queue, nor has a watch the queue of another agent.
QueuesApart ==
  /\ \A a, b \in DOMAIN queueOf : queueOf[a] = queueOf[b] => a = b
  /\ \A w \in Watches : watch[w] # NoWatch =>
       /\ watch[w].queue \in DOMAIN queues
       /\ \A a \in DOMAIN queueOf : queueOf[a] = watch[w].queue => a = watch[w].agent

\* A queue holds published events in order.
QueuesSound ==
  \A q \in DOMAIN queues :
    /\ Ascending(queues[q])
    /\ \A i \in DOMAIN queues[q] : queues[q][i] <= Len(published)

Has(a, e) == e \in polled[a] \cup ToSet(queues[queueOf[a]]) \cup YieldedTo(a)

\* One that polls is on the list and has a queue, and what has been published
\* since is in it, or was returned to its agent.
PollsSound ==
  \A a \in Agents : since[a] # Off =>
    /\ since[a] <= Len(published)
    /\ a \in DOMAIN queueOf /\ places[a] > 0
    /\ \A e \in since[a] + 1 .. Len(published) : Has(a, e)

MeshInv == MeshTypes /\ QueuesApart /\ QueuesSound /\ PollsSound

LEMMA QueuesAre ==
  ASSUME MeshTypes
  PROVE  /\ DOMAIN queues = 1 .. Len(queues) /\ Len(queues) \in Nat
         /\ \A q \in DOMAIN queues : /\ queues[q] \in Seq(Nat)
                                     /\ Len(queues[q]) \in Nat
                                     /\ DOMAIN queues[q] = 1 .. Len(queues[q])
                                     /\ \A i \in DOMAIN queues[q] : queues[q][i] \in Nat
         /\ Len(published) \in Nat
<1>1. queues \in Seq(Seq(Nat)) /\ published \in Seq(Event)
  BY DEF MeshTypes
<1>2. DOMAIN queues = 1 .. Len(queues) /\ Len(queues) \in Nat /\ Len(published) \in Nat
  BY <1>1, LenProperties
<1>3. ASSUME NEW q \in DOMAIN queues
      PROVE  /\ queues[q] \in Seq(Nat) /\ Len(queues[q]) \in Nat
             /\ DOMAIN queues[q] = 1 .. Len(queues[q])
             /\ \A i \in DOMAIN queues[q] : queues[q][i] \in Nat
  <2>1. queues[q] \in Seq(Nat)
    BY <1>1, <1>2, ElementOfSeq
  <2>2. QED
    BY <2>1, LenProperties, ElementOfSeq
<1>4. QED
  BY <1>2, <1>3

\* An agent without a queue gets a new one, and nothing else changes.
LEMMA QueueMade ==
  ASSUME MeshTypes, NEW a \in Agents, WithQueue(a)
  PROVE  /\ queues' \in Seq(Seq(Nat))
         /\ DOMAIN queues \subseteq DOMAIN queues'
         /\ \A q \in DOMAIN queues' : queues'[q] = IF q \in DOMAIN queues THEN queues[q] ELSE <<>>
         /\ DOMAIN queueOf' = DOMAIN queueOf \cup {a}
         /\ queueOf' \in [DOMAIN queueOf' -> DOMAIN queues']
         /\ \A b \in DOMAIN queueOf' : queueOf'[b] = IF b \in DOMAIN queueOf THEN queueOf[b]
                                                   ELSE Len(queues) + 1
<1>1. CASE a \in DOMAIN queueOf
  BY <1>1, QueuesAre DEF WithQueue, MeshTypes
<1>2. CASE a \notin DOMAIN queueOf
  <2>1. queues' = Append(queues, <<>>) /\ queueOf' = NewQueueOf(a)
    BY <1>2 DEF WithQueue
  <2>2. queues \in Seq(Seq(Nat)) /\ <<>> \in Seq(Nat)
    BY EmptySeq DEF MeshTypes
  <2>3. /\ queues' \in Seq(Seq(Nat)) /\ Len(queues') = Len(queues) + 1
        /\ \A q \in 1 .. Len(queues) : queues'[q] = queues[q]
        /\ queues'[Len(queues) + 1] = <<>>
    BY <2>1, <2>2, AppendProperties
  <2>4. DOMAIN queues' = 1 .. Len(queues) + 1 /\ DOMAIN queues = 1 .. Len(queues) /\ Len(queues) \in Nat
    BY <2>2, <2>3, LenProperties
  <2>5. queueOf' = [b \in DOMAIN queueOf \cup {a} |-> IF b = a THEN Len(queues) + 1 ELSE queueOf[b]]
    BY <1>2, <2>1 DEF NewQueueOf
  <2>6. queueOf \in [DOMAIN queueOf -> DOMAIN queues]
    BY DEF MeshTypes
  <2>7. DOMAIN queueOf' = DOMAIN queueOf \cup {a}
    BY <2>5
  <2>8. \A b \in DOMAIN queueOf' : queueOf'[b] = IF b \in DOMAIN queueOf THEN queueOf[b] ELSE Len(queues) + 1
    BY <1>2, <2>5
  <2>9. queueOf' \in [DOMAIN queueOf' -> DOMAIN queues']
    BY <2>4, <2>5, <2>6, <2>7
  <2>10. QED
    BY <2>3, <2>4, <2>7, <2>8, <2>9
<1>3. QED
  BY <1>1, <1>2

\* What an agent has it keeps, as long as nothing is taken out of its queue
\* that it is not given.
LEMMA PollsKeep ==
  ASSUME MeshTypes, PollsSound, UNCHANGED <<published, polled, watch>>,
         places' \in [Agents -> Nat], since' \in [Agents -> Nat \cup {Off}],
         \A a \in Agents : since'[a] # Off =>
           /\ a \in DOMAIN queueOf' /\ places'[a] > 0
           /\ since'[a] = since[a] \/ since'[a] = Len(published)
           /\ since[a] # Off => queues'[queueOf'[a]] = queues[queueOf[a]]
  PROVE  PollsSound'
<1> SUFFICES ASSUME NEW a \in Agents, since'[a] # Off
             PROVE  /\ since'[a] <= Len(published)
                    /\ a \in DOMAIN queueOf' /\ places'[a] > 0
                    /\ \A e \in since'[a] + 1 .. Len(published) : Has(a, e)'
  BY DEF PollsSound
<1>1. Len(published) \in Nat
  BY QueuesAre
<1>2. CASE since[a] # Off /\ since'[a] = since[a]
  <2>1. \A e : Has(a, e)' <=> Has(a, e)
    BY <1>2 DEF Has, YieldedTo
  <2>2. QED
    BY <1>2, <2>1 DEF PollsSound
<1>3. CASE since'[a] = Len(published)
  BY <1>1, <1>3
<1>4. QED
  BY <1>2, <1>3

\* What a new queue leaves as it was: the parts of the invariant but the last.
LEMMA QueueMadeKeeps ==
  ASSUME MeshInv, NEW a \in Agents, WithQueue(a), UNCHANGED <<published, polled>>,
         places' \in [Agents -> Nat], since' \in [Agents -> Nat \cup {Off}],
         watch' \in [Watches -> Watching \cup {NoWatch}],
         \A w \in Watches : \/ watch'[w] = watch[w]
                            \/ watch'[w].agent = a /\ watch'[w].queue = queueOf'[a]
  PROVE  MeshTypes' /\ QueuesApart' /\ QueuesSound'
<1> USE DEF MeshInv
<1>1. /\ queues' \in Seq(Seq(Nat))
      /\ DOMAIN queues \subseteq DOMAIN queues'
      /\ \A q \in DOMAIN queues' : queues'[q] = IF q \in DOMAIN queues THEN queues[q] ELSE <<>>
      /\ DOMAIN queueOf' = DOMAIN queueOf \cup {a}
      /\ queueOf' \in [DOMAIN queueOf' -> DOMAIN queues']
      /\ \A b \in DOMAIN queueOf' : queueOf'[b] = IF b \in DOMAIN queueOf THEN queueOf[b]
                                                ELSE Len(queues) + 1
  BY QueueMade
<1>2. MeshTypes'
  BY <1>1 DEF MeshTypes
<1>3. QueuesApart'
  <2>1. DOMAIN queues = 1 .. Len(queues) /\ Len(queues) \in Nat
    BY QueuesAre
  <2>2. \A b \in DOMAIN queueOf : queueOf[b] \in 1 .. Len(queues)
    BY <2>1 DEF MeshTypes
  <2>3. \A b, c \in DOMAIN queueOf' : queueOf'[b] = queueOf'[c] => b = c
    BY <1>1, <2>1, <2>2 DEF QueuesApart
  <2>4. ASSUME NEW w \in Watches, watch'[w] # NoWatch
        PROVE  /\ watch'[w].queue \in DOMAIN queues'
               /\ \A b \in DOMAIN queueOf' : queueOf'[b] = watch'[w].queue => b = watch'[w].agent
    <3>1. CASE watch'[w] = watch[w]
      BY <1>1, <2>1, <2>2, <2>4, <3>1 DEF QueuesApart
    <3>2. CASE watch'[w].agent = a /\ watch'[w].queue = queueOf'[a]
      BY <1>1, <2>3, <3>2
    <3>3. QED
      BY <3>1, <3>2
  <2>5. QED
    BY <2>3, <2>4 DEF QueuesApart
<1>4. QueuesSound'
  BY <1>1 DEF QueuesSound, Ascending
<1>5. QED
  BY <1>2, <1>3, <1>4

LEMMA SubscribeKeeps ==
  ASSUME MeshInv, NEW a \in Agents, Subscribe(a)
  PROVE  MeshInv'
<1> USE DEF MeshInv
<1>1. /\ WithQueue(a) /\ UNCHANGED <<published, polled, watch>>
      /\ places' = [places EXCEPT ![a] = @ + 1]
      /\ since' = [since EXCEPT ![a] = IF @ = Off THEN Len(published) ELSE @]
  BY DEF Subscribe
<1>2. /\ places' \in [Agents -> Nat] /\ \A b \in Agents : places'[b] >= places[b]
      /\ places'[a] > 0
  BY <1>1 DEF MeshTypes
<1>3. /\ since' \in [Agents -> Nat \cup {Off}]
      /\ \A b \in Agents : since'[b] # since[b] => b = a /\ since'[b] = Len(published)
  BY <1>1, QueuesAre DEF MeshTypes
<1>4. MeshTypes' /\ QueuesApart' /\ QueuesSound'
  BY <1>1, <1>2, <1>3, QueueMadeKeeps DEF MeshTypes
<1>5. ASSUME NEW b \in Agents, since'[b] # Off
      PROVE  /\ b \in DOMAIN queueOf' /\ places'[b] > 0
             /\ since'[b] = since[b] \/ since'[b] = Len(published)
             /\ since[b] # Off => queues'[queueOf'[b]] = queues[queueOf[b]]
  <2>1. since[b] # Off => b \in DOMAIN queueOf /\ places[b] > 0
    BY DEF PollsSound
  <2>2. b \in DOMAIN queueOf => queueOf'[b] = queueOf[b] /\ queues'[queueOf'[b]] = queues[queueOf[b]]
    BY <1>1, QueueMade DEF MeshTypes
  <2>3. a \in DOMAIN queueOf' /\ DOMAIN queueOf \subseteq DOMAIN queueOf'
    BY <1>1, QueueMade
  <2>4. QED
    BY <1>2, <1>3, <1>5, <2>1, <2>2, <2>3 DEF MeshTypes
<1>6. QED
  BY <1>1, <1>2, <1>3, <1>4, <1>5, PollsKeep

LEMMA StartWatchKeeps ==
  ASSUME MeshInv, NEW a \in Agents, NEW v \in Watches, StartWatch(v, a)
  PROVE  MeshInv'
<1> USE DEF MeshInv
<1>1. /\ WithQueue(a) /\ UNCHANGED <<published, polled, since>>
      /\ watch[v] = NoWatch
      /\ watch' = [watch EXCEPT ![v] = [agent |-> a, queue |-> queueOf'[a], got |-> {}]]
      /\ places' = places \/ places' = [places EXCEPT ![a] = 1]
  BY DEF StartWatch
<1>2. /\ places' \in [Agents -> Nat]
      /\ \A b \in Agents : places[b] > 0 => places'[b] > 0
  <2>1. places \in [Agents -> Nat]
    BY DEF MeshTypes
  <2>2. CASE places' = places
    BY <2>1, <2>2
  <2>3. CASE places' = [places EXCEPT ![a] = 1]
    BY <2>1, <2>3
  <2>4. QED
    BY <1>1, <2>2, <2>3
<1>3. /\ queueOf'[a] \in Nat
      /\ \A b \in DOMAIN queueOf : /\ b \in DOMAIN queueOf'
                                   /\ queues'[queueOf'[b]] = queues[queueOf[b]]
  <2>1. /\ DOMAIN queues \subseteq DOMAIN queues'
        /\ \A q \in DOMAIN queues' : queues'[q] = IF q \in DOMAIN queues THEN queues[q] ELSE <<>>
        /\ DOMAIN queueOf' = DOMAIN queueOf \cup {a}
        /\ \A b \in DOMAIN queueOf' : queueOf'[b] = IF b \in DOMAIN queueOf THEN queueOf[b]
                                                  ELSE Len(queues) + 1
    BY <1>1, QueueMade
  <2>2. /\ \A b \in DOMAIN queueOf : queueOf[b] \in DOMAIN queues
        /\ DOMAIN queues = 1 .. Len(queues) /\ Len(queues) \in Nat
    BY QueuesAre DEF MeshTypes
  <2>3. QED
    BY <2>1, <2>2
<1>4. /\ watch' \in [Watches -> Watching \cup {NoWatch}]
      /\ \A w \in Watches : \/ watch'[w] = watch[w]
                            \/ watch'[w].agent = a /\ watch'[w].queue = queueOf'[a]
  BY <1>1, <1>3 DEF MeshTypes, Watching
<1>5. MeshTypes' /\ QueuesApart' /\ QueuesSound'
  BY <1>1, <1>2, <1>4, QueueMadeKeeps DEF MeshTypes
<1>6. PollsSound'
  <2>1. \A b \in Agents : \A e : e \in YieldedTo(b) => e \in YieldedTo(b)'
    BY <1>1 DEF YieldedTo, NoWatch, MeshTypes
  <2>2. \A b \in DOMAIN queueOf : \A e : Has(b, e) /\ b \in Agents => Has(b, e)'
    BY <1>1, <1>3, <2>1 DEF Has
  <2>3. QED
    BY <1>1, <1>2, <1>3, <2>2 DEF PollsSound
<1>7. QED
  BY <1>5, <1>6

\* A subscription that is dropped takes the queue with it.
LEMMA DropKeeps ==
  ASSUME MeshInv, NEW A \in SUBSET Agents, Drop(A), UNCHANGED <<queues, published, polled>>,
         \/ watch' = watch
         \/ \E w \in Watches : watch[w].agent \in A /\ watch' = [watch EXCEPT ![w] = NoWatch]
  PROVE  MeshInv'
<1> USE DEF MeshInv
<1>1. /\ places' = [a \in Agents |-> IF a \in A THEN 0 ELSE places[a]]
      /\ queueOf' = [a \in DOMAIN queueOf \ A |-> queueOf[a]]
      /\ since' = [a \in Agents |-> IF a \in A THEN Off ELSE since[a]]
  BY DEF Drop, Restrict
<1>2. /\ watch' \in [Watches -> Watching \cup {NoWatch}]
      /\ \A w \in Watches : watch'[w] # NoWatch => watch'[w] = watch[w]
      /\ \A w \in Watches : watch[w].agent \notin A => watch'[w] = watch[w]
  BY DEF MeshTypes
<1>3. MeshTypes'
  <2>1. places' \in [Agents -> Nat] /\ since' \in [Agents -> Nat \cup {Off}]
    BY <1>1 DEF MeshTypes
  <2>2. queueOf' \in [DOMAIN queueOf' -> DOMAIN queues'] /\ DOMAIN queueOf' \subseteq Agents
    BY <1>1 DEF MeshTypes
  <2>3. QED
    BY <1>2, <2>1, <2>2 DEF MeshTypes
<1>4. QueuesApart'
  BY <1>1, <1>2 DEF QueuesApart
<1>5. QueuesSound'
  BY DEF QueuesSound, Ascending
<1>6. PollsSound'
  <2> SUFFICES ASSUME NEW a \in Agents, since'[a] # Off
               PROVE  /\ since'[a] <= Len(published)
                      /\ a \in DOMAIN queueOf' /\ places'[a] > 0
                      /\ \A e \in since'[a] + 1 .. Len(published) : Has(a, e)'
    BY DEF PollsSound
  <2>1. a \notin A /\ since'[a] = since[a] /\ places'[a] = places[a] /\ since[a] # Off
    BY <1>1 DEF MeshTypes
  <2>2. a \in DOMAIN queueOf /\ a \in DOMAIN queueOf' /\ queueOf'[a] = queueOf[a]
    BY <1>1, <2>1 DEF PollsSound
  <2>3. \A e : e \in YieldedTo(a) => e \in YieldedTo(a)'
    BY <1>2, <2>1 DEF YieldedTo
  <2>4. \A e : Has(a, e) => Has(a, e)'
    BY <2>2, <2>3 DEF Has
  <2>5. QED
    BY <2>1, <2>2, <2>4 DEF PollsSound
<1>7. QED
  BY <1>3, <1>4, <1>5, <1>6

LEMMA PollKeeps ==
  ASSUME MeshInv, NEW a \in Agents, Poll(a)
  PROVE  MeshInv'
<1> USE DEF MeshInv
<1>1. /\ a \in DOMAIN queueOf
      /\ polled' = [polled EXCEPT ![a] = @ \cup ToSet(queues[queueOf[a]])]
      /\ queues' = [queues EXCEPT ![queueOf[a]] = <<>>]
      /\ UNCHANGED <<places, queueOf, published, watch, since>>
  BY DEF Poll
<1>2. /\ queues \in Seq(Seq(Nat)) /\ <<>> \in Seq(Nat)
      /\ queueOf[a] \in DOMAIN queues /\ DOMAIN queues = 1 .. Len(queues)
  BY <1>1, EmptySeq, QueuesAre DEF MeshTypes
<1>3. queues' \in Seq(Seq(Nat)) /\ Len(queues') = Len(queues)
  BY <1>1, <1>2, ExceptSeq
<1>4. /\ DOMAIN queues' = DOMAIN queues
      /\ \A q \in DOMAIN queues : queues'[q] = IF q = queueOf[a] THEN <<>> ELSE queues[q]
  BY <1>1, <1>2, <1>3
<1>5. ToSet(queues[queueOf[a]]) \subseteq Nat
  BY <1>2, QueuesAre DEF ToSet
<1>6. MeshTypes'
  <2>1. polled' \in [Agents -> SUBSET Nat]
    BY <1>1, <1>5 DEF MeshTypes
  <2>2. QED
    BY <1>1, <1>3, <1>4, <2>1 DEF MeshTypes
<1>7. QueuesApart' /\ QueuesSound'
  BY <1>1, <1>4 DEF QueuesApart, QueuesSound, Ascending
<1>8. PollsSound'
  <2>1. ASSUME NEW b \in Agents, b \in DOMAIN queueOf, NEW e, Has(b, e) PROVE Has(b, e)'
    <3>1. YieldedTo(b)' = YieldedTo(b) /\ polled[b] \subseteq polled'[b]
      BY <1>1 DEF YieldedTo, MeshTypes
    <3>2. CASE e \in ToSet(queues[queueOf[b]])
      <4>1. CASE b = a
        BY <1>1, <3>2, <4>1 DEF Has, MeshTypes
      <4>2. CASE b # a
        <5>1. queueOf[b] # queueOf[a] /\ queueOf[b] \in DOMAIN queues
          BY <1>1, <2>1, <4>2 DEF QueuesApart, MeshTypes
        <5>2. QED
          BY <1>1, <1>4, <3>2, <5>1 DEF Has
      <4>3. QED
        BY <4>1, <4>2
    <3>3. QED
      BY <2>1, <3>1, <3>2 DEF Has
  <2>2. QED
    BY <1>1, <2>1 DEF PollsSound
<1>9. QED
  BY <1>6, <1>7, <1>8

LEMMA WatchNextKeeps ==
  ASSUME MeshInv, NEW v \in Watches, WatchNext(v)
  PROVE  MeshInv'
<1> USE DEF MeshInv
<1> DEFINE r == watch[v].queue
           s == queues[r]
<1>1. /\ watch[v] # NoWatch /\ s # <<>>
      /\ watch' = [watch EXCEPT ![v].got = @ \cup {Head(s)}]
      /\ queues' = [queues EXCEPT ![r] = Tail(s)]
      /\ UNCHANGED <<places, queueOf, published, polled, since>>
  BY DEF WatchNext
<1>2. /\ r \in DOMAIN queues /\ queues \in Seq(Seq(Nat)) /\ s \in Seq(Nat)
      /\ DOMAIN queues = 1 .. Len(queues)
  BY <1>1, QueuesAre DEF QueuesApart, MeshTypes
<1>3. /\ Tail(s) \in Seq(Nat) /\ Head(s) \in Nat
      /\ ToSet(s) = {Head(s)} \cup ToSet(Tail(s))
      /\ Ascending(s) => Ascending(Tail(s))
  BY <1>1, <1>2, TailOf
<1>4. queues' \in Seq(Seq(Nat)) /\ Len(queues') = Len(queues)
  BY <1>1, <1>2, <1>3, ExceptSeq
<1>5. /\ DOMAIN queues' = DOMAIN queues
      /\ \A q \in DOMAIN queues : queues'[q] = IF q = r THEN Tail(s) ELSE queues[q]
  BY <1>1, <1>2, <1>4
<1>6. /\ watch[v] \in Watching
      /\ watch'[v] = [watch[v] EXCEPT !.got = @ \cup {Head(s)}]
      /\ \A w \in Watches \ {v} : watch'[w] = watch[w]
  BY <1>1 DEF MeshTypes
<1>7. /\ watch'[v].agent = watch[v].agent /\ watch'[v].queue = watch[v].queue
      /\ watch'[v].got = watch[v].got \cup {Head(s)} /\ watch'[v] \in Watching
  BY <1>3, <1>6 DEF Watching
<1>8. MeshTypes'
  <2>1. watch' \in [Watches -> Watching \cup {NoWatch}]
    BY <1>1, <1>6, <1>7 DEF MeshTypes
  <2>2. QED
    BY <1>1, <1>4, <1>5, <2>1 DEF MeshTypes
<1>9. QueuesApart'
  BY <1>1, <1>5, <1>6, <1>7 DEF QueuesApart
<1>10. QueuesSound'
  <2>1. Ascending(s) /\ \A e \in ToSet(s) : e <= Len(published)
    BY <1>2 DEF QueuesSound, ToSet
  <2>2. Ascending(Tail(s)) /\ \A i \in DOMAIN Tail(s) : Tail(s)[i] <= Len(published)
    <3>1. \A e \in ToSet(Tail(s)) : e <= Len(published)
      BY <1>3, <2>1
    <3>2. QED
      BY <1>3, <2>1, <3>1 DEF ToSet
  <2>3. ASSUME NEW q \in DOMAIN queues'
        PROVE  Ascending(queues'[q]) /\ \A i \in DOMAIN queues'[q] : queues'[q][i] <= Len(published)
    <3>1. CASE q = r
      BY <1>5, <2>2, <3>1
    <3>2. CASE q # r
      BY <1>5, <3>2 DEF QueuesSound
    <3>3. QED
      BY <3>1, <3>2
  <2>4. QED
    BY <1>1, <2>3 DEF QueuesSound, Ascending
<1>11. PollsSound'
  <2>1. ASSUME NEW b \in Agents, b \in DOMAIN queueOf, NEW e, Has(b, e) PROVE Has(b, e)'
    <3>1. ASSUME NEW x, x \in YieldedTo(b) PROVE x \in YieldedTo(b)'
      <4>1. PICK w \in Watches : watch[w].agent = b /\ x \in watch[w].got
        BY <3>1 DEF YieldedTo
      <4>2. watch'[w].agent = b /\ x \in watch'[w].got
        BY <1>6, <1>7, <4>1
      <4>3. QED
        BY <4>1, <4>2 DEF YieldedTo
    <3>2. CASE e \in ToSet(queues[queueOf[b]])
      <4>1. CASE queueOf[b] = r
        <5>1. b = watch[v].agent
          BY <1>1, <2>1, <4>1 DEF QueuesApart
        <5>2. e = Head(s) \/ e \in ToSet(Tail(s))
          BY <1>3, <3>2, <4>1
        <5>3. CASE e = Head(s)
          BY <1>7, <5>1, <5>3 DEF Has, YieldedTo
        <5>4. CASE e \in ToSet(Tail(s))
          BY <1>1, <1>2, <1>5, <4>1, <5>4 DEF Has
        <5>5. QED
          BY <5>2, <5>3, <5>4
      <4>2. CASE queueOf[b] # r
        <5>1. queueOf[b] \in DOMAIN queues
          BY <2>1 DEF MeshTypes
        <5>2. QED
          BY <1>1, <1>5, <3>2, <4>2, <5>1 DEF Has
      <4>3. QED
        BY <4>1, <4>2
    <3>3. QED
      BY <1>1, <2>1, <3>1, <3>2 DEF Has
  <2>2. QED
    BY <1>1, <2>1 DEF PollsSound
<1>12. QED
  BY <1>8, <1>9, <1>10, <1>11

\* Adding the newest event, so many times.
LEMMA RepeatOf ==
  ASSUME NEW s \in Seq(Nat), NEW e \in Nat, NEW n \in Nat, Ascending(s),
         \A i \in DOMAIN s : s[i] <= e
  PROVE  LET t == s \o [i \in 1 .. n |-> e]
         IN /\ t \in Seq(Nat) /\ Ascending(t) /\ \A i \in DOMAIN t : t[i] <= e
            /\ ToSet(s) \subseteq ToSet(t)
            /\ n > 0 => e \in ToSet(t)
<1> DEFINE r == [i \in 1 .. n |-> e]
           t == s \o r
<1>1. r \in Seq(Nat) /\ Len(r) = n /\ \A i \in 1 .. n : r[i] = e
  <2>1. r \in Seq(Nat)
    BY IsASeq
  <2>2. DOMAIN r = 1 .. n /\ DOMAIN r = 1 .. Len(r) /\ Len(r) \in Nat
    BY <2>1, LenProperties
  <2>3. QED
    BY <2>1, <2>2
<1> HIDE DEF r
<1>2. /\ t \in Seq(Nat) /\ Len(t) = Len(s) + Len(r)
      /\ \A i \in 1 .. Len(s) + Len(r) : t[i] = IF i <= Len(s) THEN s[i] ELSE r[i - Len(s)]
  BY <1>1, ConcatProperties
<1>3. /\ Len(s) \in Nat /\ DOMAIN s = 1 .. Len(s) /\ DOMAIN t = 1 .. Len(t)
      /\ \A i \in DOMAIN s : s[i] \in Nat
  BY <1>2, LenProperties, ElementOfSeq
<1> HIDE DEF t
<1>4. \A i \in DOMAIN t : \/ i \in DOMAIN s /\ t[i] = s[i]
                          \/ i > Len(s) /\ i \in Nat /\ t[i] = e
  <2> SUFFICES ASSUME NEW i \in DOMAIN t
               PROVE  \/ i \in DOMAIN s /\ t[i] = s[i]
                      \/ i > Len(s) /\ i \in Nat /\ t[i] = e
    OBVIOUS
  <2>1. i \in 1 .. Len(s) + n /\ i \in Nat
    BY <1>1, <1>2, <1>3
  <2>2. t[i] = IF i <= Len(s) THEN s[i] ELSE r[i - Len(s)]
    BY <1>1, <1>2, <2>1
  <2>3. CASE i <= Len(s)
    BY <1>3, <2>1, <2>2, <2>3
  <2>4. CASE i > Len(s)
    <3>1. i - Len(s) \in 1 .. n
      BY <1>3, <2>1, <2>4
    <3>2. QED
      BY <1>1, <1>3, <2>1, <2>2, <2>4, <3>1
  <2>5. QED
    BY <1>3, <2>1, <2>3, <2>4
<1>5. DOMAIN s \subseteq DOMAIN t /\ \A i \in DOMAIN s : t[i] = s[i]
  BY <1>1, <1>2, <1>3
<1>6. Ascending(t)
  <2> SUFFICES ASSUME NEW i \in DOMAIN t, NEW k \in DOMAIN t, i < k PROVE t[i] <= t[k]
    BY DEF Ascending
  <2>1. CASE k \in DOMAIN s
    <3>1. i \in DOMAIN s
      BY <1>3, <1>4, <2>1
    <3>2. QED
      BY <1>5, <2>1, <3>1 DEF Ascending
  <2>2. CASE k > Len(s)
    BY <1>3, <1>4, <2>2
  <2>3. QED
    BY <1>4, <2>1, <2>2
<1>7. \A i \in DOMAIN t : t[i] <= e
  BY <1>3, <1>4
<1>8. ToSet(s) \subseteq ToSet(t)
  BY <1>5 DEF ToSet
<1>9. n > 0 => e \in ToSet(t)
  <2> SUFFICES ASSUME n > 0 PROVE e \in ToSet(t)
    OBVIOUS
  <2>1. Len(s) + 1 \in 1 .. Len(s) + Len(r) /\ ~(Len(s) + 1 <= Len(s))
    BY <1>1, <1>3
  <2>2. Len(s) + 1 \in DOMAIN t /\ ~(Len(s) + 1 \in DOMAIN s)
    BY <1>2, <1>3, <2>1
  <2>3. t[Len(s) + 1] = e
    BY <1>4, <2>2
  <2>4. QED
    BY <2>2, <2>3 DEF ToSet
<1>10. QED
  BY <1>2, <1>6, <1>7, <1>8, <1>9 DEF t, r

\* Who publishes reaches every agent that polls.
LEMMA PublishKeeps ==
  ASSUME MeshInv, NEW a \in Agents, NEW yes \in BOOLEAN, Publish(a, yes)
  PROVE  MeshInv'
<1> USE DEF MeshInv
<1>0. PICK e \in Nat : e = Len(published) + 1
  BY QueuesAre
<1> DEFINE readers(q) == {b \in DOMAIN queueOf : queueOf[b] = q}
           times(q) == IF readers(q) = {} THEN 0 ELSE places[CHOOSE b \in readers(q) : TRUE]
<1>1. /\ published' = Append(published, [by |-> a, yes |-> yes])
      /\ queues' = [q \in DOMAIN queues |-> PutInto(q, e)]
      /\ UNCHANGED <<places, queueOf, watch, polled, since>>
  BY <1>0 DEF Publish
<1>2. published' \in Seq(Event) /\ Len(published') = e /\ Len(published) \in Nat
  <2>1. [by |-> a, yes |-> yes] \in Event /\ published \in Seq(Event)
    BY DEF Event, MeshTypes
  <2>2. QED
    BY <1>0, <1>1, <2>1, AppendProperties, QueuesAre
<1>3. \A q \in DOMAIN queues : times(q) \in Nat
  BY DEF MeshTypes
<1>4. \A b \in DOMAIN queueOf : times(queueOf[b]) = places[b]
  <2> SUFFICES ASSUME NEW b \in DOMAIN queueOf PROVE times(queueOf[b]) = places[b]
    OBVIOUS
  <2>1. readers(queueOf[b]) = {b}
    BY DEF QueuesApart
  <2>2. QED
    BY <2>1
<1>5. \A q \in DOMAIN queues : PutInto(q, e) = queues[q] \o [i \in 1 .. times(q) |-> e]
  BY DEF PutInto
<1> HIDE DEF times, readers
<1>6. ASSUME NEW q \in DOMAIN queues
      PROVE  /\ queues'[q] \in Seq(Nat) /\ Ascending(queues'[q])
             /\ \A i \in DOMAIN queues'[q] : queues'[q][i] <= e
             /\ ToSet(queues[q]) \subseteq ToSet(queues'[q])
             /\ times(q) > 0 => e \in ToSet(queues'[q])
  <2>1. queues'[q] = queues[q] \o [i \in 1 .. times(q) |-> e]
    BY <1>1, <1>5
  <2>2. queues[q] \in Seq(Nat) /\ Ascending(queues[q])
    BY QueuesAre DEF QueuesSound
  <2>3. \A i \in DOMAIN queues[q] : queues[q][i] <= e
    <3> SUFFICES ASSUME NEW i \in DOMAIN queues[q] PROVE queues[q][i] <= e
      OBVIOUS
    <3>1. queues[q][i] \in Nat /\ queues[q][i] <= Len(published)
      BY QueuesAre DEF QueuesSound
    <3>2. QED
      BY <1>0, <1>2, <3>1
  <2>4. e \in Nat /\ times(q) \in Nat
    BY <1>2, <1>3
  <2>5. QED
    BY <2>1, <2>2, <2>3, <2>4, RepeatOf
<1>7. queues' \in Seq(Seq(Nat)) /\ DOMAIN queues' = DOMAIN queues
  <2>1. DOMAIN queues = 1 .. Len(queues) /\ Len(queues) \in Nat
    BY QueuesAre
  <2>2. queues' = [q \in 1 .. Len(queues) |-> PutInto(q, e)]
    BY <1>1, <2>1
  <2>3. \A q \in 1 .. Len(queues) : PutInto(q, e) \in Seq(Nat)
    BY <1>1, <1>6, <2>1
  <2>4. [q \in 1 .. Len(queues) |-> PutInto(q, e)] \in Seq(Seq(Nat))
    BY <2>1, <2>3, IsASeq
  <2>5. QED
    BY <1>1, <2>2, <2>4
<1>8. MeshTypes'
  BY <1>1, <1>2, <1>7 DEF MeshTypes
<1>9. QueuesApart'
  BY <1>1, <1>7 DEF QueuesApart
<1>10. QueuesSound'
  BY <1>2, <1>6, <1>7 DEF QueuesSound, Ascending
<1>11. PollsSound'
  <2> SUFFICES ASSUME NEW b \in Agents, since[b] # Off
               PROVE  /\ since[b] <= Len(published')
                      /\ b \in DOMAIN queueOf /\ places[b] > 0
                      /\ \A x \in since[b] + 1 .. Len(published') : Has(b, x)'
    BY <1>1 DEF PollsSound
  <2>1. /\ since[b] <= Len(published) /\ b \in DOMAIN queueOf /\ places[b] > 0
        /\ \A x \in since[b] + 1 .. Len(published) : Has(b, x)
        /\ since[b] \in Nat
    BY DEF PollsSound, MeshTypes
  <2>2. queueOf[b] \in DOMAIN queues
    BY <2>1 DEF MeshTypes
  <2>3. ASSUME NEW x, Has(b, x) PROVE Has(b, x)'
    <3>1. YieldedTo(b)' = YieldedTo(b)
      BY <1>1 DEF YieldedTo
    <3>2. QED
      BY <1>1, <1>6, <2>2, <2>3, <3>1 DEF Has
  <2>4. Has(b, e)'
    BY <1>1, <1>4, <1>6, <2>1, <2>2 DEF Has
  <2>5. \A x \in since[b] + 1 .. Len(published') : x \in since[b] + 1 .. Len(published) \/ x = e
    BY <1>0, <1>2, <2>1
  <2>6. since[b] <= Len(published')
    BY <1>0, <1>2, <2>1
  <2>7. QED
    BY <1>1, <2>1, <2>3, <2>4, <2>5, <2>6
<1>12. QED
  BY <1>8, <1>9, <1>10, <1>11

\* What these are about.
meshKept == <<places, queueOf, queues, published, watch, polled, since>>

LEMMA MeshStutters ==
  ASSUME MeshInv, UNCHANGED meshKept
  PROVE  MeshInv'
<1>1. MeshTypes' /\ QueuesApart' /\ QueuesSound'
  BY DEF MeshInv, MeshTypes, QueuesApart, QueuesSound, Ascending, meshKept
<1>2. PollsSound'
  BY DEF MeshInv, PollsSound, Has, YieldedTo, meshKept
<1>3. QED
  BY <1>1, <1>2 DEF MeshInv

LEMMA MeshStarts == Init => MeshInv
<1> SUFFICES ASSUME Init PROVE MeshInv
  OBVIOUS
<1>1. /\ queueOf = <<>> /\ queues = <<>> /\ published = <<>>
      /\ places = [a \in Agents |-> 0] /\ watch = [w \in Watches |-> NoWatch]
      /\ polled = [a \in Agents |-> {}] /\ since = [a \in Agents |-> Off]
  BY DEF Init, MeshInit
<1>2. queues \in Seq(Seq(Nat)) /\ published \in Seq(Event) /\ DOMAIN queueOf = {} /\ DOMAIN queues = {}
  <2>1. Len(<<>>) = 0 /\ DOMAIN <<>> = 1 .. 0
    BY EmptySeq
  <2>2. QED
    BY <1>1, <2>1, EmptySeq
<1>3. MeshTypes
  <2>1. queueOf \in [DOMAIN queueOf -> DOMAIN queues]
    BY <1>1
  <2>2. QED
    BY <1>1, <1>2, <2>1 DEF MeshTypes
<1>4. QueuesApart /\ QueuesSound /\ PollsSound
  BY <1>1, <1>2 DEF QueuesApart, QueuesSound, PollsSound
<1>5. QED
  BY <1>3, <1>4 DEF MeshInv

(***************************************************************************)
(* The patterns: what their callbacks hear, and what they make of it       *)
(***************************************************************************)

Stages == {"idle", "send", "sending", "wait", "leave", "raise", "fail", "done", "raised", "failed"}
Record == [stage : Stages, step : Nat, start : Nat, end : Nat, got : Seq(Nat), sent : Seq(Nat),
           cut : BOOLEAN, result : BOOLEAN]

JobTypes ==
  /\ job \in [Jobs -> Record]
  /\ \A j \in Jobs : job[j].step \in 1 .. Size(j)
  /\ inbox \in [JobOwners -> Seq(Nat)]
  /\ tasks \subseteq JobOwners \X (1 .. Len(published))

\* A callback is subscribed once, with its own agent, when its job starts.
CallbacksOnce ==
  /\ \A c \in callbacks :
       c[2] \in JobOwners /\ c[1] = Members[c[2][1]][c[2][2]] /\ c[2] \notin taken
  /\ \A o \in JobOwners : job[o[1]].stage = "idle" =>
       /\ job[o[1]] = Fresh /\ inbox[o] = <<>> /\ o \notin taken
       /\ \A c \in callbacks : c[2] # o
       /\ \A t \in tasks : t[1] # o

\* What its job has taken of what it heard, and what it is still to be told.
Got(o) ==
  IF Kind[o[1]] = "pipeline"
    THEN {job[o[1]].got[k] : k \in {o[2] - 1} \cap DOMAIN job[o[1]].got}
    ELSE ToSet(job[o[1]].got)
Due(o) == {e \in 1 .. Len(published) : <<o, e>> \in tasks /\ published[e].by \in Awaited(o)}
Heard(o) == Got(o) \cup ToSet(inbox[o]) \cup Due(o)

\* It has heard, or will, of all that it waits for up to some event, which is
\* the newest while it is subscribed, and hears of them in their order.
HearsOf(o) ==
  /\ o \notin taken => <<Members[o[1]][o[2]], o>> \in callbacks
  /\ \E n \in job[o[1]].start .. Len(published) :
       Heard(o) = Answers(o, n) /\ (o \notin taken => n = Len(published))
  /\ Increasing(inbox[o])
  /\ \A x \in Got(o), y \in ToSet(inbox[o]) : x < y
  /\ \A x \in Got(o) \cup ToSet(inbox[o]), y \in Due(o) : x < y

Live == {"send", "sending", "wait", "leave", "raise", "fail"}
Hears == \A o \in JobOwners : job[o[1]].stage \in Live => HearsOf(o)

\* A vote or a broadcast takes the first answers in order, until it has enough.
TakesOf(j) ==
  LET s == job[j]
      all == Answers(<<j, 1>>, Len(published))
  IN /\ Increasing(s.got) /\ ToSet(s.got) \subseteq all
     /\ \A e \in all \ ToSet(s.got), i \in DOMAIN s.got : s.got[i] < e
     /\ s.stage # "raise" /\ s.end <= Len(published)
     /\ Kind[j] = "vote" => s.stage \notin {"send", "sending"}
     /\ s.stage \in {"send", "sending", "wait"} => Len(s.got) < Wanted(j)
     /\ s.stage \notin {"done", "raised", "failed"} => ~s.result
     /\ s.stage \in {"leave", "done"} =>
          /\ Len(s.got) <= Wanted(j)
          /\ Len(s.got) < Wanted(j) => s.cut \/ ToSet(s.got) = Answers(<<j, 1>>, s.end)
     /\ s.stage = "done" /\ s.result =>
          2 * Cardinality({e \in ToSet(s.got) : published[e].yes}) > Len(s.got)

\* How far a pipeline is.
StepsOf(j) ==
  LET s == job[j]
  IN /\ \A i \in DOMAIN s.sent : s.sent[i] \in s.start + 1 .. Len(published)
     /\ \A i \in DOMAIN s.got : s.got[i] \in 1 .. Len(published)
     /\ s.stage = "send" => Len(s.sent) = s.step - 1 /\ Len(s.got) = s.step - 1
     /\ s.stage = "sending" => Len(s.sent) = s.step /\ Len(s.got) = s.step - 1
     /\ s.stage = "wait" => s.step > 1 /\ Len(s.sent) = s.step - 1 /\ Len(s.got) = s.step - 2
     /\ InStages(j)

JobsSound == \A j \in Jobs : IF Kind[j] = "pipeline" THEN StepsOf(j) ELSE TakesOf(j)

JobInv == JobTypes /\ CallbacksOnce /\ Hears /\ JobsSound

LEMMA MembersAre ==
  ASSUME NEW j \in Jobs
  PROVE  /\ Size(j) \in Nat /\ Size(j) > 1 /\ \A i \in 1 .. Size(j) : Members[j][i] \in Agents
         /\ Waiters(j) = IF Kind[j] = "pipeline" THEN 2 .. Size(j) ELSE {1}
         /\ Waiters(j) \subseteq 1 .. Size(j)
         /\ Wanted(j) \in Nat /\ Wanted(j) > 0
<1>1. Members[j] \in Seq(Agents) /\ Len(Members[j]) > 1
  BY MembersAssumption
<1>2. Len(Members[j]) \in Nat /\ \A i \in 1 .. Len(Members[j]) : Members[j][i] \in Agents
  BY <1>1, LenProperties, ElementOfSeq
<1>3. QED
  BY <1>1, <1>2 DEF Size, Waiters, Wanted

LEMMA OwnersAre ==
  /\ \A o \in JobOwners : o[1] \in Jobs /\ o[2] \in Waiters(o[1]) /\ o = <<o[1], o[2]>>
  /\ \A j \in Jobs : \A i \in Waiters(j) : <<j, i>> \in JobOwners /\ <<j, i>>[1] = j /\ <<j, i>>[2] = i
BY DEF JobOwners

\* The callback that a job waits on, once a pipeline is past its first stage.
LEMMA CurrentIs ==
  ASSUME NEW j \in Jobs, job[j].step \in 1 .. Size(j), Kind[j] = "pipeline" => job[j].step > 1
  PROVE  /\ Current(j) \in JobOwners /\ Current(j)[1] = j
         /\ Current(j)[2] = IF Kind[j] = "pipeline" THEN job[j].step ELSE 1
<1>1. IF Kind[j] = "pipeline" THEN job[j].step \in Waiters(j) ELSE 1 \in Waiters(j)
  BY MembersAre
<1>2. QED
  BY <1>1, OwnersAre DEF Current

LEMMA EventsAre ==
  ASSUME published \in Seq(Event)
  PROVE  /\ Len(published) \in Nat
         /\ \A e \in 1 .. Len(published) : published[e].by \in Agents /\ published[e].yes \in BOOLEAN
<1>1. Len(published) \in Nat /\ \A e \in 1 .. Len(published) : published[e] \in Event
  BY LenProperties, ElementOfSeq
<1>2. QED
  BY <1>1 DEF Event

\* What a callback hears is as it was when nothing of it has changed, or it
\* was taken off the list.
LEMMA HearsSame ==
  ASSUME NEW o \in JobOwners, HearsOf(o), UNCHANGED <<tasks, published>>,
         job'[o[1]].start = job[o[1]].start, Got(o)' = Got(o), inbox'[o] = inbox[o],
         o \notin taken' =>
           /\ o \notin taken
           /\ <<Members[o[1]][o[2]], o>> \in callbacks => <<Members[o[1]][o[2]], o>> \in callbacks'
  PROVE  HearsOf(o)'
<1>1. Due(o)' = Due(o)
  BY DEF Due
<1>2. Heard(o)' = Heard(o)
  BY <1>1 DEF Heard
<1>3. \A n : Answers(o, n)' = Answers(o, n)
  BY DEF Answers
<1>4. QED
  BY <1>1, <1>2, <1>3 DEF HearsOf, Increasing

\* It is told of an event that is published while it is on the list.
LEMMA HearsPublished ==
  ASSUME NEW o \in JobOwners, HearsOf(o), JobTypes, CallbacksOnce, published \in Seq(Event),
         NEW a \in Agents, NEW yes \in BOOLEAN, Publish(a, yes),
         job[o[1]].start \in Nat, job'[o[1]].start = job[o[1]].start,
         Got(o)' = Got(o), inbox' = inbox
  PROVE  HearsOf(o)'
<1>0. PICK e \in Nat : e = Len(published) + 1
  BY EventsAre
<1>1. /\ published' = Append(published, [by |-> a, yes |-> yes])
      /\ tasks' = tasks \cup {<<c[2], e>> : c \in callbacks}
      /\ UNCHANGED <<callbacks, taken>>
  BY <1>0 DEF Publish
<1>2. /\ published' \in Seq(Event) /\ Len(published') = e
      /\ \A k \in 1 .. Len(published) : published'[k] = published[k]
      /\ published'[e].by = a
  <2>1. [by |-> a, yes |-> yes] \in Event
    BY DEF Event
  <2>2. QED
    BY <1>0, <1>1, <2>1, AppendProperties
<1>3. e > Len(published) /\ Len(published) \in Nat /\ 1 .. e = 1 .. Len(published) \cup {e}
  BY <1>0, EventsAre
<1>4. <<o, e>> \in tasks' <=> \E c \in callbacks : c[2] = o
  <2>1. \A x, y : <<x, e>> = <<y, e>> <=> x = y
    OBVIOUS
  <2>2. <<o, e>> \notin tasks
    BY <1>3 DEF JobTypes
  <2>3. QED
    BY <1>1, <2>1, <2>2
<1>5. \A k \in 1 .. Len(published) : <<o, k>> \in tasks' <=> <<o, k>> \in tasks
  <2>1. \A x, k : <<x, e>> = <<o, k>> => k = e
    OBVIOUS
  <2>2. \A k \in 1 .. Len(published) : k # e
    BY <1>3
  <2>3. QED
    BY <1>1, <2>1, <2>2
<1>6. Due(o)' = Due(o) \cup {k \in {e} : a \in Awaited(o) /\ \E c \in callbacks : c[2] = o}
  BY <1>2, <1>3, <1>4, <1>5 DEF Due
<1>7. PICK n \in job[o[1]].start .. Len(published) :
        Heard(o) = Answers(o, n) /\ (o \notin taken => n = Len(published))
  BY DEF HearsOf
<1>8. \A k \in job[o[1]].start .. Len(published) : Answers(o, k)' = Answers(o, k)
  <2> SUFFICES ASSUME NEW k \in job[o[1]].start .. Len(published) PROVE Answers(o, k)' = Answers(o, k)
    OBVIOUS
  <2>1. job[o[1]].start + 1 .. k \subseteq 1 .. Len(published)
    BY <1>3
  <2>2. QED
    BY <1>2, <2>1 DEF Answers
<1>9. \A x \in Heard(o) : x < e
  BY <1>3, <1>7 DEF Answers
<1>10. Heard(o)' = Heard(o) \cup {k \in {e} : a \in Awaited(o) /\ \E c \in callbacks : c[2] = o}
  BY <1>6 DEF Heard
<1>11. \E k \in job[o[1]].start .. e : Heard(o)' = Answers(o, k)' /\ (o \notin taken => k = e)
  <2>1. CASE o \in taken
    <3>1. \A c \in callbacks : c[2] # o
      BY <2>1 DEF CallbacksOnce
    <3>2. Heard(o)' = Answers(o, n)' /\ n \in job[o[1]].start .. e
      BY <1>3, <1>7, <1>8, <1>10, <3>1
    <3>3. QED
      BY <2>1, <3>2
  <2>2. CASE o \notin taken
    <3>1. \E c \in callbacks : c[2] = o
      BY <2>2 DEF HearsOf
    <3>2. job[o[1]].start + 1 .. e = (job[o[1]].start + 1 .. Len(published)) \cup {e}
      BY <1>0, <1>3, <1>7
    <3>3. job[o[1]].start + 1 .. Len(published) \subseteq 1 .. Len(published)
      BY <1>3
    <3>4. Answers(o, e)' = Answers(o, Len(published)) \cup {k \in {e} : a \in Awaited(o)}
      BY <1>2, <3>2, <3>3 DEF Answers
    <3>5. Heard(o)' = Answers(o, e)'
      BY <1>7, <1>10, <2>2, <3>1, <3>4
    <3>6. QED
      BY <1>3, <1>7, <3>5
  <2>3. QED
    BY <2>1, <2>2
<1>12. \A x \in Got(o) \cup ToSet(inbox[o]) : x < e
  BY <1>9 DEF Heard
<1>13. QED
  BY <1>1, <1>2, <1>6, <1>11, <1>12 DEF HearsOf, Increasing

\* A callback runs: the event goes from what is due into the queue.
LEMMA HearsRun ==
  ASSUME NEW o \in JobOwners, HearsOf(o), JobTypes, NEW t \in tasks, Run(t),
         \A u \in tasks : t[2] <= u[2]
  PROVE  HearsOf(o)'
<1> DEFINE e == t[2]
<1>1. /\ tasks' = tasks \ {t} /\ UNCHANGED <<published, callbacks, taken, job>>
      /\ inbox' = IF published[e].by \in Awaited(t[1]) THEN [inbox EXCEPT ![t[1]] = Append(@, e)] ELSE inbox
  BY DEF Run
<1>2. /\ t = <<t[1], e>> /\ e \in 1 .. Len(published) /\ e \in Nat /\ t[1] \in JobOwners
      /\ inbox \in [JobOwners -> Seq(Nat)]
  BY DEF JobTypes
<1>3. Got(o)' = Got(o) /\ \A n : Answers(o, n)' = Answers(o, n)
  BY <1>1 DEF Got, Answers
<1>4. \A k : <<o, k>> \in tasks' <=> <<o, k>> \in tasks /\ ~(o = t[1] /\ k = e)
  BY <1>1, <1>2
<1>5. CASE o = t[1] /\ published[e].by \in Awaited(o)
  <2>1. inbox'[o] = Append(inbox[o], e) /\ inbox[o] \in Seq(Nat)
    BY <1>1, <1>2, <1>5
  <2>2. e \in Due(o) /\ Due(o)' = Due(o) \ {e}
    BY <1>1, <1>2, <1>4, <1>5 DEF Due
  <2>3. \A x \in Got(o) \cup ToSet(inbox[o]) : x < e
    BY <2>2 DEF HearsOf
  <2>4. ToSet(inbox'[o]) = ToSet(inbox[o]) \cup {e} /\ Increasing(inbox'[o])
    BY <1>2, <2>1, <2>3, AppendOf DEF HearsOf
  <2>5. \A y \in Due(o)' : e < y
    <3> SUFFICES ASSUME NEW y \in Due(o)' PROVE e < y
      OBVIOUS
    <3>1. y # e /\ <<o, y>> \in tasks /\ y \in 1 .. Len(published)
      BY <2>2 DEF Due
    <3>2. <<o, y>>[2] = y
      OBVIOUS
    <3>3. e <= y /\ y \in Int
      BY <3>1, <3>2
    <3>4. QED
      BY <1>2, <3>1, <3>3
  <2>6. Heard(o)' = Heard(o)
    BY <1>3, <2>2, <2>4 DEF Heard
  <2>7. /\ \A x \in Got(o)', y \in ToSet(inbox'[o]) : x < y
        /\ \A x \in Got(o)' \cup ToSet(inbox'[o]), y \in Due(o)' : x < y
    BY <1>3, <2>2, <2>3, <2>4, <2>5 DEF HearsOf
  <2>8. QED
    BY <1>1, <1>3, <2>4, <2>6, <2>7 DEF HearsOf, Increasing
<1>6. CASE ~(o = t[1] /\ published[e].by \in Awaited(o))
  <2>1. inbox'[o] = inbox[o]
    BY <1>1, <1>2, <1>6
  <2>2. Due(o)' = Due(o)
    BY <1>1, <1>4, <1>6 DEF Due
  <2>3. Heard(o)' = Heard(o)
    BY <1>3, <2>1, <2>2 DEF Heard
  <2>4. QED
    BY <1>1, <1>3, <2>1, <2>2, <2>3 DEF HearsOf, Increasing
<1>7. QED
  BY <1>5, <1>6

\* What a job that takes an event has then.
LEMMA TakeIs ==
  ASSUME NEW j \in Jobs, JobTypes, Take(j), Kind[j] = "pipeline" => job[j].step > 1
  PROVE  LET o == Current(j)
             h == Head(inbox[o])
         IN /\ o \in JobOwners /\ o[1] = j
            /\ inbox[o] \in Seq(Nat) /\ inbox[o] # <<>> /\ h \in Nat
            /\ inbox' = [inbox EXCEPT ![o] = Tail(inbox[o])]
            /\ \A i \in Jobs \ {j} : job'[i] = job[i]
            /\ job' \in [Jobs -> Record]
            /\ job'[j].got = Append(job[j].got, h) /\ job[j].got \in Seq(Nat)
            /\ job[j].stage = "wait"
            /\ job'[j].stage = IF Kind[j] = "pipeline" THEN "send"
                               ELSE IF Len(job[j].got) + 1 = Wanted(j) THEN "leave" ELSE "wait"
            /\ job'[j].step = job[j].step /\ job'[j].start = job[j].start /\ job'[j].end = job[j].end
            /\ job'[j].sent = job[j].sent /\ job'[j].cut = job[j].cut
            /\ job'[j].result = job[j].result
            /\ UNCHANGED meshVars
<1> DEFINE o == Current(j)
           h == Head(inbox[o])
           next == IF Kind[j] = "pipeline" THEN "send"
                   ELSE IF Len(job[j].got) + 1 = Wanted(j) THEN "leave" ELSE "wait"
<1>1. o \in JobOwners /\ o[1] = j
  BY CurrentIs DEF JobTypes
<1>2. inbox[o] \in Seq(Nat) /\ inbox[o] # <<>> /\ h \in Nat
  BY <1>1, HeadTailProperties DEF JobTypes, Take
<1>3. /\ job[j] \in Record /\ job \in [Jobs -> Record] /\ job[j].got \in Seq(Nat)
      /\ Append(job[j].got, h) \in Seq(Nat)
  BY <1>2, AppendProperties DEF JobTypes, Record
<1>4. /\ inbox' = [inbox EXCEPT ![o] = Tail(inbox[o])] /\ UNCHANGED meshVars /\ job[j].stage = "wait"
      /\ job' = [job EXCEPT ![j].got = Append(@, h), ![j].stage = next]
  BY <1>1 DEF Take, JobTypes
<1>5. next \in Stages
  BY DEF Stages
<1> HIDE DEF h, next, o
<1>6. job' = [job EXCEPT ![j] = [job[j] EXCEPT !.got = Append(@, h), !.stage = next]]
  BY <1>3, <1>4
<1>7. [job[j] EXCEPT !.got = Append(@, h), !.stage = next] \in Record
  BY <1>3, <1>5 DEF Record
<1>8. job' \in [Jobs -> Record] /\ \A i \in Jobs \ {j} : job'[i] = job[i]
  BY <1>3, <1>6, <1>7
<1>9. job'[j] = [job[j] EXCEPT !.got = Append(@, h), !.stage = next]
  BY <1>3, <1>6
<1>10. /\ job'[j].got = Append(job[j].got, h) /\ job'[j].stage = next
       /\ job'[j].step = job[j].step /\ job'[j].start = job[j].start /\ job'[j].end = job[j].end
       /\ job'[j].sent = job[j].sent /\ job'[j].cut = job[j].cut
       /\ job'[j].result = job[j].result
  BY <1>3, <1>9 DEF Record
<1>11. QED
  BY <1>1, <1>2, <1>3, <1>4, <1>8, <1>10 DEF h, next, o

\* The event goes from the queue to what the job has taken.
LEMMA HearsTake ==
  ASSUME NEW o \in JobOwners, HearsOf(o), JobTypes, NEW j \in Jobs, Take(j),
         Kind[j] = "pipeline" => job[j].step > 1 /\ Len(job[j].got) = job[j].step - 2
  PROVE  HearsOf(o)'
<1> DEFINE u == Current(j)
           h == Head(inbox[u])
<1>1. /\ u \in JobOwners /\ u[1] = j /\ inbox[u] \in Seq(Nat) /\ inbox[u] # <<>> /\ h \in Nat
      /\ inbox' = [inbox EXCEPT ![u] = Tail(inbox[u])]
      /\ \A i \in Jobs \ {j} : job'[i] = job[i]
      /\ job'[j].got = Append(job[j].got, h) /\ job[j].got \in Seq(Nat)
      /\ job'[j].start = job[j].start
      /\ UNCHANGED meshVars
  BY TakeIs
<1>2. u[2] = IF Kind[j] = "pipeline" THEN job[j].step ELSE 1
  BY CurrentIs DEF JobTypes
<1>3. /\ o[1] \in Jobs /\ o[2] \in Waiters(o[1]) /\ o = <<o[1], o[2]>> /\ u = <<u[1], u[2]>>
      /\ inbox \in [JobOwners -> Seq(Nat)]
  BY <1>1, OwnersAre DEF JobTypes
<1> HIDE DEF u, h
<1>4. /\ Len(job[j].got) \in Nat /\ ToSet(job'[j].got) = ToSet(job[j].got) \cup {h}
      /\ DOMAIN job'[j].got = 1 .. Len(job[j].got) + 1 /\ DOMAIN job[j].got = 1 .. Len(job[j].got)
      /\ \A i \in 1 .. Len(job[j].got) : job'[j].got[i] = job[j].got[i]
      /\ job'[j].got[Len(job[j].got) + 1] = h
  BY <1>1, AppendOf
<1>5. UNCHANGED <<tasks, published, callbacks, taken>> /\ job'[o[1]].start = job[o[1]].start
  BY <1>1, <1>3 DEF meshVars
<1>6. CASE o = u
  <2>1. Got(o)' = Got(o) \cup {h}
    <3>1. CASE Kind[j] = "pipeline"
      <4>1. o[2] - 1 = Len(job[j].got) + 1
        <5>1. job[j].step \in Nat
          BY DEF JobTypes, Record
        <5>2. QED
          BY <1>2, <1>6, <3>1, <5>1
      <4>2. Got(o) = {}
        BY <1>1, <1>4, <1>6, <3>1, <4>1 DEF Got
      <4>3. Got(o)' = {h}
        <5>1. {o[2] - 1} \cap DOMAIN job'[j].got = {Len(job[j].got) + 1}
          BY <1>4, <4>1
        <5>2. Got(o)' = {job'[j].got[k] : k \in {o[2] - 1} \cap DOMAIN job'[j].got}
          BY <1>1, <1>6, <3>1 DEF Got
        <5>3. QED
          BY <1>4, <5>1, <5>2
      <4>4. QED
        BY <4>2, <4>3
    <3>2. CASE Kind[j] # "pipeline"
      BY <1>1, <1>4, <1>6, <3>2 DEF Got
    <3>3. QED
      BY <3>1, <3>2
  <2>2. inbox'[o] = Tail(inbox[o]) /\ h = Head(inbox[o])
    BY <1>1, <1>3, <1>6 DEF h
  <2>3. ToSet(inbox[o]) = {h} \cup ToSet(inbox'[o]) /\ Increasing(inbox'[o])
        /\ \A y \in ToSet(inbox'[o]) : h < y
    BY <1>1, <1>6, <2>2, TailOf DEF HearsOf
  <2>4. Due(o)' = Due(o)
    BY <1>5 DEF Due
  <2>5. Heard(o)' = Heard(o) /\ \A n : Answers(o, n)' = Answers(o, n)
    BY <1>5, <2>1, <2>3, <2>4 DEF Heard, Answers
  <2>6. /\ \A x \in Got(o)', y \in ToSet(inbox'[o]) : x < y
        /\ \A x \in Got(o)' \cup ToSet(inbox'[o]), y \in Due(o)' : x < y
    BY <2>1, <2>3, <2>4 DEF HearsOf
  <2>7. QED
    BY <1>5, <2>3, <2>5, <2>6 DEF HearsOf, Increasing
<1>7. CASE o # u
  <2>1. inbox'[o] = inbox[o]
    BY <1>1, <1>3, <1>7
  <2>2. Got(o)' = Got(o)
    <3>1. CASE o[1] # j
      BY <1>1, <1>3, <3>1 DEF Got
    <3>2. CASE o[1] = j
      <4>1. o[2] # u[2]
        BY <1>1, <1>3, <1>7, <3>2
      <4>2. Kind[j] = "pipeline"
        BY <1>2, <1>3, <3>2, <4>1, MembersAre
      <4>3. o[2] - 1 # Len(job[j].got) + 1 /\ o[2] - 1 \in Int
        <5>1. job[j].step \in Nat /\ o[2] \in Nat
          BY <1>3, <3>2, <4>2, MembersAre DEF JobTypes, Record
        <5>2. QED
          BY <1>2, <4>1, <4>2, <5>1
      <4>4. /\ {o[2] - 1} \cap DOMAIN job'[j].got = {o[2] - 1} \cap DOMAIN job[j].got
            /\ \A k \in {o[2] - 1} \cap DOMAIN job[j].got : job'[j].got[k] = job[j].got[k]
        BY <1>4, <4>3
      <4>5. QED
        BY <3>2, <4>2, <4>4 DEF Got
    <3>3. QED
      BY <3>1, <3>2
  <2>3. QED
    BY <1>5, <2>1, <2>2, HearsSame
<1>8. QED
  BY <1>6, <1>7

(***************************************************************************)
(* Each step keeps what the patterns rest on                               *)
(***************************************************************************)

\* What the other actions leave alone.
jobKept == <<callbacks, tasks, published, taken, job, inbox>>

LEMMA JobsStutter ==
  ASSUME JobInv, UNCHANGED jobKept
  PROVE  JobInv'
<1>1. JobTypes' /\ CallbacksOnce'
  BY DEF JobInv, JobTypes, CallbacksOnce, jobKept
<1>2. Hears'
  <2> SUFFICES ASSUME NEW o \in JobOwners, job[o[1]].stage \in Live PROVE HearsOf(o)'
    BY DEF Hears, jobKept
  <2>1. HearsOf(o)
    BY DEF JobInv, Hears
  <2>2. Got(o)' = Got(o)
    BY DEF Got, jobKept
  <2>3. QED
    BY <2>1, <2>2, HearsSame DEF jobKept
<1>3. JobsSound'
  <2>1. \A j : TakesOf(j)' <=> TakesOf(j)
    BY DEF TakesOf, Answers, Increasing, jobKept
  <2>2. \A j : StepsOf(j)' <=> StepsOf(j)
    BY DEF StepsOf, InStages, jobKept
  <2>3. QED
    BY <2>1, <2>2 DEF JobInv, JobsSound
<1>4. QED
  BY <1>1, <1>2, <1>3 DEF JobInv

LEMMA JobsStart == Init => JobInv
<1> SUFFICES ASSUME Init PROVE JobInv
  OBVIOUS
<1>1. /\ job = [j \in Jobs |-> Fresh] /\ inbox = [o \in JobOwners |-> <<>>]
      /\ tasks = {} /\ callbacks = {} /\ taken = {} /\ published = <<>>
  BY DEF Init, MeshInit
<1>2. /\ <<>> \in Seq(Nat) /\ Len(<<>>) = 0 /\ ToSet(<<>>) = {} /\ DOMAIN <<>> = {}
  <2>1. <<>> \in Seq(Nat) /\ Len(<<>>) = 0
    BY EmptySeq
  <2>2. DOMAIN <<>> = {}
    BY <2>1, LenProperties
  <2>3. QED
    BY <2>1, <2>2 DEF ToSet
<1>3. Fresh \in Record
  BY <1>2 DEF Fresh, Record, Stages
<1>4. JobTypes
  <2>1. \A j \in Jobs : job[j].step \in 1 .. Size(j)
    BY <1>1, MembersAre DEF Fresh
  <2>2. QED
    BY <1>1, <1>2, <1>3, <2>1 DEF JobTypes
<1>5. \A o \in JobOwners : o[1] \in Jobs
  BY OwnersAre
<1>6. CallbacksOnce /\ Hears
  BY <1>1, <1>5 DEF CallbacksOnce, Hears, Live, Fresh
<1>7. JobsSound
  <2> SUFFICES ASSUME NEW j \in Jobs PROVE IF Kind[j] = "pipeline" THEN StepsOf(j) ELSE TakesOf(j)
    BY DEF JobsSound
  <2>1. job[j] = Fresh /\ job[j].got = <<>> /\ job[j].sent = <<>> /\ job[j].stage = "idle" /\ job[j].result = FALSE
        /\ job[j].end = 0 /\ Len(published) = 0
    BY <1>1, <1>2 DEF Fresh
  <2>2. StepsOf(j)
    BY <1>2, <2>1 DEF StepsOf, InStages
  <2>3. TakesOf(j)
    BY <1>2, <2>1 DEF TakesOf, Increasing
  <2>4. QED
    BY <2>2, <2>3
<1>8. QED
  BY <1>4, <1>6, <1>7 DEF JobInv

\* Subscriptions are taken off the list; a job that leaves does so too.
LEMMA DropJobs ==
  ASSUME JobInv, NEW A \in SUBSET Agents, Drop(A), UNCHANGED <<tasks, published, inbox>>,
         JobTypes', JobsSound',
         \A j \in Jobs :
           \/ job'[j] = job[j]
           \/ job[j].stage # "idle" /\ job'[j].stage \in {"done", "raised", "failed"}
  PROVE  JobInv'
<1> DEFINE gone == {c \in callbacks : c[1] \in A}
<1>1. callbacks' = callbacks \ gone /\ taken' = taken \cup {c[2] : c \in gone}
  BY DEF Drop
<1>2. \A c \in callbacks : c[2] \in JobOwners /\ c[1] = Members[c[2][1]][c[2][2]] /\ c[2] \notin taken
  BY DEF JobInv, CallbacksOnce
<1>3. CallbacksOnce'
  <2>1. \A c \in callbacks' : c[2] \in JobOwners /\ c[1] = Members[c[2][1]][c[2][2]] /\ c[2] \notin taken'
    BY <1>1, <1>2
  <2>2. ASSUME NEW o \in JobOwners, job'[o[1]].stage = "idle"
        PROVE  /\ job'[o[1]] = Fresh /\ inbox[o] = <<>> /\ o \notin taken'
               /\ \A c \in callbacks' : c[2] # o
               /\ \A t \in tasks : t[1] # o
    <3>1. job'[o[1]] = job[o[1]]
      BY <2>2, OwnersAre
    <3>2. /\ job[o[1]] = Fresh /\ inbox[o] = <<>> /\ o \notin taken
          /\ \A c \in callbacks : c[2] # o
          /\ \A t \in tasks : t[1] # o
      BY <2>2, <3>1 DEF JobInv, CallbacksOnce
    <3>3. QED
      BY <1>1, <3>1, <3>2
  <2>3. QED
    BY <2>1, <2>2 DEF CallbacksOnce
<1>4. Hears'
  <2> SUFFICES ASSUME NEW o \in JobOwners, job'[o[1]].stage \in Live PROVE HearsOf(o)'
    BY DEF Hears
  <2>1. job'[o[1]] = job[o[1]]
    BY OwnersAre DEF Live
  <2>2. HearsOf(o)
    BY <2>1 DEF JobInv, Hears
  <2>3. Got(o)' = Got(o)
    BY <2>1 DEF Got
  <2>4. o \notin taken' =>
          /\ o \notin taken
          /\ <<Members[o[1]][o[2]], o>> \in callbacks => <<Members[o[1]][o[2]], o>> \in callbacks'
    <3>1. <<Members[o[1]][o[2]], o>>[2] = o
      OBVIOUS
    <3>2. QED
      BY <1>1, <3>1
  <2>5. QED
    BY <2>1, <2>2, <2>3, <2>4, HearsSame
<1>5. QED
  BY <1>3, <1>4 DEF JobInv

\* A subscription is dropped and no job moves.
LEMMA DropOnly ==
  ASSUME JobInv, NEW A \in SUBSET Agents, Drop(A), UNCHANGED <<tasks, published, inbox, job>>
  PROVE  JobInv'
<1>1. JobTypes'
  BY DEF JobInv, JobTypes
<1>2. JobsSound'
  <2>1. \A j : TakesOf(j)' <=> TakesOf(j)
    BY DEF TakesOf, Answers, Increasing
  <2>2. \A j : StepsOf(j)' <=> StepsOf(j)
    BY DEF StepsOf, InStages
  <2>3. QED
    BY <2>1, <2>2 DEF JobInv, JobsSound
<1>3. QED
  BY <1>1, <1>2, DropJobs

LEMMA PublishedIs ==
  ASSUME published \in Seq(Event), NEW a \in Agents, NEW yes \in BOOLEAN, Publish(a, yes)
  PROVE  /\ published' \in Seq(Event) /\ Len(published) \in Nat /\ Len(published') = Len(published) + 1
         /\ \A k \in 1 .. Len(published) : published'[k] = published[k]
         /\ published'[Len(published) + 1].by = a
         /\ UNCHANGED <<callbacks, taken>>
         /\ tasks' = tasks \cup {<<c[2], Len(published) + 1>> : c \in callbacks}
<1>1. published' = Append(published, [by |-> a, yes |-> yes])
  BY DEF Publish
<1>2. [by |-> a, yes |-> yes] \in Event
  BY DEF Event
<1>3. published' \in Seq(Event) /\ Len(published) \in Nat /\ Len(published') = Len(published) + 1
      /\ (\A k \in 1 .. Len(published) : published'[k] = published[k])
      /\ published'[Len(published) + 1] = [by |-> a, yes |-> yes]
  BY <1>1, <1>2, AppendProperties, EventsAre
<1>4. QED
  BY <1>3 DEF Publish

\* An event that is published is after all that a job has taken.
LEMMA PublishTakes ==
  ASSUME published \in Seq(Event), NEW a \in Agents, NEW yes \in BOOLEAN, Publish(a, yes),
         JobTypes, JobTypes', NEW j \in Jobs, TakesOf(j),
         job'[j].got = job[j].got, job'[j].start = job[j].start, job'[j].end = job[j].end,
         job'[j].cut = job[j].cut, job'[j].result = job[j].result,
         job'[j].stage = job[j].stage \/ (job[j].stage = "send" /\ job'[j].stage = "sending" /\ Kind[j] # "vote")
  PROVE  TakesOf(j)'
<1>0. PICK e \in Nat : e = Len(published) + 1
  BY EventsAre
<1>1. /\ published' \in Seq(Event) /\ Len(published) \in Nat /\ Len(published') = e
      /\ \A k \in 1 .. Len(published) : published'[k] = published[k]
  BY <1>0, PublishedIs
<1> DEFINE o == <<j, 1>>
<1>2. job[j].start \in Nat /\ job[j].end \in Nat /\ o[1] = j
  BY DEF JobTypes, Record
<1>3. \A n \in Int : n <= Len(published) => Answers(o, n)' = Answers(o, n)
  <2> SUFFICES ASSUME NEW n \in Int, n <= Len(published) PROVE Answers(o, n)' = Answers(o, n)
    OBVIOUS
  <2>1. job[j].start + 1 .. n \subseteq 1 .. Len(published)
    BY <1>1, <1>2
  <2>2. QED
    BY <1>1, <1>2, <2>1 DEF Answers
<1>4. Answers(o, Len(published))' \subseteq Answers(o, Len(published)) \cup {e}
  <2>1. \A k \in job[j].start + 1 .. e : k = e \/ k \in job[j].start + 1 .. Len(published)
    BY <1>0, <1>1, <1>2
  <2>2. job[j].start + 1 .. Len(published) \subseteq 1 .. Len(published)
    BY <1>1, <1>2
  <2>3. QED
    BY <1>1, <1>2, <2>1, <2>2 DEF Answers
<1>5. Answers(o, Len(published)) \subseteq Answers(o, Len(published))'
  <2>1. \A k \in job[j].start + 1 .. Len(published) : k \in job[j].start + 1 .. e /\ k \in 1 .. Len(published)
    BY <1>0, <1>1, <1>2
  <2>2. QED
    BY <1>1, <1>2, <2>1 DEF Answers
<1>6. \A i \in DOMAIN job[j].got : job[j].got[i] \in 1 .. Len(published)
  <2>1. \A i \in DOMAIN job[j].got : job[j].got[i] \in Answers(o, Len(published))
    BY DEF TakesOf, ToSet
  <2>2. QED
    BY <1>1, <1>2, <2>1 DEF Answers
<1>7. /\ Increasing(job'[j].got) /\ ToSet(job'[j].got) \subseteq Answers(o, Len(published))'
      /\ \A x \in Answers(o, Len(published))' \ ToSet(job'[j].got), i \in DOMAIN job'[j].got : job'[j].got[i] < x
  <2>1. \A i \in DOMAIN job[j].got : job[j].got[i] < e
    BY <1>0, <1>1, <1>6
  <2>2. QED
    BY <1>4, <1>5, <2>1 DEF TakesOf, Increasing
<1>8. ASSUME job'[j].stage \in {"leave", "done"}
      PROVE  /\ Len(job'[j].got) <= Wanted(j)
             /\ Len(job'[j].got) < Wanted(j) =>
                  job'[j].cut \/ ToSet(job'[j].got) = Answers(o, job[j].end)'
  <2>1. job[j].stage \in {"leave", "done"}
    BY <1>8
  <2>2. /\ Len(job[j].got) <= Wanted(j) /\ job[j].end <= Len(published)
        /\ Len(job[j].got) < Wanted(j) => job[j].cut \/ ToSet(job[j].got) = Answers(o, job[j].end)
    BY <2>1 DEF TakesOf
  <2>3. Answers(o, job[j].end)' = Answers(o, job[j].end)
    <3>1. \A n \in Nat : n <= Len(published) => Answers(o, n)' = Answers(o, n)
      BY <1>3
    <3>2. PICK n \in Nat : n = job[j].end
      BY <1>2
    <3>3. Answers(o, n)' = Answers(o, n)
      BY <2>2, <3>1, <3>2
    <3>4. QED
      BY <3>2, <3>3 DEF Answers
  <2>4. QED
    BY <2>2, <2>3
<1>9. {x \in ToSet(job'[j].got) : published'[x].yes} = {x \in ToSet(job[j].got) : published[x].yes}
  <2>1. \A x \in ToSet(job[j].got) : x \in 1 .. Len(published)
    BY <1>6 DEF ToSet
  <2>2. QED
    BY <1>1, <2>1
<1>10. job'[j].end <= Len(published')
  BY <1>0, <1>1, <1>2 DEF TakesOf
<1>11. QED
  BY <1>7, <1>8, <1>9, <1>10 DEF TakesOf, Answers

LEMMA PublishSteps ==
  ASSUME published \in Seq(Event), NEW a \in Agents, NEW yes \in BOOLEAN, Publish(a, yes),
         JobTypes, NEW j \in Jobs, StepsOf(j), job'[j] = job[j]
  PROVE  StepsOf(j)'
<1>1. /\ published' \in Seq(Event) /\ Len(published) \in Nat /\ Len(published') = Len(published) + 1
      /\ \A k \in 1 .. Len(published) : published'[k] = published[k]
  BY PublishedIs
<1>2. job[j].start \in Nat
  BY DEF JobTypes, Record
<1>3. /\ \A i \in DOMAIN job[j].sent : /\ job[j].sent[i] \in job[j].start + 1 .. Len(published')
                                      /\ job[j].sent[i] \in 1 .. Len(published)
      /\ \A i \in DOMAIN job[j].got : /\ job[j].got[i] \in 1 .. Len(published')
                                     /\ job[j].got[i] \in 1 .. Len(published)
  BY <1>1, <1>2 DEF StepsOf
<1>4. InStages(j)'
  BY <1>1, <1>3 DEF InStages, StepsOf
<1>5. QED
  BY <1>3, <1>4 DEF StepsOf

LEMMA TypesPublish ==
  ASSUME JobTypes, CallbacksOnce, published \in Seq(Event),
         NEW a \in Agents, NEW yes \in BOOLEAN, Publish(a, yes)
  PROVE  tasks' \subseteq JobOwners \X (1 .. Len(published'))
<1>1. /\ Len(published) \in Nat /\ Len(published') = Len(published) + 1
      /\ tasks' = tasks \cup {<<c[2], Len(published) + 1>> : c \in callbacks}
  BY PublishedIs
<1>2. \A c \in callbacks : c[2] \in JobOwners
  BY DEF CallbacksOnce
<1>3. 1 .. Len(published) \subseteq 1 .. Len(published') /\ Len(published) + 1 \in 1 .. Len(published')
  BY <1>1
<1>4. QED
  BY <1>1, <1>2, <1>3 DEF JobTypes

LEMMA OncePublish ==
  ASSUME JobTypes, CallbacksOnce, published \in Seq(Event), inbox' = inbox,
         NEW a \in Agents, NEW yes \in BOOLEAN, Publish(a, yes),
         \A j \in Jobs : job'[j] = job[j] \/ job'[j].stage # "idle"
  PROVE  CallbacksOnce'
<1>1. /\ UNCHANGED <<callbacks, taken>>
      /\ tasks' = tasks \cup {<<c[2], Len(published) + 1>> : c \in callbacks}
  BY PublishedIs
<1>2. ASSUME NEW o \in JobOwners, job'[o[1]].stage = "idle"
      PROVE  job'[o[1]] = job[o[1]] /\ \A t \in tasks' : t[1] # o
  <2>1. job'[o[1]] = job[o[1]]
    BY <1>2, OwnersAre
  <2>2. (\A c \in callbacks : c[2] # o) /\ \A t \in tasks : t[1] # o
    BY <1>2, <2>1 DEF CallbacksOnce
  <2>3. \A c \in callbacks : <<c[2], Len(published) + 1>>[1] = c[2]
    OBVIOUS
  <2>4. QED
    BY <1>1, <2>1, <2>2, <2>3
<1>3. QED
  BY <1>1, <1>2 DEF CallbacksOnce

\* An agent writes.
LEMMA WriteKeeps ==
  ASSUME JobInv, published \in Seq(Event), NEW a \in Agents, Write(a)
  PROVE  JobInv'
<1>1. PICK yes \in BOOLEAN : Publish(a, yes)
  BY DEF Write
<1>2. UNCHANGED <<job, inbox>>
  BY DEF Write
<1>3. JobTypes'
  BY <1>1, <1>2, TypesPublish DEF JobInv, JobTypes
<1>4. CallbacksOnce'
  BY <1>1, <1>2, OncePublish DEF JobInv
<1>5. Hears'
  <2> SUFFICES ASSUME NEW o \in JobOwners, job[o[1]].stage \in Live PROVE HearsOf(o)'
    BY <1>2 DEF Hears
  <2>1. HearsOf(o) /\ JobTypes /\ CallbacksOnce
    BY DEF JobInv, Hears
  <2>2. Got(o)' = Got(o) /\ job[o[1]].start \in Nat
    BY <1>2, <2>1, OwnersAre DEF Got, JobTypes, Record
  <2>3. QED
    BY <1>1, <1>2, <2>1, <2>2, HearsPublished
<1>6. JobsSound'
  <2> SUFFICES ASSUME NEW j \in Jobs PROVE IF Kind[j] = "pipeline" THEN StepsOf(j)' ELSE TakesOf(j)'
    BY DEF JobsSound
  <2>1. IF Kind[j] = "pipeline" THEN StepsOf(j) ELSE TakesOf(j)
    BY DEF JobInv, JobsSound
  <2>2. QED
    BY <1>1, <1>2, <1>3, <2>1, PublishSteps, PublishTakes DEF JobInv
<1>7. QED
  BY <1>3, <1>4, <1>5, <1>6 DEF JobInv

\* An agent of the job writes, which its own callbacks hear of too.
LEMMA SendKeeps ==
  ASSUME JobInv, published \in Seq(Event), NEW j \in Jobs, Send(j)
  PROVE  JobInv' /\ Members[j][job[j].step] \in Agents
<1> DEFINE a == Members[j][job[j].step]
<1>1. a \in Agents /\ job \in [Jobs -> Record] /\ job[j] \in Record /\ job[j].step \in 1 .. Size(j)
  BY MembersAre DEF JobInv, JobTypes
<1>2. /\ Publish(a, FALSE) /\ inbox' = inbox /\ job[j].stage = "send"
      /\ job' = [job EXCEPT ![j].stage = "sending", ![j].sent = Append(@, Len(published) + 1)]
  BY DEF Send
<1>3. /\ published' \in Seq(Event) /\ Len(published) \in Nat /\ Len(published') = Len(published) + 1
      /\ \A k \in 1 .. Len(published) : published'[k] = published[k]
      /\ published'[Len(published) + 1].by = a
  BY <1>1, <1>2, PublishedIs
<1> DEFINE s == Append(job[j].sent, Len(published) + 1)
<1>4. /\ job[j].sent \in Seq(Nat) /\ Len(published) + 1 \in Nat
      /\ s \in Seq(Nat) /\ Len(s) = Len(job[j].sent) + 1 /\ Len(job[j].sent) \in Nat
      /\ DOMAIN s = 1 .. Len(job[j].sent) + 1 /\ DOMAIN job[j].sent = 1 .. Len(job[j].sent)
      /\ \A i \in 1 .. Len(job[j].sent) : s[i] = job[j].sent[i]
      /\ s[Len(job[j].sent) + 1] = Len(published) + 1
  <2>1. job[j].sent \in Seq(Nat) /\ Len(published) + 1 \in Nat
    BY <1>1, <1>3 DEF Record
  <2>2. QED
    BY <2>1, AppendOf
<1> HIDE DEF s
<1>5. job' = [job EXCEPT ![j] = [job[j] EXCEPT !.stage = "sending", !.sent = s]]
  BY <1>1, <1>2 DEF s
<1>6. [job[j] EXCEPT !.stage = "sending", !.sent = s] \in Record
  BY <1>1, <1>4 DEF Record, Stages
<1>7. /\ job' \in [Jobs -> Record] /\ \A i \in Jobs \ {j} : job'[i] = job[i]
      /\ job'[j] = [job[j] EXCEPT !.stage = "sending", !.sent = s]
  BY <1>1, <1>5, <1>6
<1>8. /\ job'[j].stage = "sending" /\ job'[j].sent = s /\ job'[j].step = job[j].step
      /\ job'[j].start = job[j].start /\ job'[j].end = job[j].end /\ job'[j].got = job[j].got
      /\ job'[j].cut = job[j].cut /\ job'[j].result = job[j].result
  BY <1>1, <1>7 DEF Record
<1>9. JobTypes'
  <2>1. \A i \in Jobs : job'[i].step \in 1 .. Size(i)
    BY <1>7, <1>8 DEF JobInv, JobTypes
  <2>2. QED
    BY <1>1, <1>2, <1>7, <2>1, TypesPublish DEF JobInv, JobTypes
<1>10. CallbacksOnce'
  BY <1>1, <1>2, <1>7, <1>8, OncePublish DEF JobInv
<1>11. Hears'
  <2> SUFFICES ASSUME NEW o \in JobOwners, job'[o[1]].stage \in Live PROVE HearsOf(o)'
    BY DEF Hears
  <2>1. o[1] \in Jobs /\ job[o[1]].stage \in Live
    BY <1>2, <1>7, OwnersAre DEF Live
  <2>2. HearsOf(o) /\ JobTypes /\ CallbacksOnce
    BY <2>1 DEF JobInv, Hears
  <2>3. job'[o[1]].got = job[o[1]].got /\ job'[o[1]].start = job[o[1]].start /\ job[o[1]].start \in Nat
    BY <1>7, <1>8, <2>1 DEF JobInv, JobTypes, Record
  <2>4. Got(o)' = Got(o)
    BY <2>3 DEF Got
  <2>5. QED
    BY <1>1, <1>2, <2>2, <2>3, <2>4, HearsPublished
<1>12. JobsSound'
  <2> SUFFICES ASSUME NEW i \in Jobs PROVE IF Kind[i] = "pipeline" THEN StepsOf(i)' ELSE TakesOf(i)'
    BY DEF JobsSound
  <2>1. IF Kind[i] = "pipeline" THEN StepsOf(i) ELSE TakesOf(i)
    BY DEF JobInv, JobsSound
  <2>2. CASE Kind[i] # "pipeline"
    <3>1. Kind[i] = "vote" => i # j
      BY <1>2, <2>1, <2>2 DEF TakesOf
    <3>2. QED
      BY <1>1, <1>2, <1>7, <1>8, <1>9, <2>1, <2>2, <3>1, PublishTakes DEF JobInv
  <2>3. CASE Kind[i] = "pipeline" /\ i # j
    BY <1>1, <1>2, <1>7, <2>1, <2>3, PublishSteps DEF JobInv
  <2>4. CASE Kind[i] = "pipeline" /\ i = j
    <3>1. /\ Len(job[j].sent) = job[j].step - 1 /\ Len(job[j].got) = job[j].step - 1
          /\ \A k \in DOMAIN job[j].sent : job[j].sent[k] \in job[j].start + 1 .. Len(published)
          /\ \A k \in DOMAIN job[j].got : job[j].got[k] \in 1 .. Len(published)
          /\ InStages(j) /\ job[j].start \in Nat
      BY <1>1, <1>2, <2>1, <2>4 DEF StepsOf, Record
    <3>2. job[j].step \in Nat /\ job[j].got \in Seq(Nat)
      BY <1>1 DEF Record
    <3>3. DOMAIN job[j].got = 1 .. job[j].step - 1 /\ Len(s) = job[j].step
      BY <1>4, <3>1, <3>2, LenProperties
    <3>4. \A k \in DOMAIN s : \/ k \in DOMAIN job[j].sent /\ s[k] = job[j].sent[k]
                              \/ k = job[j].step /\ s[k] = Len(published) + 1
      <4>1. Len(job[j].sent) + 1 = job[j].step
        BY <1>4, <3>1, <3>2
      <4>2. \A k \in DOMAIN s : k \in DOMAIN job[j].sent \/ k = Len(job[j].sent) + 1
        BY <1>4
      <4>3. QED
        BY <1>4, <4>1, <4>2
    <3>5. \A k \in DOMAIN job[j].sent : job[j].sent[k] \in 1 .. Len(published)
      BY <1>3, <3>1
    <3>6. \A k \in DOMAIN s : s[k] \in job[j].start + 1 .. Len(published')
      <4>1. job[j].start <= Len(published)
        <5>1. 2 \in Waiters(j)
          BY <2>4, MembersAre
        <5>2. <<j, 2>> \in JobOwners /\ <<j, 2>>[1] = j
          BY <5>1, OwnersAre
        <5>3. HearsOf(<<j, 2>>)
          BY <1>2, <5>2 DEF JobInv, Hears, Live
        <5>4. \E n \in job[j].start .. Len(published) : TRUE
          BY <5>2, <5>3 DEF HearsOf
        <5>5. QED
          BY <1>3, <3>1, <5>4
      <4>2. QED
        BY <1>3, <3>1, <3>4, <4>1
    <3>7. \A k \in DOMAIN s : published'[s[k]].by = Members[j][k]
      BY <1>3, <3>1, <3>4, <3>5 DEF InStages
    <3>8. ASSUME NEW k \in DOMAIN job[j].got
          PROVE  /\ job[j].got[k] \in 1 .. Len(published')
                 /\ job[j].start < job[j].got[k] /\ published'[job[j].got[k]].by = Members[j][k]
                 /\ k + 1 \in DOMAIN s => job[j].got[k] < s[k + 1] /\ s[k] < s[k + 1]
      <4>1. /\ job[j].got[k] \in 1 .. Len(published) /\ job[j].start < job[j].got[k]
            /\ published[job[j].got[k]].by = Members[j][k]
            /\ k + 1 \in DOMAIN job[j].sent => job[j].got[k] < job[j].sent[k + 1]
                                               /\ job[j].sent[k] < job[j].sent[k + 1]
        BY <3>1 DEF InStages
      <4>2. k \in DOMAIN job[j].sent /\ s[k] = job[j].sent[k] /\ s[k] \in 1 .. Len(published)
        BY <1>4, <3>1, <3>2, <3>3, <3>5
      <4>3. CASE k + 1 \in DOMAIN job[j].sent
        <5>1. s[k + 1] = job[j].sent[k + 1]
          BY <1>4, <4>3
        <5>2. QED
          BY <1>3, <4>1, <4>2, <4>3, <5>1
      <4>4. CASE k + 1 \notin DOMAIN job[j].sent
        <5>1. k + 1 \in DOMAIN s => s[k + 1] = Len(published) + 1
          BY <3>4, <4>4
        <5>2. QED
          BY <1>3, <4>1, <4>2, <5>1
      <4>5. QED
        BY <4>3, <4>4
    <3>9. InStages(j)'
      BY <1>8, <3>7, <3>8 DEF InStages
    <3>10. QED
      BY <1>8, <2>4, <3>1, <3>3, <3>6, <3>8, <3>9 DEF StepsOf
  <2>5. QED
    BY <2>2, <2>3, <2>4
<1>13. QED
  BY <1>1, <1>9, <1>10, <1>11, <1>12 DEF JobInv

\* A job moves on without a word: what it has taken and sent stays.
LEMMA MovesKeep ==
  ASSUME JobInv, NEW j \in Jobs, UNCHANGED <<callbacks, tasks, published, taken, inbox>>,
         job' \in [Jobs -> Record], \A i \in Jobs \ {j} : job'[i] = job[i],
         job'[j].got = job[j].got, job'[j].start = job[j].start, job'[j].step \in 1 .. Size(j),
         job[j].stage \in Live, job'[j].stage \in Live,
         IF Kind[j] = "pipeline" THEN StepsOf(j)' ELSE TakesOf(j)'
  PROVE  JobInv'
<1>1. JobTypes'
  BY DEF JobInv, JobTypes
<1>2. CallbacksOnce'
  <2>1. \A o \in JobOwners : job'[o[1]].stage = "idle" => job'[o[1]] = job[o[1]]
    BY OwnersAre DEF Live
  <2>2. QED
    BY <2>1 DEF JobInv, CallbacksOnce
<1>3. Hears'
  <2> SUFFICES ASSUME NEW o \in JobOwners, job'[o[1]].stage \in Live PROVE HearsOf(o)'
    BY DEF Hears
  <2>1. job[o[1]].stage \in Live /\ job'[o[1]].got = job[o[1]].got /\ job'[o[1]].start = job[o[1]].start
    BY OwnersAre
  <2>2. HearsOf(o) /\ Got(o)' = Got(o)
    BY <2>1 DEF JobInv, Hears, Got
  <2>3. QED
    BY <2>1, <2>2, HearsSame
<1>4. JobsSound'
  <2> SUFFICES ASSUME NEW i \in Jobs, i # j PROVE IF Kind[i] = "pipeline" THEN StepsOf(i)' ELSE TakesOf(i)'
    BY DEF JobsSound
  <2>1. job'[i] = job[i] /\ IF Kind[i] = "pipeline" THEN StepsOf(i) ELSE TakesOf(i)
    BY DEF JobInv, JobsSound
  <2>2. TakesOf(i)' <=> TakesOf(i)
    BY <2>1 DEF TakesOf, Answers, Increasing
  <2>3. StepsOf(i)' <=> StepsOf(i)
    BY <2>1 DEF StepsOf, InStages
  <2>4. QED
    BY <2>1, <2>2, <2>3
<1>5. QED
  BY <1>1, <1>2, <1>3, <1>4 DEF JobInv

LEMMA PublishFailsKeeps ==
  ASSUME JobInv, NEW j \in Jobs, PublishFails(j)
  PROVE  JobInv'
<1>1. /\ job \in [Jobs -> Record] /\ job[j] \in Record /\ job[j].stage = "send"
      /\ job' = [job EXCEPT ![j] = [job[j] EXCEPT !.stage = "fail"]]
      /\ UNCHANGED <<meshVars, inbox>>
  BY DEF JobInv, JobTypes, PublishFails
<1>2. [job[j] EXCEPT !.stage = "fail"] \in Record
  BY <1>1 DEF Record, Stages
<1>3. /\ job' \in [Jobs -> Record] /\ \A i \in Jobs \ {j} : job'[i] = job[i]
      /\ job'[j] = [job[j] EXCEPT !.stage = "fail"]
  BY <1>1, <1>2
<1>4. /\ job'[j].stage = "fail" /\ job'[j].sent = job[j].sent /\ job'[j].step = job[j].step
      /\ job'[j].start = job[j].start /\ job'[j].end = job[j].end /\ job'[j].got = job[j].got
      /\ job'[j].cut = job[j].cut /\ job'[j].result = job[j].result
  BY <1>1, <1>3 DEF Record
<1>5. IF Kind[j] = "pipeline" THEN StepsOf(j) ELSE TakesOf(j)
  BY DEF JobInv, JobsSound
<1>6. Kind[j] # "pipeline" => TakesOf(j)'
  BY <1>1, <1>4, <1>5 DEF TakesOf, Answers, Increasing, meshVars
<1>7. Kind[j] = "pipeline" => StepsOf(j)'
  BY <1>1, <1>4, <1>5 DEF StepsOf, InStages, meshVars
<1>8. job[j].step \in 1 .. Size(j)
  BY DEF JobInv, JobTypes
<1>9. QED
  BY <1>1, <1>3, <1>4, <1>6, <1>7, <1>8, MovesKeep DEF Live, meshVars

LEMMA SentKeeps ==
  ASSUME JobInv, NEW j \in Jobs, Sent(j)
  PROVE  JobInv'
<1> DEFINE next == IF Kind[j] = "broadcast" \/ job[j].step < Size(j) THEN "wait" ELSE "leave"
           step == IF Kind[j] = "pipeline" /\ job[j].step < Size(j) THEN job[j].step + 1 ELSE job[j].step
<1>1. /\ job \in [Jobs -> Record] /\ job[j] \in Record /\ job[j].stage = "sending"
      /\ job' = [job EXCEPT ![j] = [job[j] EXCEPT !.stage = next, !.step = step]]
      /\ UNCHANGED <<meshVars, inbox>>
  BY DEF JobInv, JobTypes, Sent
<1>2. /\ next \in {"wait", "leave"} /\ job[j].step \in 1 .. Size(j) /\ Size(j) \in Nat
      /\ step \in 1 .. Size(j) /\ step \in Nat
      /\ Kind[j] = "pipeline" /\ next = "wait" => step = job[j].step + 1
  BY MembersAre DEF JobInv, JobTypes
<1> HIDE DEF step
<1>3. [job[j] EXCEPT !.stage = next, !.step = step] \in Record
  BY <1>1, <1>2 DEF Record, Stages
<1>4. /\ job' \in [Jobs -> Record] /\ \A i \in Jobs \ {j} : job'[i] = job[i]
      /\ job'[j] = [job[j] EXCEPT !.stage = next, !.step = step]
  BY <1>1, <1>3
<1>5. /\ job'[j].stage = next /\ job'[j].sent = job[j].sent /\ job'[j].step = step
      /\ job'[j].start = job[j].start /\ job'[j].end = job[j].end /\ job'[j].got = job[j].got
      /\ job'[j].cut = job[j].cut /\ job'[j].result = job[j].result
  BY <1>1, <1>4 DEF Record
<1>6. IF Kind[j] = "pipeline" THEN StepsOf(j) ELSE TakesOf(j)
  BY DEF JobInv, JobsSound
<1>7. ASSUME Kind[j] # "pipeline" PROVE TakesOf(j)'
  <2>1. next = "wait"
    BY <1>1, <1>6, <1>7, KindAssumption DEF TakesOf
  <2>2. QED
    BY <1>1, <1>5, <1>6, <1>7, <2>1 DEF TakesOf, Answers, Increasing, meshVars
<1>8. ASSUME Kind[j] = "pipeline" PROVE StepsOf(j)'
  <2>1. Len(job[j].sent) = job[j].step /\ Len(job[j].got) = job[j].step - 1 /\ InStages(j)
    BY <1>1, <1>6, <1>8 DEF StepsOf
  <2>2. InStages(j)'
    BY <1>1, <1>2, <1>5, <2>1 DEF InStages, meshVars
  <2>3. next = "wait" => step > 1 /\ Len(job[j].sent) = step - 1 /\ Len(job[j].got) = step - 2
    BY <1>2, <1>8, <2>1
  <2>4. QED
    BY <1>1, <1>2, <1>5, <1>6, <1>8, <2>2, <2>3 DEF StepsOf, meshVars
<1>9. QED
  BY <1>1, <1>2, <1>4, <1>5, <1>7, <1>8, MovesKeep DEF Live, meshVars

\* Nothing more has come, and nothing will of what was published.
LEMMA TimesOutKeeps ==
  ASSUME JobInv, published \in Seq(Event), NEW j \in Jobs, TimesOut(j)
  PROVE  JobInv'
<1> DEFINE o == Current(j)
           next == IF Kind[j] = "pipeline" THEN "raise" ELSE "leave"
           cut == o \in taken
<1>1. /\ job \in [Jobs -> Record] /\ job[j] \in Record /\ job[j].stage = "wait"
      /\ job' = [job EXCEPT ![j] = [job[j] EXCEPT !.stage = next, !.end = Len(published), !.cut = cut]]
      /\ inbox[o] = <<>> /\ (\A t \in tasks : t[1] # o)
      /\ UNCHANGED <<meshVars, inbox>>
  BY DEF JobInv, JobTypes, TimesOut
<1>2. next \in {"raise", "leave"} /\ cut \in BOOLEAN /\ Len(published) \in Nat
  BY EventsAre
<1>3. IF Kind[j] = "pipeline" THEN StepsOf(j) ELSE TakesOf(j)
  BY DEF JobInv, JobsSound
<1>4. /\ o \in JobOwners /\ o[1] = j /\ o[2] = IF Kind[j] = "pipeline" THEN job[j].step ELSE 1
      /\ o = <<o[1], o[2]>> /\ job[j].step \in 1 .. Size(j)
  BY <1>1, <1>3, CurrentIs, OwnersAre DEF StepsOf, JobInv, JobTypes
<1> HIDE DEF o, cut
<1>5. [job[j] EXCEPT !.stage = next, !.end = Len(published), !.cut = cut] \in Record
  BY <1>1, <1>2 DEF Record, Stages
<1>6. /\ job' \in [Jobs -> Record] /\ \A i \in Jobs \ {j} : job'[i] = job[i]
      /\ job'[j] = [job[j] EXCEPT !.stage = next, !.end = Len(published), !.cut = cut]
  BY <1>1, <1>5
<1>7. /\ job'[j].stage = next /\ job'[j].sent = job[j].sent /\ job'[j].step = job[j].step
      /\ job'[j].start = job[j].start /\ job'[j].end = Len(published) /\ job'[j].got = job[j].got
      /\ job'[j].cut = cut /\ job'[j].result = job[j].result
  BY <1>1, <1>6 DEF Record
<1>8. ~cut => Answers(o, Len(published)) = Got(o)
  <2>1. HearsOf(o)
    BY <1>1, <1>4 DEF JobInv, Hears, Live
  <2>2. ToSet(inbox[o]) = {} /\ Due(o) = {}
    <3>1. DOMAIN inbox[o] = {}
      BY <1>1, EmptySeq, LenProperties
    <3>2. \A e : <<o, e>>[1] = o
      OBVIOUS
    <3>3. QED
      BY <1>1, <3>1, <3>2 DEF ToSet, Due
  <2>3. QED
    BY <2>1, <2>2 DEF HearsOf, Heard, cut
<1>9. ASSUME Kind[j] # "pipeline" PROVE TakesOf(j)'
  <2>1. o = <<j, 1>> /\ Got(o) = ToSet(job[j].got)
    BY <1>4, <1>9 DEF Got
  <2>2. Len(job[j].got) < Wanted(j) /\ Wanted(j) \in Nat /\ Len(job[j].got) \in Nat
    BY <1>1, <1>3, <1>9, MembersAre, LenProperties DEF TakesOf, Record
  <2>3. cut \/ ToSet(job[j].got) = Answers(<<j, 1>>, Len(published))
    BY <1>8, <2>1
  <2>4. UNCHANGED published /\ next = "leave"
    BY <1>1, <1>9 DEF meshVars
  <2>5. /\ Answers(<<j, 1>>, Len(published))' = Answers(<<j, 1>>, Len(published))
        /\ Answers(<<j, 1>>, job[j].end)' = Answers(<<j, 1>>, Len(published))
    BY <1>7, <2>4 DEF Answers
  <2>6. /\ Increasing(job[j].got) /\ ToSet(job[j].got) \subseteq Answers(<<j, 1>>, Len(published))
        /\ \A e \in Answers(<<j, 1>>, Len(published)) \ ToSet(job[j].got), i \in DOMAIN job[j].got :
             job[j].got[i] < e
        /\ ~job[j].result
    BY <1>1, <1>3, <1>9 DEF TakesOf
  <2>7. Increasing(job'[j].got)
    BY <1>7, <2>6 DEF Increasing
  <2>8. Len(job[j].got) <= Wanted(j) /\ Len(published) <= Len(published)
    BY <1>2, <2>2
  <2>9. QED
    BY <1>7, <2>3, <2>4, <2>5, <2>6, <2>7, <2>8 DEF TakesOf
<1>10. ASSUME Kind[j] = "pipeline" PROVE StepsOf(j)'
  <2>1. /\ job[j].step > 1 /\ Len(job[j].sent) = job[j].step - 1 /\ Len(job[j].got) = job[j].step - 2
        /\ InStages(j) /\ job[j].step \in Nat
    BY <1>1, <1>3, <1>10 DEF StepsOf, Record
  <2>2. cut
    <3> SUFFICES ASSUME ~cut PROVE FALSE
      OBVIOUS
    <3>1. DOMAIN job[j].got = 1 .. job[j].step - 2 /\ DOMAIN job[j].sent = 1 .. job[j].step - 1
      BY <1>1, <2>1, LenProperties DEF Record
    <3>2. Got(o) = {}
      BY <1>4, <1>10, <2>1, <3>1 DEF Got
    <3>3. job[j].step - 1 \in DOMAIN job[j].sent
      BY <2>1, <3>1
    <3>4. /\ job[j].sent[job[j].step - 1] \in job[j].start + 1 .. Len(published)
          /\ published[job[j].sent[job[j].step - 1]].by = Members[j][job[j].step - 1]
      BY <1>3, <1>10, <3>3 DEF StepsOf, InStages
    <3>5. Awaited(o) = {Members[j][job[j].step - 1]}
      BY <1>4, <1>10 DEF Awaited
    <3>6. job[j].sent[job[j].step - 1] \in Answers(o, Len(published))
      BY <1>4, <3>4, <3>5 DEF Answers
    <3>7. QED
      BY <1>8, <3>2, <3>6
  <2>3. InStages(j)'
    BY <1>1, <1>7, <2>1, <2>2 DEF InStages, meshVars
  <2>4. QED
    BY <1>1, <1>3, <1>7, <1>10, <2>3 DEF StepsOf, meshVars
<1>11. QED
  BY <1>1, <1>2, <1>4, <1>6, <1>7, <1>9, <1>10, MovesKeep DEF Live, meshVars

LEMMA RunKeeps ==
  ASSUME JobInv, published \in Seq(Event), RunCallback
  PROVE  JobInv'
<1>1. PICK t \in tasks : (\A u \in tasks : t[2] <= u[2]) /\ Run(t)
  BY DEF RunCallback
<1>2. /\ tasks' = tasks \ {t} /\ UNCHANGED <<published, callbacks, taken, job>>
      /\ inbox' = IF published[t[2]].by \in Awaited(t[1]) THEN [inbox EXCEPT ![t[1]] = Append(@, t[2])]
                  ELSE inbox
  BY <1>1 DEF Run
<1>3. /\ t[1] \in JobOwners /\ t[2] \in Nat /\ inbox \in [JobOwners -> Seq(Nat)]
  BY EventsAre DEF JobInv, JobTypes
<1>4. JobTypes'
  <2>1. Append(inbox[t[1]], t[2]) \in Seq(Nat)
    BY <1>3, AppendOf
  <2>2. inbox' \in [JobOwners -> Seq(Nat)]
    BY <1>2, <1>3, <2>1
  <2>3. QED
    BY <1>2, <2>2 DEF JobInv, JobTypes
<1>5. CallbacksOnce'
  <2>1. \A o \in JobOwners : job[o[1]].stage = "idle" => inbox'[o] = inbox[o]
    BY <1>2, <1>3 DEF JobInv, CallbacksOnce
  <2>2. QED
    BY <1>2, <2>1 DEF JobInv, CallbacksOnce
<1>6. Hears'
  BY <1>1, <1>2, HearsRun DEF Hears, JobInv
<1>7. JobsSound'
  <2>1. \A j : TakesOf(j)' <=> TakesOf(j)
    BY <1>2 DEF TakesOf, Answers, Increasing
  <2>2. \A j : StepsOf(j)' <=> StepsOf(j)
    BY <1>2 DEF StepsOf, InStages
  <2>3. QED
    BY <2>1, <2>2 DEF JobInv, JobsSound
<1>8. QED
  BY <1>4, <1>5, <1>6, <1>7 DEF JobInv

\* It takes the oldest that it has not taken.
LEMMA TakeKeeps ==
  ASSUME JobInv, published \in Seq(Event), NEW j \in Jobs, Take(j)
  PROVE  JobInv'
<1> DEFINE o == Current(j)
           h == Head(inbox[o])
           got == Append(job[j].got, h)
<1>1. IF Kind[j] = "pipeline" THEN StepsOf(j) ELSE TakesOf(j)
  BY DEF JobInv, JobsSound
<1>2. job[j].stage = "wait"
  BY DEF Take
<1>3. Kind[j] = "pipeline" => job[j].step > 1 /\ Len(job[j].got) = job[j].step - 2
  BY <1>1, <1>2 DEF StepsOf
<1>4. /\ o \in JobOwners /\ o[1] = j
      /\ inbox[o] \in Seq(Nat) /\ inbox[o] # <<>> /\ h \in Nat
      /\ inbox' = [inbox EXCEPT ![o] = Tail(inbox[o])]
      /\ \A i \in Jobs \ {j} : job'[i] = job[i]
      /\ job' \in [Jobs -> Record]
      /\ job'[j].got = got /\ job[j].got \in Seq(Nat)
      /\ job'[j].stage = IF Kind[j] = "pipeline" THEN "send"
                         ELSE IF Len(job[j].got) + 1 = Wanted(j) THEN "leave" ELSE "wait"
      /\ job'[j].step = job[j].step /\ job'[j].start = job[j].start /\ job'[j].end = job[j].end
      /\ job'[j].sent = job[j].sent /\ job'[j].cut = job[j].cut
      /\ job'[j].result = job[j].result
      /\ UNCHANGED <<callbacks, tasks, published, taken>>
  BY <1>3, TakeIs DEF JobInv, meshVars
<1>5. o[2] = IF Kind[j] = "pipeline" THEN job[j].step ELSE 1
  BY <1>3, CurrentIs DEF JobInv, JobTypes
<1> HIDE DEF h, o
<1>6. /\ got \in Seq(Nat) /\ Len(got) = Len(job[j].got) + 1 /\ Len(job[j].got) \in Nat
      /\ DOMAIN got = 1 .. Len(job[j].got) + 1 /\ DOMAIN job[j].got = 1 .. Len(job[j].got)
      /\ \A i \in 1 .. Len(job[j].got) : got[i] = job[j].got[i]
      /\ got[Len(job[j].got) + 1] = h
      /\ ToSet(got) = ToSet(job[j].got) \cup {h}
      /\ Increasing(job[j].got) /\ (\A x \in ToSet(job[j].got) : x < h) => Increasing(got)
  <2>1. h \in Nat /\ job[j].got \in Seq(Nat)
    BY <1>4
  <2>2. QED
    BY <2>1, AppendOf
<1> HIDE DEF got
<1>7. JobTypes'
  <2>1. Tail(inbox[o]) \in Seq(Nat) /\ inbox \in [JobOwners -> Seq(Nat)]
    BY <1>4, TailOf DEF JobInv, JobTypes
  <2>2. inbox' \in [JobOwners -> Seq(Nat)] /\ \A i \in Jobs : job'[i].step = job[i].step
    BY <1>4, <2>1
  <2>3. QED
    BY <1>4, <2>2 DEF JobInv, JobTypes
<1>8. CallbacksOnce'
  <2>1. ASSUME NEW p \in JobOwners, job'[p[1]].stage = "idle"
        PROVE  job'[p[1]] = job[p[1]] /\ inbox'[p] = inbox[p]
    <3>1. p[1] # j
      BY <1>4, <2>1
    <3>2. QED
      BY <1>4, <3>1, OwnersAre DEF JobInv, JobTypes
  <2>2. \A c \in callbacks' : c[2] \in JobOwners /\ c[1] = Members[c[2][1]][c[2][2]] /\ c[2] \notin taken'
    BY <1>4 DEF JobInv, CallbacksOnce
  <2>3. ASSUME NEW p \in JobOwners, job'[p[1]].stage = "idle"
        PROVE  /\ job'[p[1]] = Fresh /\ inbox'[p] = <<>> /\ p \notin taken'
               /\ \A c \in callbacks' : c[2] # p
               /\ \A t \in tasks' : t[1] # p
    <3>1. job'[p[1]] = job[p[1]] /\ inbox'[p] = inbox[p] /\ job[p[1]].stage = "idle"
      BY <2>1, <2>3
    <3>2. /\ job[p[1]] = Fresh /\ inbox[p] = <<>> /\ p \notin taken
          /\ \A c \in callbacks : c[2] # p
          /\ \A t \in tasks : t[1] # p
      BY <3>1 DEF JobInv, CallbacksOnce
    <3>3. QED
      BY <1>4, <3>1, <3>2
  <2>4. QED
    BY <2>2, <2>3 DEF CallbacksOnce
<1>9. Hears'
  <2> SUFFICES ASSUME NEW p \in JobOwners, job'[p[1]].stage \in Live PROVE HearsOf(p)'
    BY DEF Hears
  <2>1. job[p[1]].stage \in Live
    BY <1>2, <1>4, OwnersAre DEF Live
  <2>2. QED
    BY <1>3, <2>1, HearsTake DEF JobInv, Hears
<1>10. HearsOf(o)
  BY <1>2, <1>4 DEF JobInv, Hears, Live
<1>11. /\ h \in Heard(o) /\ \A x \in Heard(o) : x \in Got(o) \/ x = h \/ h < x
       /\ \A x \in Got(o) : x < h
  <2>1. ToSet(inbox[o]) = {h} \cup ToSet(Tail(inbox[o])) /\ \A y \in ToSet(Tail(inbox[o])) : h < y
    BY <1>4, <1>10, TailOf DEF HearsOf, h
  <2>2. QED
    BY <1>10, <2>1 DEF HearsOf, Heard
<1>12. PICK n \in job[j].start .. Len(published) : Heard(o) = Answers(o, n)
  BY <1>4, <1>10 DEF HearsOf
<1>13. Len(published) \in Nat /\ job[j].start \in Nat
  BY EventsAre DEF JobInv, JobTypes, Record
<1>14. \A x : x \in Answers(o, Len(published)) <=> x \in Heard(o) \/ (x > n /\ x \in Answers(o, Len(published)))
  BY <1>4, <1>12, <1>13 DEF Answers
<1>15. h \in Answers(o, Len(published)) /\ h <= n
  BY <1>4, <1>11, <1>12, <1>13 DEF Answers
<1>16. \A x : Answers(<<j, x>>, Len(published))' = Answers(<<j, x>>, Len(published))
  BY <1>4 DEF Answers
<1>17. ASSUME Kind[j] # "pipeline" PROVE TakesOf(j)'
  <2>1. o = <<j, 1>> /\ Got(o) = ToSet(job[j].got)
    BY <1>4, <1>5, <1>17, OwnersAre DEF Got
  <2>2. /\ Increasing(job[j].got) /\ ToSet(job[j].got) \subseteq Answers(o, Len(published))
        /\ Len(job[j].got) < Wanted(j) /\ ~job[j].result
    BY <1>1, <1>2, <1>17, <2>1 DEF TakesOf
  <2>3. Increasing(got) /\ ToSet(got) \subseteq Answers(o, Len(published))
    BY <1>6, <1>11, <1>15, <2>1, <2>2
  <2>4. \A x \in Answers(o, Len(published)) \ ToSet(got), y \in ToSet(got) : y < x
    <3> SUFFICES ASSUME NEW x \in Answers(o, Len(published)), x \notin ToSet(got), NEW y \in ToSet(got)
                 PROVE y < x
      OBVIOUS
    <3>1. x \in Int /\ y \in Int /\ h \in Int /\ n \in Int
      BY <1>4, <1>12, <1>13, <2>3 DEF Answers
    <3>2. y <= h
      <4>1. CASE y = h
        BY <3>1, <4>1
      <4>2. CASE y \in Got(o)
        BY <1>11, <3>1, <4>2
      <4>3. QED
        BY <1>6, <2>1, <4>1, <4>2
    <3>3. h < x
      BY <1>6, <1>11, <1>14, <1>15, <2>1, <3>1
    <3>4. QED
      BY <3>1, <3>2, <3>3
  <2>5. \A x \in Answers(o, Len(published)) \ ToSet(got), i \in DOMAIN got : got[i] < x
    BY <2>4 DEF ToSet
  <2>6. Wanted(j) \in Nat
    BY MembersAre
  <2>7. IF Len(job[j].got) + 1 = Wanted(j) THEN Len(got) = Wanted(j) ELSE Len(got) < Wanted(j)
    BY <1>6, <2>2, <2>6
  <2>8. job[j].end <= Len(published) /\ Kind[j] \in {"vote", "broadcast"}
    BY <1>1, <1>17, KindAssumption DEF TakesOf
  <2>9. Answers(<<j, 1>>, Len(published))' = Answers(o, Len(published))
    BY <1>16, <2>1
  <2>10. Len(got) <= Wanted(j)
    BY <1>6, <2>2, <2>6
  <2>11. ~(Len(got) < Wanted(j)) \/ job'[j].stage = "wait"
    BY <1>4, <1>6, <1>17, <2>6
  <2>12. job'[j].stage = "wait" => Len(got) < Wanted(j)
    BY <1>4, <1>17, <2>7
  <2>13. Increasing(job'[j].got)
    BY <1>4, <2>3 DEF Increasing
  <2>14. job'[j].stage \in {"wait", "leave"}
    BY <1>4, <1>17
  <2>15. QED
    BY <1>4, <2>2, <2>3, <2>5, <2>8, <2>9, <2>10, <2>11, <2>12, <2>13, <2>14 DEF TakesOf
<1>18. ASSUME Kind[j] = "pipeline" PROVE StepsOf(j)'
  <2>1. /\ Len(job[j].got) = job[j].step - 2 /\ Len(job[j].sent) = job[j].step - 1
        /\ InStages(j) /\ job[j].step \in Nat /\ job[j].step > 1
        /\ \A i \in DOMAIN job[j].got : job[j].got[i] \in 1 .. Len(published)
        /\ \A i \in DOMAIN job[j].sent : job[j].sent[i] \in job[j].start + 1 .. Len(published)
    BY <1>1, <1>2, <1>18 DEF StepsOf, JobInv, JobTypes, Record
  <2>2. DOMAIN job[j].sent = 1 .. job[j].step - 1
    BY <2>1, LenProperties DEF JobInv, JobTypes, Record
  <2>3. Awaited(o) = {Members[j][job[j].step - 1]}
    BY <1>4, <1>5, <1>18 DEF Awaited
  <2>4. /\ h \in 1 .. Len(published) /\ job[j].start < h
        /\ published[h].by = Members[j][job[j].step - 1]
    BY <1>4, <1>13, <1>15, <2>3 DEF Answers
  <2>5. ASSUME NEW i \in DOMAIN got
        PROVE  /\ got[i] \in 1 .. Len(published) /\ job[j].start < got[i]
               /\ published[got[i]].by = Members[j][i]
               /\ i + 1 \in DOMAIN job[j].sent =>
                    got[i] < job[j].sent[i + 1] /\ job[j].sent[i] < job[j].sent[i + 1]
    <3>1. CASE i \in DOMAIN job[j].got
      BY <1>6, <2>1, <3>1 DEF InStages
    <3>2. CASE i \notin DOMAIN job[j].got
      <4>1. i = Len(job[j].got) + 1 /\ i = job[j].step - 1
        BY <1>6, <2>1, <3>2
      <4>2. i + 1 \notin DOMAIN job[j].sent
        BY <2>1, <2>2, <4>1
      <4>3. got[i] = h
        BY <1>6, <4>1
      <4>4. QED
        BY <2>4, <4>1, <4>2, <4>3
    <3>3. QED
      BY <3>1, <3>2
  <2>6. InStages(j)'
    BY <1>4, <1>18, <2>1, <2>5 DEF InStages
  <2>7. Len(got) = job[j].step - 1
    BY <1>6, <2>1
  <2>8. QED
    BY <1>4, <1>18, <2>1, <2>5, <2>6, <2>7 DEF StepsOf
<1>19. JobsSound'
  <2> SUFFICES ASSUME NEW i \in Jobs, i # j PROVE IF Kind[i] = "pipeline" THEN StepsOf(i)' ELSE TakesOf(i)'
    BY <1>17, <1>18 DEF JobsSound
  <2>1. job'[i] = job[i] /\ published' = published /\ IF Kind[i] = "pipeline" THEN StepsOf(i) ELSE TakesOf(i)
    BY <1>4 DEF JobInv, JobsSound
  <2>2. TakesOf(i)' <=> TakesOf(i)
    BY <2>1 DEF TakesOf, Answers, Increasing
  <2>3. StepsOf(i)' <=> StepsOf(i)
    BY <2>1 DEF StepsOf, InStages
  <2>4. QED
    BY <2>1, <2>2, <2>3
<1>20. QED
  BY <1>7, <1>8, <1>9, <1>19 DEF JobInv

\* A job subscribes its callbacks before the first event that it waits for.
LEMMA StartKeeps ==
  ASSUME JobInv, published \in Seq(Event), NEW j \in Jobs, Start(j)
  PROVE  JobInv'
<1> DEFINE next == IF Kind[j] = "vote" THEN "wait" ELSE "send"
           mine == {<<Members[j][i], <<j, i>>>> : i \in Waiters(j)}
<1>1. /\ job[j] = Fresh /\ callbacks' = callbacks \cup mine
      /\ job' = [job EXCEPT ![j].stage = next, ![j].start = Len(published)]
      /\ UNCHANGED <<inbox, tasks, published, taken>>
  BY DEF Start, SubscribeCallbacks
<1>2. job \in [Jobs -> Record] /\ job[j] \in Record /\ Len(published) \in Nat
  BY EventsAre DEF JobInv, JobTypes
<1>3. job' = [job EXCEPT ![j] = [job[j] EXCEPT !.stage = next, !.start = Len(published)]]
  BY <1>1, <1>2
<1>4. [job[j] EXCEPT !.stage = next, !.start = Len(published)] \in Record
  BY <1>2 DEF Record, Stages
<1>5. /\ job' \in [Jobs -> Record] /\ \A i \in Jobs \ {j} : job'[i] = job[i]
      /\ job'[j] = [job[j] EXCEPT !.stage = next, !.start = Len(published)]
  BY <1>2, <1>3, <1>4
<1>6. /\ job'[j].stage = next /\ job'[j].sent = <<>> /\ job'[j].step = 1
      /\ job'[j].start = Len(published) /\ job'[j].end = 0 /\ job'[j].got = <<>>
      /\ job'[j].cut = FALSE /\ job'[j].result = FALSE
      /\ job[j].stage = "idle" /\ job[j].got = <<>>
  BY <1>1, <1>5 DEF Fresh
<1>7. JobTypes'
  <2>1. ASSUME NEW i \in Jobs PROVE job'[i].step \in 1 .. Size(i)
    <3>1. CASE i # j
      BY <1>5, <3>1 DEF JobInv, JobTypes
    <3>2. CASE i = j
      <4>1. Size(j) \in Nat /\ Size(j) > 1
        BY MembersAre
      <4>2. QED
        BY <1>6, <3>2, <4>1
    <3>3. QED
      BY <3>1, <3>2
  <2>2. QED
    BY <1>1, <1>5, <2>1 DEF JobInv, JobTypes
<1>8. \A i \in Waiters(j) : /\ <<j, i>> \in JobOwners /\ <<j, i>>[1] = j /\ <<j, i>>[2] = i
                           /\ <<Members[j][i], <<j, i>>>>[1] = Members[j][i]
                           /\ <<Members[j][i], <<j, i>>>>[2] = <<j, i>>
                           /\ <<j, i>> \notin taken /\ inbox[<<j, i>>] = <<>>
                           /\ \A t \in tasks : t[1] # <<j, i>>
  BY <1>6, OwnersAre DEF JobInv, CallbacksOnce
<1>9. CallbacksOnce'
  <2>1. ASSUME NEW c \in callbacks'
        PROVE  c[2] \in JobOwners /\ c[1] = Members[c[2][1]][c[2][2]] /\ c[2] \notin taken'
    <3>1. CASE c \in callbacks
      BY <1>1, <3>1 DEF JobInv, CallbacksOnce
    <3>2. CASE c \in mine
      BY <1>1, <1>8, <3>2
    <3>3. QED
      BY <1>1, <2>1, <3>1, <3>2
  <2>2. ASSUME NEW p \in JobOwners, job'[p[1]].stage = "idle"
        PROVE  /\ job'[p[1]] = Fresh /\ inbox'[p] = <<>> /\ p \notin taken'
               /\ \A c \in callbacks' : c[2] # p
               /\ \A t \in tasks' : t[1] # p
    <3>1. p[1] # j
      BY <1>6, <2>2
    <3>2. job'[p[1]] = job[p[1]] /\ job[p[1]].stage = "idle"
      BY <1>5, <2>2, <3>1, OwnersAre
    <3>3. /\ job[p[1]] = Fresh /\ inbox[p] = <<>> /\ p \notin taken
          /\ \A c \in callbacks : c[2] # p
          /\ \A t \in tasks : t[1] # p
      BY <3>2 DEF JobInv, CallbacksOnce
    <3>4. \A c \in mine : c[2] # p
      BY <1>8, <3>1
    <3>5. QED
      BY <1>1, <3>2, <3>3, <3>4
  <2>3. QED
    BY <2>1, <2>2 DEF CallbacksOnce
<1>10. ToSet(<<>>) = {} /\ Len(<<>>) = 0 /\ DOMAIN <<>> = {} /\ Increasing(<<>>)
  <2>1. <<>> \in Seq(Nat) /\ Len(<<>>) = 0
    BY EmptySeq
  <2>2. DOMAIN <<>> = {}
    BY <2>1, LenProperties
  <2>3. QED
    BY <2>1, <2>2 DEF ToSet, Increasing
<1>11. Hears'
  <2> SUFFICES ASSUME NEW p \in JobOwners, job'[p[1]].stage \in Live PROVE HearsOf(p)'
    BY DEF Hears
  <2>1. p[1] \in Jobs /\ p[2] \in Waiters(p[1]) /\ p = <<p[1], p[2]>>
    BY OwnersAre
  <2>2. CASE p[1] # j
    <3>1. job'[p[1]] = job[p[1]]
      BY <1>5, <2>1, <2>2
    <3>2. HearsOf(p) /\ Got(p)' = Got(p)
      BY <3>1 DEF JobInv, Hears, Got
    <3>3. QED
      BY <1>1, <3>1, <3>2, HearsSame
  <2>3. CASE p[1] = j
    <3>1. <<Members[p[1]][p[2]], p>> \in callbacks' /\ inbox'[p] = <<>> /\ p \notin taken' /\ \A t \in tasks : t[1] # p
      BY <1>1, <1>8, <2>1, <2>3
    <3>2. Got(p)' = {}
      BY <1>6, <1>10, <2>3 DEF Got
    <3>3. Due(p)' = {}
      <4>1. \A k : <<p, k>>[1] = p
        OBVIOUS
      <4>2. QED
        BY <1>1, <3>1, <4>1 DEF Due
    <3>4. Heard(p)' = {} /\ ToSet(inbox'[p]) = {} /\ Increasing(inbox'[p])
      BY <1>10, <3>1, <3>2, <3>3 DEF Heard, Increasing
    <3>5. Answers(p, Len(published))' = {}
      BY <1>1, <1>2, <1>6, <2>3 DEF Answers
    <3>6. job'[p[1]].start = Len(published') /\ Len(published') \in Nat
      BY <1>1, <1>2, <1>6, <2>3
    <3>7. \E n \in job'[p[1]].start .. Len(published') :
             Heard(p)' = Answers(p, n)' /\ (p \notin taken' => n = Len(published'))
      <4>1. PICK n : n = Len(published)
        OBVIOUS
      <4>2. Answers(p, n)' = {}
        BY <1>1, <1>2, <1>6, <2>3, <4>1 DEF Answers
      <4>3. n \in job'[p[1]].start .. Len(published') /\ n = Len(published')
        BY <1>1, <1>2, <3>6, <4>1
      <4>4. QED
        BY <3>4, <4>2, <4>3
    <3>8. QED
      BY <3>1, <3>2, <3>3, <3>4, <3>7 DEF HearsOf
  <2>4. QED
    BY <2>2, <2>3
<1>12. JobsSound'
  <2> SUFFICES ASSUME NEW i \in Jobs PROVE IF Kind[i] = "pipeline" THEN StepsOf(i)' ELSE TakesOf(i)'
    BY DEF JobsSound
  <2>1. CASE i # j
    <3>1. job'[i] = job[i] /\ published' = published /\ IF Kind[i] = "pipeline" THEN StepsOf(i) ELSE TakesOf(i)
      BY <1>1, <1>5, <2>1 DEF JobInv, JobsSound
    <3>2. TakesOf(i)' <=> TakesOf(i)
      BY <3>1 DEF TakesOf, Answers, Increasing
    <3>3. StepsOf(i)' <=> StepsOf(i)
      BY <3>1 DEF StepsOf, InStages
    <3>4. QED
      BY <3>1, <3>2, <3>3
  <2>2. CASE i = j
    <3>1. ASSUME Kind[j] = "pipeline" PROVE StepsOf(j)'
      BY <1>6, <1>10, <3>1 DEF StepsOf, InStages
    <3>2. ASSUME Kind[j] # "pipeline" PROVE TakesOf(j)'
      <4>1. 0 <= Len(published') /\ Len(<<>>) < Wanted(j)
        BY <1>1, <1>2, <1>10, MembersAre
      <4>2. Increasing(job'[j].got)
        BY <1>6, <1>10 DEF Increasing
      <4>3. QED
        BY <1>6, <1>10, <3>2, <4>1, <4>2 DEF TakesOf
    <3>3. QED
      BY <2>2, <3>1, <3>2
  <2>3. QED
    BY <2>1, <2>2
<1>13. QED
  BY <1>7, <1>9, <1>11, <1>12 DEF JobInv

\* More than half of all answers, then.
LEMMA MoreOf ==
  ASSUME NEW s \in Seq(Nat), NEW yes \in SUBSET ToSet(s), NEW Y \in SUBSET ToSet(s), yes \subseteq Y,
         2 * Cardinality(yes) > (IF s = <<>> THEN 1 ELSE Len(s))
  PROVE  2 * Cardinality(Y) > Len(s)
<1>1. Len(s) \in Nat /\ DOMAIN s = 1 .. Len(s)
  BY LenProperties
<1>2. ToSet(s) = {s[i] : i \in 1 .. Len(s)}
  BY <1>1 DEF ToSet
<1>3. IsFiniteSet(ToSet(s))
  <2>1. IsFiniteSet(1 .. Len(s))
    BY <1>1, FS_Interval
  <2> DEFINE f == [i \in 1 .. Len(s) |-> s[i]]
  <2>2. f \in Surjection(1 .. Len(s), ToSet(s))
    BY <1>2 DEF Surjection
  <2> HIDE DEF f
  <2>3. QED
    BY <2>1, <2>2, FS_Surjection
<1>4. IsFiniteSet(Y) /\ IsFiniteSet(yes)
  BY <1>3, FS_Subset
<1>5. Cardinality(yes) <= Cardinality(Y) /\ Cardinality(yes) \in Nat /\ Cardinality(Y) \in Nat
  BY <1>4, FS_Subset, FS_CardinalityType
<1>6. s = <<>> => Len(s) = 0
  BY EmptySeq
<1>7. QED
  BY <1>1, <1>5, <1>6

\* A job leaves: a vote has counted no answer that it does not have.
LEMMA LeaveKeeps ==
  ASSUME JobInv, published \in Seq(Event), NEW j \in Jobs, Leave(j)
  PROVE  JobInv' /\ {Members[j][i] : i \in Waiters(j)} \in SUBSET Agents
<1> DEFINE A == {Members[j][i] : i \in Waiters(j)}
           got == job[j].got
           votes(unread) == {e \in ToSet(got) : published[e].yes /\ e \notin unread}
           most == IF got = <<>> THEN 1 ELSE Len(got)
           next == CASE job[j].stage = "leave" -> "done" [] job[j].stage = "raise" -> "raised"
                     [] job[j].stage = "fail" -> "failed"
<1>1. A \in SUBSET Agents
  BY MembersAre
<1>2. /\ job[j].stage \in {"leave", "raise", "fail"} /\ Drop(A)
      /\ UNCHANGED <<tasks, published, inbox>>
  BY DEF Leave
<1>3. PICK unread \in SUBSET ToSet(got) :
         job' = [job EXCEPT ![j].stage = next,
                            ![j].result = Kind[j] = "vote" /\ 2 * Cardinality(votes(unread)) > most]
  BY DEF Leave
<1> DEFINE result == Kind[j] = "vote" /\ 2 * Cardinality(votes(unread)) > most
<1>4. job' = [job EXCEPT ![j].stage = next, ![j].result = result]
  BY <1>3
<1>5. job \in [Jobs -> Record] /\ job[j] \in Record /\ got \in Seq(Nat)
  BY DEF JobInv, JobTypes, Record
<1>6. next \in {"done", "raised", "failed"} /\ result \in BOOLEAN
  BY <1>2
<1>7. IF Kind[j] = "pipeline" THEN StepsOf(j) ELSE TakesOf(j)
  BY DEF JobInv, JobsSound
<1>8. /\ next = "done" => job[j].stage = "leave"
      /\ next = "raised" => job[j].stage = "raise"
  BY <1>2
<1>9. result => 2 * Cardinality({e \in ToSet(got) : published[e].yes}) > Len(got)
  <2> DEFINE Y == {e \in ToSet(got) : published[e].yes}
  <2>1. /\ votes(unread) \in SUBSET ToSet(got) /\ Y \in SUBSET ToSet(got)
        /\ votes(unread) \subseteq Y
    OBVIOUS
  <2>2. QED
    BY <1>5, <2>1, MoreOf
<1> HIDE DEF result, next
<1>10. job' = [job EXCEPT ![j] = [job[j] EXCEPT !.stage = next, !.result = result]]
  BY <1>5, <1>4
<1>11. [job[j] EXCEPT !.stage = next, !.result = result] \in Record
  BY <1>5, <1>6 DEF Record, Stages
<1>12. /\ job' \in [Jobs -> Record] /\ \A i \in Jobs \ {j} : job'[i] = job[i]
      /\ job'[j] = [job[j] EXCEPT !.stage = next, !.result = result]
  BY <1>5, <1>10, <1>11
<1>13. /\ job'[j].stage = next /\ job'[j].result = result
      /\ job'[j].got = got /\ job'[j].sent = job[j].sent /\ job'[j].step = job[j].step
      /\ job'[j].start = job[j].start /\ job'[j].end = job[j].end /\ job'[j].cut = job[j].cut
  BY <1>5, <1>12 DEF Record
<1>14. JobTypes'
  <2>1. \A i \in Jobs : job'[i].step = job[i].step
    BY <1>12, <1>13
  <2>2. QED
    BY <1>2, <1>12, <2>1 DEF JobInv, JobTypes
<1>15. ASSUME Kind[j] = "pipeline" PROVE StepsOf(j)'
  <2>1. InStages(j)'
    BY <1>2, <1>6, <1>13, <1>7, <1>8, <1>15 DEF StepsOf, InStages
  <2>2. QED
    BY <1>2, <1>6, <1>13, <1>7, <1>15, <2>1 DEF StepsOf
<1>16. ASSUME Kind[j] # "pipeline" PROVE TakesOf(j)'
  <2>1. \A n : Answers(<<j, 1>>, n)' = Answers(<<j, 1>>, n)
    BY <1>2, <1>13 DEF Answers
  <2>2. Answers(<<j, 1>>, Len(published))' = Answers(<<j, 1>>, Len(published))
    BY <1>2, <2>1
  <2>3. Answers(<<j, 1>>, job[j].end)' = Answers(<<j, 1>>, job[j].end)
    BY <1>2, <1>13 DEF Answers
  <2>4. /\ Increasing(got) /\ ToSet(got) \subseteq Answers(<<j, 1>>, Len(published))
        /\ \A e \in Answers(<<j, 1>>, Len(published)) \ ToSet(got), i \in DOMAIN got : got[i] < e
        /\ job[j].stage # "raise" /\ job[j].end <= Len(published)
        /\ job[j].stage = "leave" =>
             /\ Len(got) <= Wanted(j)
             /\ Len(got) < Wanted(j) => job[j].cut \/ ToSet(got) = Answers(<<j, 1>>, job[j].end)
    BY <1>7, <1>16 DEF TakesOf
  <2>5. Increasing(job'[j].got)
    BY <1>13, <2>4 DEF Increasing
  <2> HIDE DEF got
  <2>6. {e \in ToSet(got) : published[e].yes}' = {e \in ToSet(job'[j].got) : published[e].yes}
    BY <1>2 DEF got
  <2>7. QED
    BY <1>2, <1>6, <1>13, <1>8, <1>9, <2>2, <2>3, <2>4, <2>5 DEF TakesOf
<1>17. JobsSound'
  <2> SUFFICES ASSUME NEW i \in Jobs, i # j PROVE IF Kind[i] = "pipeline" THEN StepsOf(i)' ELSE TakesOf(i)'
    BY <1>15, <1>16 DEF JobsSound
  <2>1. job'[i] = job[i] /\ published' = published /\ IF Kind[i] = "pipeline" THEN StepsOf(i) ELSE TakesOf(i)
    BY <1>2, <1>12 DEF JobInv, JobsSound
  <2>2. TakesOf(i)' <=> TakesOf(i)
    BY <2>1 DEF TakesOf, Answers, Increasing
  <2>3. StepsOf(i)' <=> StepsOf(i)
    BY <2>1 DEF StepsOf, InStages
  <2>4. QED
    BY <2>1, <2>2, <2>3
<1>18. \A i \in Jobs :
         \/ job'[i] = job[i]
         \/ job[i].stage # "idle" /\ job'[i].stage \in {"done", "raised", "failed"}
  <2> SUFFICES ASSUME NEW i \in Jobs, i = j PROVE job[i].stage # "idle" /\ job'[i].stage \in {"done", "raised", "failed"}
    BY <1>12
  <2>1. QED
    BY <1>2, <1>6, <1>13
<1>19. JobInv'
  BY <1>1, <1>2, <1>14, <1>17, <1>18, DropJobs
<1>20. QED
  BY <1>1, <1>19

(***************************************************************************)
(* Every step, and what the runs check of it                               *)
(***************************************************************************)

AllInv == MeshInv /\ JobInv

\* A step that needs no job: a subscription, a poll, a watch.
LEMMA MeshStepKeeps ==
  ASSUME AllInv, MeshStep, UNCHANGED <<job, inbox>>
  PROVE  AllInv'
<1> USE DEF AllInv
<1>1. PICK a \in Agents :
         \/ Subscribe(a) \/ Posted(a) \/ Poll(a)
         \/ \E w \in Watches : StartWatch(w, a) \/ (watch[w].agent = a /\ (WatchNext(w) \/ EndWatch(w)))
  BY DEF MeshStep
<1>2. CASE Subscribe(a)
  BY <1>2, SubscribeKeeps, JobsStutter DEF Subscribe, jobKept
<1>3. CASE Posted(a)
  BY <1>3, MeshStutters, JobsStutter DEF Posted, jobKept, meshKept
<1>4. CASE Poll(a)
  BY <1>4, PollKeeps, JobsStutter DEF Poll, jobKept
<1>5. ASSUME NEW w \in Watches, StartWatch(w, a) PROVE AllInv'
  BY <1>5, StartWatchKeeps, JobsStutter DEF StartWatch, jobKept
<1>6. ASSUME NEW w \in Watches, WatchNext(w) PROVE AllInv'
  BY <1>6, WatchNextKeeps, JobsStutter DEF WatchNext, jobKept
<1>7. ASSUME NEW w \in Watches, watch[w].agent = a, EndWatch(w) PROVE AllInv'
  <2>1. /\ Drop({a}) /\ watch' = [watch EXCEPT ![w] = NoWatch]
        /\ UNCHANGED <<queues, tasks, published, polled>>
    BY <1>7 DEF EndWatch
  <2>2. {a} \in SUBSET Agents
    OBVIOUS
  <2>3. MeshInv'
    BY <1>7, <2>1, <2>2, DropKeeps
  <2>4. JobInv'
    BY <2>1, <2>2, DropOnly
  <2>5. QED
    BY <2>3, <2>4
<1>8. QED
  BY <1>1, <1>2, <1>3, <1>4, <1>5, <1>6, <1>7

LEMMA StepKeeps == AllInv /\ [Next]_vars => AllInv'
<1> SUFFICES ASSUME AllInv, [Next]_vars PROVE AllInv'
  OBVIOUS
<1>1. MeshInv /\ JobInv /\ published \in Seq(Event)
  BY DEF AllInv, MeshInv, MeshTypes
<1>2. ASSUME NEW j \in Jobs, Start(j) PROVE AllInv'
  BY <1>1, <1>2, StartKeeps, MeshStutters DEF AllInv, Start, SubscribeCallbacks, meshKept
<1>3. ASSUME NEW j \in Jobs, Send(j) PROVE AllInv'
  <2>1. JobInv' /\ Members[j][job[j].step] \in Agents
    BY <1>1, <1>3, SendKeeps
  <2>2. Publish(Members[j][job[j].step], FALSE)
    BY <1>3 DEF Send
  <2>3. QED
    BY <1>1, <2>1, <2>2, PublishKeeps DEF AllInv
<1>4. ASSUME NEW j \in Jobs, PublishFails(j) PROVE AllInv'
  BY <1>1, <1>4, PublishFailsKeeps, MeshStutters DEF AllInv, PublishFails, meshVars, meshKept
<1>5. ASSUME NEW j \in Jobs, Sent(j) PROVE AllInv'
  BY <1>1, <1>5, SentKeeps, MeshStutters DEF AllInv, Sent, meshVars, meshKept
<1>6. ASSUME NEW j \in Jobs, Take(j) PROVE AllInv'
  BY <1>1, <1>6, TakeKeeps, MeshStutters DEF AllInv, Take, meshVars, meshKept
<1>7. ASSUME NEW j \in Jobs, TimesOut(j) PROVE AllInv'
  BY <1>1, <1>7, TimesOutKeeps, MeshStutters DEF AllInv, TimesOut, meshVars, meshKept
<1>8. ASSUME NEW j \in Jobs, Leave(j) PROVE AllInv'
  <2>1. JobInv' /\ {Members[j][i] : i \in Waiters(j)} \in SUBSET Agents
    BY <1>1, <1>8, LeaveKeeps
  <2>2. /\ Drop({Members[j][i] : i \in Waiters(j)})
        /\ UNCHANGED <<queues, published, polled, watch>>
    BY <1>8 DEF Leave
  <2>3. QED
    BY <1>1, <2>1, <2>2, DropKeeps DEF AllInv
<1>9. ASSUME RunCallback PROVE AllInv'
  <2>1. UNCHANGED meshKept
    BY <1>9 DEF RunCallback, Run, meshKept
  <2>2. QED
    BY <1>1, <1>9, <2>1, RunKeeps, MeshStutters DEF AllInv
<1>10. ASSUME NEW a \in Agents, Write(a) PROVE AllInv'
  <2>1. PICK yes \in BOOLEAN : Publish(a, yes)
    BY <1>10 DEF Write
  <2>2. QED
    BY <1>1, <1>10, <2>1, WriteKeeps, PublishKeeps DEF AllInv
<1>11. CASE MeshStep /\ UNCHANGED <<job, inbox>>
  BY <1>11, MeshStepKeeps
<1>12. ASSUME NEW a \in Agents, Unsubscribe(a), UNCHANGED <<job, inbox>> PROVE AllInv'
  <2>1. Drop({a}) /\ UNCHANGED <<queues, tasks, published, watch, polled>> /\ {a} \in SUBSET Agents
    BY <1>12 DEF Unsubscribe
  <2>2. QED
    BY <1>1, <1>12, <2>1, DropKeeps, DropOnly DEF AllInv
<1>13. CASE UNCHANGED vars
  BY <1>1, <1>13, MeshStutters, JobsStutter DEF AllInv, vars, meshVars, meshKept, jobKept
<1>14. QED
  BY <1>2, <1>3, <1>4, <1>5, <1>6, <1>7, <1>8, <1>9, <1>10, <1>11, <1>12, <1>13 DEF Next

LEMMA AlwaysSound == Spec => []AllInv
<1>1. Init => AllInv
  BY MeshStarts, JobsStart DEF AllInv
<1>2. QED
  BY <1>1, StepKeeps, PTL DEF Spec

\* event_bus.py, poll and watch: what an agent has subscribed to it gets, in
\* order, from one or the other, whatever watches and patterns come and go,
\* until it unsubscribes or a watch of its own ends.
THEOREM PollsLoseNothing == Spec => []PollLosesNothing
<1>1. ASSUME AllInv PROVE PollLosesNothing
  <2> SUFFICES ASSUME NEW a \in Agents, since[a] # Off
               PROVE  /\ a \in DOMAIN queueOf
                      /\ Ascending(queues[queueOf[a]])
                      /\ \A e \in since[a] + 1 .. Len(published) :
                           e \in polled[a] \cup ToSet(queues[queueOf[a]]) \cup YieldedTo(a)
    BY DEF PollLosesNothing
  <2>1. a \in DOMAIN queueOf /\ \A e \in since[a] + 1 .. Len(published) : Has(a, e)
    BY <1>1 DEF AllInv, MeshInv, PollsSound
  <2>2. queueOf[a] \in DOMAIN queues
    BY <1>1, <2>1 DEF AllInv, MeshInv, MeshTypes
  <2>3. Ascending(queues[queueOf[a]])
    BY <1>1, <2>2 DEF AllInv, MeshInv, QueuesSound
  <2>4. QED
    BY <2>1, <2>3 DEF Has
<1>2. QED
  BY <1>1, AlwaysSound, PTL

\* collaboration.py, Broadcast and Consensus: the answers returned are the
\* first ones after the start, and all there were unless another pattern, a
\* watch or the agent took the subscription away; a vote that says yes has
\* more than half of them.
THEOREM AnswersAreComplete == Spec => []AnswersComplete
<1>1. ASSUME AllInv PROVE AnswersComplete
  <2> SUFFICES ASSUME NEW j \in Jobs, Kind[j] # "pipeline", job[j].stage \in {"leave", "done"}
               PROVE  /\ FirstAnswers(j)
                      /\ job[j].result =>
                           2 * Cardinality({e \in ToSet(job[j].got) : published[e].yes}) > Len(job[j].got)
    BY DEF AnswersComplete
  <2>1. TakesOf(j)
    BY <1>1 DEF AllInv, JobInv, JobsSound
  <2>2. FirstAnswers(j)
    BY <2>1 DEF TakesOf, FirstAnswers
  <2>3. QED
    BY <2>1, <2>2 DEF TakesOf
<1>2. QED
  BY <1>1, AlwaysSound, PTL

\* collaboration.py, Pipeline: its stages publish in order, each after an
\* event of the stage before, and it times out only when the waiting stage
\* lost its subscription.
THEOREM PipelinesRun == Spec => []PipelineRuns
<1>1. ASSUME AllInv PROVE PipelineRuns
  BY <1>1 DEF AllInv, JobInv, JobsSound, StepsOf, PipelineRuns
<1>2. QED
  BY <1>1, AlwaysSound, PTL
==============================================================================
