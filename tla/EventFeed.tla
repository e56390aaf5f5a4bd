------------------------------ MODULE EventFeed ------------------------------
(***************************************************************************)
(* The dashboard's event feed: each connection to /ws/events of the bridge *)
(* polls the database for rows above the epoch it has seen last, while the *)
(* engines and agents of MemoryStream, in processes of their own, write.   *)
(***************************************************************************)
EXTENDS MemoryStream, Budget

CONSTANT Watchers   \* connections that stay open

VARIABLES
  feed,   \* each connection: what it saw last, its poll, what it sent
  top,    \* history: the highest epoch each stream ever had
  news    \* history: events that were above every earlier one of their stream

feedVars == <<vars, feed, top, news>>

NoPoll == [counters |-> <<>>, at |-> "none", out |-> <<>>]
Polling(w, poll) == feed' = [feed EXCEPT ![w].poll = poll]
OnlyFeed == UNCHANGED <<vars, top, news, left>>

\* The streams, with the epoch counters they have now.
StartPoll(w) ==
  /\ feed[w].poll = NoPoll
  /\ \E s \in Streams : counter[s] > feed[w].last[s]
  /\ Polling(w, [NoPoll EXCEPT !.counters = [s \in Streams |-> counter[s]]])
  /\ OnlyFeed

\* The rows of stream s above the epoch that connection w saw last: its timeline
\* after those at or below it.
Above(w, s) ==
  LET seen == {i \in DOMAIN events[s] : events[s][i].epoch <= feed[w].last[s]}
  IN SubSeq(Timeline(s), Cardinality(seen) + 1, Len(events[s]))

\* The next stream whose counter has grown.
Look(w) ==
  LET poll == feed[w].poll
  IN /\ poll.at = "none"
     /\ \E s \in DOMAIN poll.counters :
          /\ poll.counters[s] > feed[w].last[s]
          /\ Polling(w, [poll EXCEPT !.at = s, !.out = Above(w, s)])
     /\ OnlyFeed

Send(w) ==
  /\ feed[w].poll.out # <<>>
  /\ feed' = [feed EXCEPT ![w].poll.out = Tail(@), ![w].sent = @ \cup {Head(feed[w].poll.out).id}]
  /\ OnlyFeed

\* Mistake: the counter is read again when the rows are sent.
CounterNow(w, s) == counter[s]

CounterRead(w, s) == feed[w].poll.counters[s]

\* The rows of a stream are sent.
Advance(w) ==
  LET s == feed[w].poll.at
  IN /\ s # "none" /\ feed[w].poll.out = <<>>
     /\ feed' = [feed EXCEPT ![w].last[s] = CounterRead(w, s), ![w].poll.at = "none"]
     /\ OnlyFeed

\* No stream is left, or a send raised: wait for the next poll.
EndPoll(w) ==
  LET poll == feed[w].poll
  IN /\ poll # NoPoll
     /\ IF poll.at = "none" THEN \A s \in DOMAIN poll.counters : poll.counters[s] <= feed[w].last[s]
        ELSE poll.out # <<>>
     /\ Polling(w, NoPoll)
     /\ OnlyFeed

\* The writers, each of whose rows may be the highest yet.
MemoryGrows ==
  /\ left.feed > 0
  /\ Next /\ vars' # vars
  /\ LET grown == {s \in Streams : events'[s] # <<>> /\ Last(events'[s]).epoch > top[s]}
     IN /\ top' = [s \in Streams |-> IF s \in grown THEN Last(events'[s]).epoch ELSE top[s]]
        /\ news' = news \cup {Last(events'[s]).id : s \in grown}
  /\ UNCHANGED <<feed, left>>

FeedInit ==
  /\ Init
  /\ feed = [w \in Watchers |-> [last |-> [s \in Streams |-> 0], poll |-> NoPoll, sent |-> {}]]
  /\ top = [s \in Streams |-> 0]
  /\ news = {}

FeedNext ==
  \/ MemoryGrows
  \/ \E w \in Watchers : StartPoll(w) \/ Look(w) \/ Send(w) \/ Advance(w) \/ EndPoll(w)
------------------------------------------------------------------------------
\* An event numbered above every earlier one of its stream is sent to each
\* connection, or is above what the connection saw last and so goes out when
\* the counter passes that: whatever is written during a poll, however the
\* SDK's rows put the counter back, and when a poll fails half way.
FeedShowsNewest ==
  \A w \in Watchers, s \in Streams : \A i \in DOMAIN events[s] :
    LET row == events[s][i]
    IN row.id \in news => row.id \in feed[w].sent \/ row.epoch > feed[w].last[s]
==============================================================================
