-------------------------- MODULE MemoryStreamProofs --------------------------
(***************************************************************************)
(* Proofs about MemoryStream and Recall, for any number of jobs, engines   *)
(* and streams.                                                            *)
(*                                                                         *)
(* The invariant says of each stream that one engine numbers that its      *)
(* counter, its rows' epochs and that engine's cached epoch agree; of each *)
(* restore, how far it has copied its snapshot; of each parent_id, that    *)
(* what it names was committed; and of each checkpoint, written or still   *)
(* to be, that what it has seen is in it, or is kept without it.           *)
(* Queries and contexts are sequences of rows picked by their places, so   *)
(* what is read of a stream follows by counting.                           *)
(***************************************************************************)
EXTENDS Recall, FiniteSetTheorems, FunctionTheorems, SequenceTheorems,
        NaturalsInduction, WellFoundedInduction, TLAPS

-----------------------------------------------------------------------------
(***************************************************************************)
(* The inductive invariant                                                 *)
(***************************************************************************)

\* Jobs that give, or may give, the events of their stream their numbers: a
\* restore does once it has a stream of its own.
Numbers(j) ==
  /\ job[j].kind \notin {"none", "checkpoint", "snapshot"}
  /\ job[j].kind = "restore" => job[j].stream # job[j].blob.stream

NumberedBy(s, e) ==
  \A j \in Jobs : job[j].stream = s /\ Numbers(j) =>
    EngineOf[j] = e /\ job[j].kind \notin {"sdk", "resume"}

\* What a job may hold at each stage.
JobsSound ==
  \A j \in Jobs :
    /\ stage[j] = "idle" <=> job[j].kind = "none"
    /\ stage[j] = "idle" => job[j] = NoJob
    /\ stage[j] # "idle" => job[j].stream \in Streams
    /\ stage[j] = "retrieving" =>
         job[j].kind \in {"resume", "restore"} /\ job[j].written = 0 /\ job[j].todo = << >>
    /\ job[j].kind \in {"checkpoint", "snapshot", "resume", "restore"} => job[j].blob \in Blob
    /\ job[j].kind \in {"checkpoint", "snapshot", "resume"} => job[j].todo = << >>
    /\ job[j].kind = "restore" =>
         /\ job[j].blob.kind = "snapshot"
         /\ job[j].stream = job[j].blob.stream => job[j].todo = << >>
         /\ stage[j] = "retrieving" => job[j].stream = job[j].blob.stream

\* A row lies where the job that wrote it has its stream.
RowsHome ==
  \A s \in Streams : \A i \in DOMAIN events[s] : \A id \in {events[s][i].id} :
    id[2] \in 1 .. job[id[1]].written /\ job[id[1]].stream = s

\* What a parent_id names was committed, and is there unless it was deleted.
Stands(p) ==
  \/ p = <<Genesis, 0>>
  \/ p \in AllIds
  \/ p[1] \in Jobs /\ job[p[1]].written > 0 /\ Deleted(job[p[1]].stream)

ParentsStand ==
  /\ \A j \in Jobs : \A p \in job[j].parents : Stands(p)
  /\ \A s \in Streams : \A i \in DOMAIN events[s] : \A p \in events[s][i].parents : Stands(p)

\* A stream with one writer at a time: the writer has read its head.
OneWriter ==
  \A s \in Streams \ contended : \A j \in Writers(s) :
    /\ \A k \in Writers(s) : j = k
    /\ job[j].kind = "sdk" \/ head[s] \in job[j].parents

\* An engine that knows an epoch of a stream has a job that numbers it.
CachesSound ==
  \A d \in Engines, s \in Streams : cache[d][s] # Cold =>
    \E j \in Jobs : job[j].stream = s /\ Numbers(j) /\ EngineOf[j] = d

EpochsSound ==
  \A s \in Streams, e \in Engines : NumberedBy(s, e) =>
    /\ counter[s] = Len(events[s])
    /\ cache[e][s] \in {Cold, Len(events[s])}
    /\ \A i \in DOMAIN events[s] : events[s][i].epoch = i

\* What restore j has written of its snapshot, and what it still has to write,
\* with record r and the rows of its stream.
Copies(j, r, rows) ==
  /\ r.written <= Len(r.blob.rows) /\ Len(r.todo) = Len(r.blob.rows) - r.written
  /\ \A k \in 1 .. Len(r.todo) : r.todo[k] = r.blob.rows[r.written + k].content
  /\ r.written <= Len(rows)
  /\ \A k \in 1 .. r.written : /\ rows[k].id = <<j, k>> /\ rows[k].epoch = k
                               /\ rows[k].content = r.blob.rows[k].content
  /\ \A i \in DOMAIN rows : rows[i].id[1] = j => i <= r.written

RestoredRows(j) == \A r \in {job[j]} : \A rows \in {events[r.stream]} : Copies(j, r, rows)

\* Until it is done nobody else knows of its stream.
Restoring(j) ==
  \A s \in {job[j].stream}, n \in {job[j].written} :
    /\ stage[j] = "ok" => job[j].todo = << >>
    /\ stage[j] = "storing" =>
         /\ s \notin known /\ Len(events[s]) = n /\ counter[s] = n
         /\ cache[EngineOf[j]][s] \in {Cold, n}
         /\ \A k \in Jobs : k # j => job[k].stream # s

RestoresSound ==
  \A j \in Jobs : \A s \in {job[j].stream} :
    job[j].kind = "restore" /\ s # job[j].blob.stream /\ ~Deleted(s)
      => RestoredRows(j) /\ Restoring(j)

\* A snapshot of a stream that one engine numbers is how the stream begins.
Begins(b) ==
  b.kind = "snapshot" /\ ~Deleted(b.stream) /\ (\E e \in Engines : NumberedBy(b.stream, e)) =>
    /\ Len(b.rows) <= Len(events[b.stream])
    /\ \A i \in DOMAIN b.rows : b.rows[i] = events[b.stream][i]

SnapshotsSound ==
  /\ \A b \in saved : Begins(b)
  /\ \A j \in Jobs : Begins(job[j].blob)

StreamInv ==
  /\ TypeOK /\ JobsSound /\ RowsHome /\ ParentsStand /\ UncontendedIsChain /\ OneWriter
  /\ CachesSound /\ EpochsSound /\ RestoresSound /\ SnapshotsSound

-----------------------------------------------------------------------------
(***************************************************************************)
(* The timeline                                                            *)
(***************************************************************************)

\* The rows of a stream.
LEMMA RowTypes ==
  ASSUME NEW s, events[s] \in Seq(Event)
  PROVE  /\ Len(events[s]) \in Nat /\ DOMAIN events[s] = 1 .. Len(events[s])
         /\ \A i \in DOMAIN events[s] :
              /\ events[s][i] \in Event
              /\ events[s][i].id \in EventId /\ events[s][i].parents \subseteq Parent
              /\ events[s][i].epoch \in Nat /\ events[s][i].content \in Content
<1>1. /\ Len(events[s]) \in Nat /\ DOMAIN events[s] = 1 .. Len(events[s])
      /\ \A i \in DOMAIN events[s] : events[s][i] \in Event
  OBVIOUS
<1>2. \A row \in Event :
        /\ row.id \in EventId /\ row.parents \subseteq Parent
        /\ row.epoch \in Nat /\ row.content \in Content
  BY DEF Event
<1> QED
  BY <1>1, <1>2

\* Row k is before row i in the timeline, or is the same.
UpTo(s, i) == {k \in DOMAIN events[s] :
                 \/ events[s][k].epoch < events[s][i].epoch
                 \/ events[s][k].epoch = events[s][i].epoch /\ k <= i}

\* Each row has a place of its own, and each place a row.
LEMMA Places ==
  ASSUME NEW s, events[s] \in Seq(Event)
  PROVE  /\ \A i \in DOMAIN events[s] : Place(s, i) \in DOMAIN events[s]
         /\ \A i, k \in DOMAIN events[s] : Place(s, i) = Place(s, k) => i = k
         /\ \A i, k \in DOMAIN events[s] :
              \/ events[s][k].epoch < events[s][i].epoch
              \/ events[s][k].epoch = events[s][i].epoch /\ k < i
              => Place(s, k) < Place(s, i)
         /\ \A n \in DOMAIN events[s] : \E i \in DOMAIN events[s] : Place(s, i) = n
<1> DEFINE L == Len(events[s])
           D == 1 .. L
<1>1. /\ L \in Nat /\ DOMAIN events[s] = D /\ IsFiniteSet(D) /\ Cardinality(D) = L
      /\ \A i \in D : events[s][i].epoch \in Nat
  <2>1. L \in Nat /\ DOMAIN events[s] = D /\ \A i \in D : events[s][i].epoch \in Nat
    BY RowTypes
  <2> QED
    BY <2>1, FS_Interval
<1>2. ASSUME NEW i \in D
      PROVE  /\ IsFiniteSet(UpTo(s, i)) /\ Cardinality(UpTo(s, i)) \in D /\ i \in UpTo(s, i)
             /\ UpTo(s, i) \subseteq D
  <2>1. UpTo(s, i) \subseteq D /\ i \in UpTo(s, i)
    BY <1>1 DEF UpTo
  <2>2. IsFiniteSet(UpTo(s, i)) /\ Cardinality(UpTo(s, i)) \in Nat /\ Cardinality(UpTo(s, i)) <= L
    BY <1>1, <2>1, FS_Subset, FS_CardinalityType
  <2>3. Cardinality(UpTo(s, i)) # 0
    BY <2>1, <2>2, FS_EmptySet
  <2> QED
    BY <1>1, <2>1, <2>2, <2>3
<1>3. ASSUME NEW i \in D, NEW k \in D,
             \/ events[s][k].epoch < events[s][i].epoch
             \/ events[s][k].epoch = events[s][i].epoch /\ k < i
      PROVE  Cardinality(UpTo(s, k)) < Cardinality(UpTo(s, i))
  <2>1. UpTo(s, k) \subseteq UpTo(s, i) /\ i \notin UpTo(s, k) /\ i \in UpTo(s, i)
    BY <1>1, <1>3 DEF UpTo
  <2>2. Cardinality(UpTo(s, k)) <= Cardinality(UpTo(s, i)) /\ Cardinality(UpTo(s, k)) # Cardinality(UpTo(s, i))
    BY <1>2, <2>1, FS_Subset
  <2> QED
    BY <1>2, <2>2
<1>4. \A i \in D : Place(s, i) = Cardinality(UpTo(s, i))
  BY <1>1 DEF Place, UpTo
<1>5. ASSUME NEW i \in D, NEW k \in D, Place(s, i) = Place(s, k), i # k PROVE FALSE
  <2>1. \/ events[s][k].epoch < events[s][i].epoch
        \/ events[s][i].epoch < events[s][k].epoch
        \/ events[s][k].epoch = events[s][i].epoch /\ k < i
        \/ events[s][i].epoch = events[s][k].epoch /\ i < k
    BY <1>1, <1>5
  <2>2. Cardinality(UpTo(s, i)) = Cardinality(UpTo(s, k)) /\ Cardinality(UpTo(s, i)) \in Nat
    BY <1>1, <1>2, <1>4, <1>5
  <2> QED
    BY <1>3, <2>1, <2>2
<1>6. \A n \in D : \E i \in D : Place(s, i) = n
  <2> DEFINE f == [i \in D |-> Place(s, i)]
  <2>1. f \in Injection(D, D)
    BY <1>2, <1>4, <1>5 DEF Injection, IsInjective
  <2>2. f \in Surjection(D, D)
    BY <1>1, <2>1, FS_Injection
  <2> QED
    BY <2>2 DEF Surjection
<1> QED
  <2>1. ASSUME NEW i \in D, NEW k \in D,
               \/ events[s][k].epoch < events[s][i].epoch
               \/ events[s][k].epoch = events[s][i].epoch /\ k < i
        PROVE  Place(s, k) < Place(s, i)
    BY <1>3, <1>4, <2>1
  <2> HIDE DEF D
  <2> QED
    BY <1>1, <1>2, <1>4, <1>5, <1>6, <2>1

\* The timeline has the rows, each at its place.
LEMMA TimelineRows ==
  ASSUME NEW s, events[s] \in Seq(Event)
  PROVE  /\ Timeline(s) \in Seq(Event)
         /\ DOMAIN Timeline(s) = DOMAIN events[s] /\ Len(Timeline(s)) = Len(events[s])
         /\ \A i \in DOMAIN events[s] :
              Place(s, i) \in DOMAIN events[s] /\ Timeline(s)[Place(s, i)] = events[s][i]
         /\ \A n \in DOMAIN events[s] : \E i \in DOMAIN events[s] : Place(s, i) = n
<1>1. /\ Len(events[s]) \in Nat /\ DOMAIN events[s] = 1 .. Len(events[s])
      /\ \A i \in DOMAIN events[s] : events[s][i] \in Event
  OBVIOUS
<1>2. \A n \in DOMAIN events[s] :
        \E i \in DOMAIN events[s] : Place(s, i) = n /\ Timeline(s)[n] = events[s][i]
  <2> SUFFICES ASSUME NEW n \in DOMAIN events[s]
               PROVE  \E i \in DOMAIN events[s] : Place(s, i) = n /\ Timeline(s)[n] = events[s][i]
    OBVIOUS
  <2> DEFINE c == CHOOSE i \in DOMAIN events[s] : Place(s, i) = n
  <2>1. c \in DOMAIN events[s] /\ Place(s, c) = n
    BY Places
  <2> QED
    BY <2>1 DEF Timeline
<1>3. \A i \in DOMAIN events[s] :
        Place(s, i) \in DOMAIN events[s] /\ Timeline(s)[Place(s, i)] = events[s][i]
  BY <1>2, Places
<1>4. DOMAIN Timeline(s) = DOMAIN events[s]
  BY DEF Timeline
<1>5. Timeline(s) \in [1 .. Len(events[s]) -> Event]
  BY <1>1, <1>2 DEF Timeline
<1>6. Timeline(s) \in Seq(Event) /\ Len(Timeline(s)) = Len(events[s])
  BY <1>1, <1>5
<1> QED
  BY <1>2, <1>3, <1>4, <1>6

\* Rows that are numbered in their order, or not at all, are their own timeline.
LEMMA TimelineInOrder ==
  ASSUME NEW s, events[s] \in Seq(Event),
         \A i, k \in DOMAIN events[s] : i < k => events[s][i].epoch <= events[s][k].epoch
  PROVE  Timeline(s) = events[s]
<1>1. /\ Len(events[s]) \in Nat /\ DOMAIN events[s] = 1 .. Len(events[s])
      /\ \A i \in DOMAIN events[s] : events[s][i].epoch \in Nat
  BY RowTypes
<1>2. ASSUME NEW i \in DOMAIN events[s] PROVE Place(s, i) = i
  <2>1. UpTo(s, i) = 1 .. i
    BY <1>1 DEF UpTo
  <2>2. Cardinality(1 .. i) = i
    BY <1>1, FS_Interval
  <2> QED
    BY <2>1, <2>2 DEF Place, UpTo
<1>3. \A i \in DOMAIN events[s] : Timeline(s)[i] = events[s][i]
  BY <1>2, TimelineRows
<1> QED
  BY <1>1, <1>3, TimelineRows, SeqEqual

-----------------------------------------------------------------------------
(***************************************************************************)
(* What lasts                                                              *)
(***************************************************************************)

\* A job is made once, and goes where it goes before it writes.
JobsKept ==
  \A j \in Jobs :
    /\ job[j].kind # "none" => job'[j].kind = job[j].kind
    /\ Numbers(j) => Numbers(j)' /\ job'[j].stream = job[j].stream
    /\ job[j].written > 0 => job'[j].stream = job[j].stream
    /\ job'[j].written >= job[j].written

\* The types of a job's variables.
LEMMA JobTypes ==
  ASSUME TypeOK, NEW j \in Jobs
  PROVE  /\ job[j] \in Job /\ job[j].kind \in Kinds \cup {"none"} /\ job[j].written \in Nat
         /\ job[j].todo \in Seq(Content) /\ job[j].parents \subseteq Parent
         /\ job[j].stream \in Streams \cup {Genesis} /\ job[j].blob \in Blob \cup {NoBlob}
         /\ stage[j] \in Stage
<1>1. job[j] \in Job /\ stage[j] \in Stage
  BY DEF TypeOK
<1> QED
  BY <1>1 DEF Job

LEMMA Lasts ==
  ASSUME JobsKept
  PROVE  /\ \A s : Deleted(s) => Deleted(s)'
         /\ \A s, e : NumberedBy(s, e)' => NumberedBy(s, e)
<1>1. \A s : Deleted(s) => Deleted(s)'
  BY DEF JobsKept, Deleted, Numbers
<1>2. \A s, e : NumberedBy(s, e)' => NumberedBy(s, e)
  BY DEF JobsKept, NumberedBy, Numbers
<1> QED
  BY <1>1, <1>2

\* The writer of a row.
LEMMA Written ==
  ASSUME TypeOK, JobsSound, RowsHome, NEW s \in Streams, NEW i \in DOMAIN events[s],
         NEW id, id = events[s][i].id
  PROVE  /\ id \in EventId /\ id[1] \in Jobs /\ id[2] \in Nat /\ id = <<id[1], id[2]>>
         /\ id[2] >= 1 /\ id[2] <= job[id[1]].written /\ job[id[1]].written > 0
         /\ job[id[1]].stream = s /\ job[id[1]].kind # "none" /\ id # <<Genesis, 0>>
<1>1. id \in EventId
  BY RowTypes DEF TypeOK
<1>2. id[1] \in Jobs /\ id[2] \in Nat /\ id = <<id[1], id[2]>>
  BY <1>1 DEF EventId
<1>3. id[2] \in 1 .. job[id[1]].written /\ job[id[1]].stream = s /\ job[id[1]].written \in Nat
  BY <1>2, JobTypes DEF RowsHome
<1>4. job[id[1]].kind # "none"
  BY <1>2, <1>3 DEF JobsSound, NoJob
<1> QED
  BY <1>1, <1>2, <1>3, <1>4

\* What a parent_id names still stands, if rows go only with their stream.
LEMMA StandsStill ==
  ASSUME TypeOK, JobsSound, RowsHome, JobsKept,
         \A j \in Jobs : job'[j].written \in Nat,
         \A s \in Streams : IdsOf(s) \subseteq IdsOf(s)' \/ Deleted(s)'
  PROVE  \A p : Stands(p) => Stands(p)'
<1> SUFFICES ASSUME NEW p, Stands(p) PROVE Stands(p)'
  OBVIOUS
<1>1. CASE p = <<Genesis, 0>>
  BY <1>1 DEF Stands
<1>2. CASE p \in AllIds
  <2>1. PICK s \in Streams : \E i \in DOMAIN events[s] : p = events[s][i].id
    BY <1>2 DEF AllIds, IdsOf
  <2>2. /\ p[1] \in Jobs /\ job[p[1]].written > 0 /\ job[p[1]].stream = s
        /\ job[p[1]].written \in Nat
    BY <2>1, Written, JobTypes
  <2>3. CASE Deleted(s)'
    <3>1. job'[p[1]].stream = s /\ job'[p[1]].written > 0
      BY <2>2 DEF JobsKept
    <3> QED
      BY <2>2, <2>3, <3>1 DEF Stands
  <2>4. CASE IdsOf(s) \subseteq IdsOf(s)'
    <3>1. p \in AllIds'
      BY <2>1, <2>4 DEF AllIds, IdsOf
    <3> QED
      BY <3>1 DEF Stands
  <2> QED
    BY <2>3, <2>4
<1>3. CASE p[1] \in Jobs /\ job[p[1]].written > 0 /\ Deleted(job[p[1]].stream)
  <2>1. job'[p[1]].stream = job[p[1]].stream /\ job'[p[1]].written > 0
    BY <1>3, JobTypes DEF JobsKept
  <2> QED
    BY <1>3, <2>1, Lasts DEF Stands
<1> QED
  BY <1>1, <1>2, <1>3 DEF Stands

\* Each event has the one before it among its parents, or is the SDK's.
ChainOf(s) ==
  \A i \in DOMAIN events[s] :
    \/ job[events[s][i].id[1]].kind = "sdk"
    \/ (IF i = 1 THEN <<Genesis, 0>> ELSE events[s][i - 1].id) \in events[s][i].parents

LEMMA ChainOfStays ==
  ASSUME TypeOK, JobsSound, RowsHome, JobsKept, NEW s \in Streams, events'[s] = events[s], ChainOf(s)
  PROVE  ChainOf(s)'
<1> SUFFICES ASSUME NEW i \in DOMAIN events[s]
             PROVE  \/ job'[events[s][i].id[1]].kind = "sdk"
                    \/ (IF i = 1 THEN <<Genesis, 0>> ELSE events[s][i - 1].id) \in events[s][i].parents
  BY DEF ChainOf
<1>1. PICK id : id = events[s][i].id
  OBVIOUS
<1>2. id[1] \in Jobs /\ job[id[1]].kind # "none"
  BY <1>1, Written
<1>3. job'[id[1]].kind = job[id[1]].kind
  BY <1>2 DEF JobsKept
<1> QED
  BY <1>1, <1>3 DEF ChainOf

\* The rows stand while jobs go on.
LEMMA RowsStand ==
  ASSUME TypeOK, JobsSound, RowsHome, ParentsStand, UncontendedIsChain, JobsKept,
         \A j \in Jobs : job'[j].written \in Nat,
         UNCHANGED events, contended \subseteq contended',
         \A j \in Jobs : \A p \in job'[j].parents : Stands(p)
  PROVE  RowsHome' /\ ParentsStand' /\ UncontendedIsChain'
<1>1. RowsHome'
  <2> SUFFICES ASSUME NEW s \in Streams, NEW i \in DOMAIN events[s], NEW id \in {events[s][i].id}
               PROVE  id[2] \in 1 .. job'[id[1]].written /\ job'[id[1]].stream = s
    BY DEF RowsHome
  <2>1. /\ id[1] \in Jobs /\ id[2] \in Nat /\ id[2] >= 1 /\ id[2] <= job[id[1]].written
        /\ job[id[1]].written > 0 /\ job[id[1]].stream = s
    BY Written
  <2>2. /\ job'[id[1]].written >= job[id[1]].written /\ job'[id[1]].stream = s
        /\ job'[id[1]].written \in Nat /\ job[id[1]].written \in Nat
    BY <2>1, JobTypes DEF JobsKept
  <2> QED
    BY <2>1, <2>2
<1>2. \A p : Stands(p) => Stands(p)'
  <2>1. \A s \in Streams : IdsOf(s)' = IdsOf(s)
    BY DEF IdsOf
  <2> QED
    BY <2>1, StandsStill
<1>3. ParentsStand'
  BY <1>2 DEF ParentsStand
<1>4. UncontendedIsChain'
  <2> SUFFICES ASSUME NEW s \in Streams \ contended' PROVE ChainOf(s)'
    BY DEF UncontendedIsChain, ChainOf
  <2>1. ChainOf(s)
    BY DEF UncontendedIsChain, ChainOf
  <2> QED
    BY <2>1, ChainOfStays
<1> QED
  BY <1>1, <1>3, <1>4

LEMMA CachesStand ==
  ASSUME CachesSound, JobsKept,
         \A d \in Engines, s \in Streams : cache'[d][s] # Cold =>
            cache[d][s] # Cold \/ \E j \in Jobs : job'[j].stream = s /\ Numbers(j)' /\ EngineOf[j] = d
  PROVE  CachesSound'
<1> SUFFICES ASSUME NEW d \in Engines, NEW s \in Streams, cache'[d][s] # Cold
             PROVE  \E j \in Jobs : job'[j].stream = s /\ Numbers(j)' /\ EngineOf[j] = d
  BY DEF CachesSound
<1>1. CASE cache[d][s] # Cold
  <2>1. PICK j \in Jobs : job[j].stream = s /\ Numbers(j) /\ EngineOf[j] = d
    BY <1>1 DEF CachesSound
  <2>2. job'[j].stream = s /\ Numbers(j)'
    BY <2>1 DEF JobsKept
  <2> QED
    BY <2>1, <2>2
<1> QED
  BY <1>1

LEMMA EpochsStand ==
  ASSUME EpochsSound, JobsKept, UNCHANGED <<events, counter>>,
         \A e \in Engines, s \in Streams :
           NumberedBy(s, e)' => cache'[e][s] \in {Cold, cache[e][s]}
  PROVE  EpochsSound'
<1> SUFFICES ASSUME NEW s \in Streams, NEW e \in Engines, NumberedBy(s, e)'
             PROVE  /\ counter[s] = Len(events[s])
                    /\ cache'[e][s] \in {Cold, Len(events[s])}
                    /\ \A i \in DOMAIN events[s] : events[s][i].epoch = i
  BY DEF EpochsSound
<1>1. NumberedBy(s, e)
  BY Lasts
<1> QED
  BY <1>1 DEF EpochsSound

LEMMA SnapshotsStand ==
  ASSUME JobsKept, UNCHANGED events,
         \A b \in saved' : Begins(b), \A j \in Jobs : \A b \in {job'[j].blob} : Begins(b)
  PROVE  SnapshotsSound'
<1>1. \A b : Begins(b) => Begins(b)'
  BY Lasts DEF Begins
<1> QED
  BY <1>1 DEF SnapshotsSound

\* A restore that the step does not concern.
LEMMA RestoredStands ==
  ASSUME NEW k \in Jobs, RestoredRows(k), Restoring(k), job'[k] = job[k],
         events'[job[k].stream] = events[job[k].stream], counter'[job[k].stream] = counter[job[k].stream],
         stage'[k] = "ok" => stage[k] = "ok", stage'[k] = "storing" => stage[k] = "storing",
         stage'[k] = "storing" =>
           /\ job[k].stream \notin known' /\ \A l \in Jobs : l # k => job'[l].stream # job[k].stream
           /\ cache'[EngineOf[k]][job[k].stream] \in {Cold, cache[EngineOf[k]][job[k].stream]}
  PROVE  RestoredRows(k)' /\ Restoring(k)'
<1>1. RestoredRows(k)'
  BY DEF RestoredRows
<1>2. Restoring(k)'
  BY DEF Restoring
<1> QED
  BY <1>1, <1>2

\* A snapshot is still how its stream begins, if streams only grow or are deleted.
LEMMA SnapshotsGrow ==
  ASSUME TypeOK, JobsKept, SnapshotsSound,
         \A s \in Streams :
           \/ Deleted(s)'
           \/ /\ Len(events[s]) <= Len(events'[s])
              /\ \A i \in DOMAIN events[s] : events'[s][i] = events[s][i],
         events' \in [Streams -> Seq(Event)],
         saved' = saved, \A j \in Jobs : job'[j].blob \in {job[j].blob, NoBlob}
  PROVE  SnapshotsSound'
<1>1. ASSUME NEW b \in Blob, Begins(b) PROVE Begins(b)'
  <2>1. SUFFICES ASSUME b.kind = "snapshot", ~Deleted(b.stream)', \E e \in Engines : NumberedBy(b.stream, e)'
                 PROVE  /\ Len(b.rows) <= Len(events'[b.stream])
                        /\ \A i \in DOMAIN b.rows : b.rows[i] = events'[b.stream][i]
    BY DEF Begins
  <2>2. ~Deleted(b.stream) /\ \E e \in Engines : NumberedBy(b.stream, e)
    BY <2>1, Lasts
  <2>3. /\ Len(b.rows) <= Len(events[b.stream])
        /\ \A i \in DOMAIN b.rows : b.rows[i] = events[b.stream][i]
    BY <1>1, <2>1, <2>2 DEF Begins
  <2>4. b.stream \in Streams /\ b.rows \in Seq(Event)
    BY DEF Blob
  <2>5. events[b.stream] \in Seq(Event) /\ events'[b.stream] \in Seq(Event)
    BY <2>4 DEF TypeOK
  <2>6. /\ Len(events[b.stream]) <= Len(events'[b.stream])
        /\ \A i \in DOMAIN events[b.stream] : events'[b.stream][i] = events[b.stream][i]
    BY <2>1, <2>4
  <2>7. /\ DOMAIN b.rows = 1 .. Len(b.rows) /\ DOMAIN events[b.stream] = 1 .. Len(events[b.stream])
        /\ Len(b.rows) \in Nat /\ Len(events[b.stream]) \in Nat /\ Len(events'[b.stream]) \in Nat
    BY <2>4, <2>5
  <2> QED
    BY <2>3, <2>6, <2>7
<1>2. \A b \in Blob \cup {NoBlob} : Begins(b) => Begins(b)'
  BY <1>1 DEF Begins, NoBlob
<1>3. Begins(NoBlob)
  BY DEF Begins, NoBlob
<1>4. saved \subseteq Blob /\ \A j \in Jobs : job[j].blob \in Blob \cup {NoBlob}
  BY JobTypes DEF TypeOK
<1>5. \A b \in saved : Begins(b)'
  BY <1>2, <1>4 DEF SnapshotsSound
<1>6. \A j \in Jobs : \A b \in {job'[j].blob} : Begins(b)'
  BY <1>2, <1>3, <1>4 DEF SnapshotsSound
<1> QED
  BY <1>5, <1>6 DEF SnapshotsSound

\* A job that goes on, while the others do not, holds what it may.
LEMMA JobGoesOn ==
  ASSUME JobsSound, NEW j \in Jobs, \A k \in Jobs : k # j => job'[k] = job[k] /\ stage'[k] = stage[k],
         job'[j].kind # "none", stage'[j] \in {"storing", "ok"}, job'[j].stream \in Streams,
         job'[j].kind \notin {"checkpoint", "snapshot", "resume"},
         job'[j].kind = "restore" =>
           /\ job'[j].blob \in Blob /\ job'[j].blob.kind = "snapshot"
           /\ job'[j].stream # job'[j].blob.stream
  PROVE  JobsSound'
<1> SUFFICES ASSUME NEW k \in Jobs
             PROVE  (/\ stage[k] = "idle" <=> job[k].kind = "none"
                     /\ stage[k] = "idle" => job[k] = NoJob
                     /\ stage[k] # "idle" => job[k].stream \in Streams
                     /\ stage[k] = "retrieving" =>
                          job[k].kind \in {"resume", "restore"} /\ job[k].written = 0 /\ job[k].todo = << >>
                     /\ job[k].kind \in {"checkpoint", "snapshot", "resume", "restore"} => job[k].blob \in Blob
                     /\ job[k].kind \in {"checkpoint", "snapshot", "resume"} => job[k].todo = << >>
                     /\ job[k].kind = "restore" =>
                          /\ job[k].blob.kind = "snapshot"
                          /\ job[k].stream = job[k].blob.stream => job[k].todo = << >>
                          /\ stage[k] = "retrieving" => job[k].stream = job[k].blob.stream)'
  BY DEF JobsSound
<1>1. CASE k = j
  BY <1>1
<1>2. CASE k # j
  <2>1. job'[k] = job[k] /\ stage'[k] = stage[k]
    BY <1>2
  <2> QED
    BY <2>1 DEF JobsSound
<1> QED
  BY <1>1, <1>2

-----------------------------------------------------------------------------
(***************************************************************************)
(* The steps                                                               *)
(***************************************************************************)

\* A job begins with record r.
Enters(j, r, at) ==
  /\ stage[j] = "idle" /\ stage' = [stage EXCEPT ![j] = at] /\ job' = [job EXCEPT ![j] = r]
  /\ r \in Job /\ r.kind \in Kinds \ {"delete"} /\ r.stream \in Streams /\ r.written = 0
  /\ at \in Waiting /\ (at = "retrieving" <=> r.kind \in {"resume", "restore"})
  /\ r.kind \in {"checkpoint", "snapshot", "resume", "restore"} => r.blob \in Blob /\ r.todo = << >>
  /\ r.kind = "restore" => r.stream = r.blob.stream /\ r.blob.kind = "snapshot"
  /\ \A p \in r.parents : Stands(p)
  /\ Begins(r.blob)
  /\ r.stream \in known \/ Unborn(r.stream)
  /\ UNCHANGED <<events, head, counter, cache, saved, known>>
  /\ \/ r.todo = << >> /\ contended' = contended
     \/ Claim(r.stream) /\ (r.kind = "sdk" \/ head[r.stream] \in r.parents)

LEMMA EnterKeeps ==
  ASSUME StreamInv, NEW j \in Jobs, NEW r, NEW at, Enters(j, r, at)
  PROVE  StreamInv' /\ JobsKept
<1>1. /\ TypeOK /\ JobsSound /\ RowsHome /\ ParentsStand /\ UncontendedIsChain /\ OneWriter
      /\ CachesSound /\ EpochsSound /\ RestoresSound /\ SnapshotsSound
  BY DEF StreamInv
<1>2. /\ events' = events /\ head' = head /\ counter' = counter /\ cache' = cache
      /\ saved' = saved /\ known' = known
  BY DEF Enters
<1>3. /\ job'[j] = r /\ stage'[j] = at
      /\ \A k \in Jobs : k # j => job'[k] = job[k] /\ stage'[k] = stage[k]
  BY <1>1 DEF Enters, TypeOK
<1>4. /\ r.kind # "none" /\ r.kind # "delete" /\ r.stream \in Streams /\ r.written = 0
      /\ job[j] = NoJob /\ job[j].kind = "none" /\ job[j].written = 0
  <2>1. job[j] = NoJob
    BY <1>1 DEF Enters, JobsSound
  <2>2. r.kind \in AllKinds /\ r.kind # "delete"
    BY KindsAssumption DEF Enters
  <2> QED
    BY <2>1, <2>2 DEF Enters, NoJob, AllKinds
<1>5. contended \subseteq contended' /\ contended' \subseteq contended \cup {r.stream}
  BY DEF Enters, Claim
<1>6. TypeOK'
  <2>1. stage' \in [Jobs -> Stage] /\ job' \in [Jobs -> Job]
    BY <1>1 DEF Enters, TypeOK, Stage, Waiting
  <2>2. contended' \subseteq Streams
    BY <1>1, <1>4, <1>5 DEF TypeOK
  <2> QED
    BY <1>1, <1>2, <2>1, <2>2 DEF TypeOK
<1>7. \A k \in Jobs : job'[k].written \in Nat
  BY <1>6, JobTypes DEF TypeOK, Job
<1>8. JobsKept
  <2>1. \A k \in Jobs : job[k].written \in Nat
    BY <1>1, JobTypes
  <2> QED
    BY <1>3, <1>4, <2>1 DEF JobsKept, Numbers
<1>9. JobsSound'
  BY <1>1, <1>3, <1>4 DEF JobsSound, Enters, Waiting
<1>10. RowsHome' /\ ParentsStand' /\ UncontendedIsChain'
  <2>1. \A k \in Jobs : \A p \in job'[k].parents : Stands(p)
    BY <1>1, <1>3 DEF Enters, ParentsStand
  <2> QED
    BY <1>1, <1>2, <1>5, <1>7, <1>8, <2>1, RowsStand
<1>11. OneWriter'
  <2>1. SUFFICES ASSUME NEW s \in Streams \ contended', NEW k \in Writers(s)'
                 PROVE  /\ \A l \in Writers(s)' : k = l
                        /\ job'[k].kind = "sdk" \/ head[s] \in job'[k].parents
    BY <1>2 DEF OneWriter
  <2>2. s \notin contended /\ \A l \in Writers(s)' : l = j \/ l \in Writers(s)
    BY <1>3, <1>5 DEF Writers
  <2>3. \A l \in Writers(s) : l # j
    BY DEF Writers, Enters, Waiting
  <2>4. j \in Writers(s)' =>
          /\ s = r.stream /\ Writers(s) = {}
          /\ r.kind = "sdk" \/ head[s] \in r.parents
    BY <1>3 DEF Enters, Claim, Writers
  <2>5. CASE j \in Writers(s)'
    BY <1>3, <2>1, <2>2, <2>4, <2>5
  <2>6. CASE j \notin Writers(s)'
    <3>1. k # j /\ k \in Writers(s) /\ \A l \in Writers(s)' : l \in Writers(s)
      BY <2>1, <2>2, <2>6
    <3>2. job'[k] = job[k]
      BY <1>3, <3>1 DEF Writers
    <3> QED
      BY <1>1, <2>2, <3>1, <3>2 DEF OneWriter
  <2> QED
    BY <2>5, <2>6
<1>12. CachesSound'
  BY <1>1, <1>2, <1>8, CachesStand
<1>13. EpochsSound'
  BY <1>1, <1>2, <1>8, EpochsStand
<1>14. SnapshotsSound'
  <2>1. \A k \in Jobs : \A b \in {job'[k].blob} : Begins(b)
    BY <1>1, <1>3 DEF Enters, SnapshotsSound
  <2> QED
    BY <1>1, <1>2, <1>8, <2>1, SnapshotsStand DEF SnapshotsSound
<1>15. RestoresSound'
  <2> SUFFICES ASSUME NEW k \in Jobs, NEW s \in {job'[k].stream}, job'[k].kind = "restore",
                      s # job'[k].blob.stream, ~Deleted(s)'
               PROVE  RestoredRows(k)' /\ Restoring(k)'
    BY DEF RestoresSound
  <2>1. k # j
    BY <1>3 DEF Enters
  <2>2. job'[k] = job[k] /\ stage'[k] = stage[k]
    BY <1>3, <2>1
  <2>3. RestoredRows(k) /\ Restoring(k)
    BY <1>1, <1>8, <2>2, Lasts DEF RestoresSound
  <2>4. stage[k] = "storing" => r.stream # job[k].stream
    BY <2>3 DEF Enters, Restoring, Unborn
  <2>5. stage[k] = "storing" =>
          /\ job[k].stream \notin known /\ \A l \in Jobs : l # k => job'[l].stream # job[k].stream
    BY <1>3, <2>3, <2>4 DEF Restoring
  <2> QED
    BY <1>2, <2>2, <2>3, <2>5, RestoredStands
<1> QED
  BY <1>6, <1>8, <1>9, <1>10, <1>11, <1>12, <1>13, <1>14, <1>15 DEF StreamInv

\* A job ends, or its engine dies: no row changes, and no job's record.
LEMMA EndKeeps ==
  ASSUME StreamInv, UNCHANGED <<job, events, head, counter, known, contended>>,
         \A k \in Jobs :
           \/ stage'[k] = stage[k]
           \/ stage[k] \in Waiting /\ stage'[k] \in {"failed", "lost"}
           \/ stage[k] \in Waiting /\ stage'[k] = "ok" /\ job[k].todo = << >>,
         stage' \in [Jobs -> Stage], saved' \subseteq Blob, \A b \in saved' : Begins(b),
         cache' \in [Engines -> [Streams -> Nat \cup {Cold}]],
         \A d \in Engines, s \in Streams :
           \/ cache'[d][s] \in {Cold, cache[d][s]}
           \/ \E j \in Jobs : job[j].kind = "resume" /\ job[j].stream = s /\ EngineOf[j] = d
  PROVE  StreamInv' /\ JobsKept
<1>1. /\ TypeOK /\ JobsSound /\ RowsHome /\ ParentsStand /\ UncontendedIsChain /\ OneWriter
      /\ CachesSound /\ EpochsSound /\ RestoresSound /\ SnapshotsSound
  BY DEF StreamInv
<1>2. /\ job' = job /\ events' = events /\ head' = head /\ counter' = counter
      /\ known' = known /\ contended' = contended
  OBVIOUS
<1>3. TypeOK'
  BY <1>1, <1>2 DEF TypeOK
<1>4. \A k \in Jobs : job[k].written \in Nat
  BY <1>1, JobTypes
<1>5. JobsKept
  BY <1>2, <1>4 DEF JobsKept, Numbers
<1>6. JobsSound'
  BY <1>1, <1>2 DEF JobsSound, Waiting
<1>7. RowsHome' /\ ParentsStand' /\ UncontendedIsChain'
  BY <1>1, <1>2, <1>4, <1>5, RowsStand DEF ParentsStand
<1>8. OneWriter'
  <2>1. \A s : Writers(s)' \subseteq Writers(s)
    BY <1>2 DEF Writers, Waiting
  <2> QED
    BY <1>1, <1>2, <2>1 DEF OneWriter
<1>9. CachesSound'
  <2>1. \A j \in Jobs : job[j].kind = "resume" => Numbers(j)'
    BY <1>2 DEF Numbers
  <2> QED
    BY <1>1, <1>2, <1>5, <2>1, CachesStand
<1>10. EpochsSound'
  <2>1. ASSUME NEW e \in Engines, NEW s \in Streams, NumberedBy(s, e)'
        PROVE  cache'[e][s] \in {Cold, cache[e][s]}
    BY <1>2, <2>1 DEF NumberedBy, Numbers
  <2> QED
    BY <1>1, <1>2, <1>5, <2>1, EpochsStand
<1>11. SnapshotsSound'
  BY <1>1, <1>2, <1>5, SnapshotsStand DEF SnapshotsSound
<1>12. RestoresSound'
  <2> SUFFICES ASSUME NEW k \in Jobs, NEW s \in {job[k].stream}, job[k].kind = "restore",
                      s # job[k].blob.stream, ~Deleted(s)'
               PROVE  RestoredRows(k)' /\ Restoring(k)'
    BY <1>2 DEF RestoresSound
  <2>1. RestoredRows(k) /\ Restoring(k)
    BY <1>1, <1>5, Lasts DEF RestoresSound
  <2>2. EngineOf[k] \in Engines /\ s \in Streams
    BY <1>1, JobsAssumption DEF JobsSound
  <2>3. stage'[k] = "storing" => stage[k] = "storing"
    BY DEF Waiting
  <2>4. stage[k] = "storing" => cache'[EngineOf[k]][s] \in {Cold, cache[EngineOf[k]][s]}
    BY <2>1, <2>2 DEF Restoring
  <2>5. stage[k] = "storing" => s \notin known' /\ \A l \in Jobs : l # k => job'[l].stream # s
    BY <1>2, <2>1 DEF Restoring
  <2>6. RestoredRows(k)'
    BY <1>2, <2>1 DEF RestoredRows
  <2>7. Restoring(k)'
    BY <1>2, <2>1, <2>3, <2>4 DEF Restoring
  <2> QED
    BY <2>6, <2>7
<1> QED
  BY <1>3, <1>5, <1>6, <1>7, <1>8, <1>9, <1>10, <1>11, <1>12 DEF StreamInv

\* A step of nobody.
LEMMA NothingKeeps ==
  ASSUME StreamInv, UNCHANGED vars
  PROVE  StreamInv' /\ JobsKept
<1>1. /\ UNCHANGED <<job, events, head, counter, known, contended>> /\ stage' = stage
      /\ saved' = saved /\ cache' = cache
  BY DEF vars
<1>2. TypeOK /\ \A b \in saved : Begins(b)
  BY DEF StreamInv, SnapshotsSound
<1> QED
  BY <1>1, <1>2, EndKeeps DEF TypeOK

LEMMA WalrusFailsKeeps ==
  ASSUME StreamInv, NEW j \in Jobs, WalrusFails(j)
  PROVE  StreamInv' /\ JobsKept
<1>1. /\ UNCHANGED <<job, events, head, counter, known, contended>>
      /\ saved' = saved /\ cache' = cache /\ stage[j] \in Waiting
      /\ stage' = [stage EXCEPT ![j] = "failed"]
  BY DEF WalrusFails
<1>2. TypeOK /\ \A b \in saved : Begins(b)
  BY DEF StreamInv, SnapshotsSound
<1>3. /\ stage' \in [Jobs -> Stage]
      /\ \A k \in Jobs : stage'[k] = stage[k] \/ (stage[k] \in Waiting /\ stage'[k] = "failed")
  BY <1>1, <1>2 DEF TypeOK, Stage
<1> QED
  BY <1>1, <1>2, <1>3, EndKeeps DEF TypeOK

LEMMA CrashKeeps ==
  ASSUME StreamInv, NEW e \in Engines, Crash(e)
  PROVE  StreamInv' /\ JobsKept
<1>1. /\ UNCHANGED <<job, events, head, counter, known, contended>>
      /\ saved' = saved /\ cache' = [cache EXCEPT ![e] = [s \in Streams |-> Cold]]
      /\ stage' = [j \in Jobs |-> IF EngineOf[j] = e /\ stage[j] \in Waiting THEN "lost" ELSE stage[j]]
  BY DEF Crash
<1>2. TypeOK /\ \A b \in saved : Begins(b)
  BY DEF StreamInv, SnapshotsSound
<1>3. /\ stage' \in [Jobs -> Stage]
      /\ \A k \in Jobs : stage'[k] = stage[k] \/ (stage[k] \in Waiting /\ stage'[k] = "lost")
  BY <1>1, <1>2 DEF TypeOK, Stage
<1>4. /\ cache' \in [Engines -> [Streams -> Nat \cup {Cold}]]
      /\ \A d \in Engines, s \in Streams : cache'[d][s] \in {Cold, cache[d][s]}
  BY <1>1, <1>2 DEF TypeOK
<1> QED
  BY <1>1, <1>2, <1>3, <1>4, EndKeeps DEF TypeOK

LEMMA ResumeKeeps ==
  ASSUME StreamInv, NEW j \in Jobs, Resume(j)
  PROVE  StreamInv' /\ JobsKept
<1>1. PICK s, n : s = job[j].stream /\ n = job[j].blob.epoch
  OBVIOUS
<1>2. /\ UNCHANGED <<job, events, head, counter, known, contended>> /\ saved' = saved
      /\ job[j].kind = "resume" /\ stage[j] = "retrieving"
      /\ cache' = [cache EXCEPT ![EngineOf[j]][s] = n] /\ stage' = [stage EXCEPT ![j] = "ok"]
  BY <1>1 DEF Resume
<1>3. TypeOK /\ JobsSound /\ \A b \in saved : Begins(b)
  BY DEF StreamInv, SnapshotsSound
<1>4. s \in Streams /\ n \in Nat /\ job[j].todo = << >> /\ EngineOf[j] \in Engines
  BY <1>1, <1>2, <1>3, JobsAssumption DEF JobsSound, Blob
<1>5. /\ stage' \in [Jobs -> Stage]
      /\ \A k \in Jobs : stage'[k] = stage[k] \/ (k = j /\ stage[k] \in Waiting /\ stage'[k] = "ok")
  BY <1>2, <1>3 DEF TypeOK, Stage, Waiting
<1>6. cache' \in [Engines -> [Streams -> Nat \cup {Cold}]]
  BY <1>2, <1>3, <1>4 DEF TypeOK
<1>7. \A d \in Engines, t \in Streams :
        cache'[d][t] = cache[d][t] \/ (d = EngineOf[j] /\ t = s)
  BY <1>2, <1>3, <1>4 DEF TypeOK
<1>8. \A d \in Engines, t \in Streams :
        \/ cache'[d][t] \in {Cold, cache[d][t]}
        \/ \E k \in Jobs : job[k].kind = "resume" /\ job[k].stream = t /\ EngineOf[k] = d
  BY <1>1, <1>2, <1>7
<1>9. saved' \subseteq Blob /\ \A b \in saved' : Begins(b)
  BY <1>2, <1>3 DEF TypeOK
<1>10. \A k \in Jobs :
         \/ stage'[k] = stage[k]
         \/ stage[k] \in Waiting /\ stage'[k] = "ok" /\ job[k].todo = << >>
  BY <1>4, <1>5
<1> QED
  BY <1>2, <1>5, <1>6, <1>8, <1>9, <1>10, EndKeeps

\* The rows that a snapshot has listed are still there, so it is stored as it is.
LEMMA SaveKeeps ==
  ASSUME StreamInv, NEW j \in Jobs, Save(j)
  PROVE  StreamInv' /\ JobsKept
<1>1. PICK b : b = job[j].blob
  OBVIOUS
<1>2. PICK rows \in Hydrations(b.rows) : saved' = saved \cup {[b EXCEPT !.rows = rows]}
  BY <1>1 DEF Save
<1>3. PICK c : c = [b EXCEPT !.rows = rows]
  OBVIOUS
<1>4. /\ UNCHANGED <<job, events, head, counter, known, contended>> /\ cache' = cache
      /\ job[j].kind \in {"checkpoint", "snapshot"} /\ stage[j] = "storing"
      /\ stage' = [stage EXCEPT ![j] = "ok"]
  BY DEF Save
<1>5. TypeOK /\ JobsSound /\ SnapshotsSound
  BY DEF StreamInv
<1>6. b \in Blob /\ Begins(b) /\ job[j].todo = << >>
  BY <1>1, <1>4, <1>5 DEF JobsSound, SnapshotsSound
<1>7. rows \in Seq(Event) /\ c \in Blob /\ c.kind = b.kind /\ c.stream = b.stream /\ c.rows = rows
  <2>1. b.rows \in Seq(Event)
    BY <1>6 DEF Blob
  <2>2. rows \in Seq(Event)
    <3>1. /\ Len(b.rows) \in Nat /\ DOMAIN b.rows = 1 .. Len(b.rows)
          /\ \A i \in DOMAIN b.rows : b.rows[i] \in Event
      BY <2>1
    <3>2. \A row \in Event : [row EXCEPT !.content = Blank] \in Event
      BY DEF Event, Content
    <3>3. CASE rows = b.rows
      BY <2>1, <3>3
    <3>4. CASE \E n : rows = [i \in DOMAIN b.rows |-> IF i <= n \/ b.rows[i].id \in Found THEN b.rows[i]
                                                      ELSE [b.rows[i] EXCEPT !.content = Blank]]
      BY <3>1, <3>2, <3>4
    <3> QED
      BY <1>2, <3>3, <3>4 DEF Hydrations
  <2> QED
    BY <1>3, <1>6, <2>2 DEF Blob
<1>8. Begins(c)
  <2>1. SUFFICES ASSUME c.kind = "snapshot", ~Deleted(c.stream), \E e \in Engines : NumberedBy(c.stream, e)
                 PROVE  /\ Len(c.rows) <= Len(events[c.stream])
                        /\ \A i \in DOMAIN c.rows : c.rows[i] = events[c.stream][i]
    BY DEF Begins
  <2>2. /\ Len(b.rows) <= Len(events[b.stream])
        /\ \A i \in DOMAIN b.rows : b.rows[i] = events[b.stream][i]
    BY <1>6, <1>7, <2>1 DEF Begins
  <2>3. b.stream \in Streams /\ b.rows \in Seq(Event) /\ events[b.stream] \in Seq(Event)
    BY <1>5, <1>6 DEF Blob, TypeOK
  <2>4. \A i \in DOMAIN b.rows : i \in DOMAIN events[b.stream]
    <3>1. /\ DOMAIN b.rows = 1 .. Len(b.rows) /\ DOMAIN events[b.stream] = 1 .. Len(events[b.stream])
          /\ Len(b.rows) \in Nat /\ Len(events[b.stream]) \in Nat
      BY <2>3
    <3> QED
      BY <2>2, <3>1
  <2>5. \A i \in DOMAIN b.rows : b.rows[i].id \in Found
    BY <2>2, <2>3, <2>4 DEF Found, AllIds, IdsOf
  <2>6. rows = b.rows
    BY <1>2, <2>5 DEF Hydrations
  <2> QED
    BY <1>7, <2>2, <2>6
<1>9. \A d \in saved' : d \in Blob /\ Begins(d)
  BY <1>2, <1>3, <1>5, <1>7, <1>8 DEF SnapshotsSound, TypeOK
<1>10. /\ stage' \in [Jobs -> Stage]
       /\ \A k \in Jobs : stage'[k] = stage[k] \/ (k = j /\ stage[k] \in Waiting /\ stage'[k] = "ok")
  BY <1>4, <1>5 DEF TypeOK, Stage, Waiting
<1> QED
  BY <1>4, <1>5, <1>6, <1>9, <1>10, EndKeeps DEF TypeOK

\* A stream's head is a committed event, or there is none.
LEMMA HeadStands ==
  ASSUME TypeOK, NEW s \in Streams
  PROVE  head[s] \in Parent /\ Stands(head[s])
<1>1. /\ head[s] \in Parent /\ events[s] \in Seq(Event)
      /\ IF events[s] = << >> THEN head[s] = <<Genesis, 0>> ELSE head[s] = Last(events[s]).id
  BY DEF TypeOK
<1>2. CASE events[s] = << >>
  BY <1>1, <1>2 DEF Stands
<1>3. CASE events[s] # << >>
  <2>1. Len(events[s]) \in DOMAIN events[s]
    BY <1>1, <1>3
  <2>2. head[s] = events[s][Len(events[s])].id
    BY <1>1, <1>3 DEF Last
  <2>3. head[s] \in AllIds
    BY <2>1, <2>2 DEF AllIds, IdsOf
  <2> QED
    BY <1>1, <2>3 DEF Stands
<1> QED
  BY <1>2, <1>3

\* A job that will write an event.
LEMMA WritingEnters ==
  ASSUME StreamInv, NEW j \in Jobs, NEW kind \in {"append", "sdk", "merge", "fork"}, NEW s \in Streams,
         NEW parents, Start(j, Writing(j, kind, s, parents), "storing"),
         \A p \in parents : p \in Parent /\ Stands(p),
         kind = "sdk" \/ head[s] \in parents,
         s \in known \/ Unborn(s),
         Claim(s), UNCHANGED <<events, head, counter, cache, saved, known>>
  PROVE  StreamInv' /\ JobsKept
<1>1. PICK r : r = Writing(j, kind, s, parents)
  OBVIOUS
<1>2. /\ r.kind = kind /\ r.stream = s /\ r.parents = parents /\ r.todo = <<j>> /\ r.written = 0
      /\ r.blob = NoBlob
      /\ r = [kind |-> kind, stream |-> s, parents |-> parents, todo |-> <<j>>, written |-> 0, blob |-> NoBlob]
  BY <1>1 DEF Writing
<1>3. /\ stage[j] = "idle" /\ kind \in Kinds /\ job' = [job EXCEPT ![j] = r]
      /\ stage' = [stage EXCEPT ![j] = "storing"]
  BY <1>1, <1>2 DEF Start
<1>4. r \in Job
  <2>1. <<j>> \in Seq(Content)
    BY DEF Content
  <2> QED
    BY <1>2, <1>3, <2>1 DEF Job
<1>5. Begins(r.blob)
  BY <1>2 DEF Begins, NoBlob
<1>6. Enters(j, r, "storing")
  BY <1>2, <1>3, <1>4, <1>5 DEF Enters, Waiting
<1> QED
  BY <1>6, EnterKeeps

LEMMA BeginAppendKeeps ==
  ASSUME StreamInv, NEW j \in Jobs, NEW s \in Streams, BeginAppend(j, s)
  PROVE  StreamInv' /\ JobsKept
<1>1. TypeOK
  BY DEF StreamInv
<1> QED
  BY <1>1, HeadStands, WritingEnters DEF BeginAppend

LEMMA BeginSdkKeeps ==
  ASSUME StreamInv, NEW j \in Jobs, NEW s \in Streams, BeginSdk(j, s)
  PROVE  StreamInv' /\ JobsKept
<1>1. \A p \in {<<Genesis, 0>>} : p \in Parent /\ Stands(p)
  BY DEF Parent, Stands
<1> QED
  BY <1>1, WritingEnters DEF BeginSdk

LEMMA BeginMergeKeeps ==
  ASSUME StreamInv, NEW j \in Jobs, NEW s \in Streams, NEW t \in Streams, BeginMerge(j, s, t)
  PROVE  StreamInv' /\ JobsKept
<1>1. TypeOK
  BY DEF StreamInv
<1>2. \A p \in {head[s], head[t]} : p \in Parent /\ Stands(p)
  BY <1>1, HeadStands
<1> QED
  BY <1>2, WritingEnters DEF BeginMerge

LEMMA BeginForkKeeps ==
  ASSUME StreamInv, NEW j \in Jobs, NEW from, NEW s \in Streams, BeginFork(j, from, s)
  PROVE  StreamInv' /\ JobsKept
<1>1. TypeOK
  BY DEF StreamInv
<1> QED
  BY <1>1, HeadStands, WritingEnters DEF BeginFork

\* A job that has a blob to store, or to retrieve.
LEMMA BlobEnters ==
  ASSUME StreamInv, NEW j \in Jobs, NEW kind \in {"checkpoint", "snapshot", "resume", "restore"},
         NEW s \in Streams, NEW blob \in Blob, NEW at \in Waiting,
         Start(j, [NoJob EXCEPT !.kind = kind, !.stream = s, !.blob = blob], at),
         at = "retrieving" <=> kind \in {"resume", "restore"},
         kind = "restore" => s = blob.stream /\ blob.kind = "snapshot",
         s \in known, Begins(blob),
         UNCHANGED <<events, head, counter, cache, saved, known, contended>>
  PROVE  StreamInv' /\ JobsKept
<1>1. PICK r : r = [NoJob EXCEPT !.kind = kind, !.stream = s, !.blob = blob]
  OBVIOUS
<1>2. /\ r.kind = kind /\ r.stream = s /\ r.parents = {} /\ r.todo = << >> /\ r.written = 0
      /\ r.blob = blob
      /\ r = [kind |-> kind, stream |-> s, parents |-> {}, todo |-> << >>, written |-> 0, blob |-> blob]
  BY <1>1 DEF NoJob
<1>3. /\ stage[j] = "idle" /\ kind \in Kinds /\ job' = [job EXCEPT ![j] = r]
      /\ stage' = [stage EXCEPT ![j] = at]
  BY <1>1, <1>2 DEF Start
<1>4. r \in Job
  <2>1. << >> \in Seq(Content)
    OBVIOUS
  <2> QED
    BY <1>2, <1>3, <2>1 DEF Job
<1>5. Enters(j, r, at)
  BY <1>2, <1>3, <1>4 DEF Enters, Waiting
<1> QED
  BY <1>5, EnterKeeps

LEMMA BeginCheckpointKeeps ==
  ASSUME StreamInv, NEW j \in Jobs, NEW s \in Streams, BeginCheckpoint(j, s)
  PROVE  StreamInv' /\ JobsKept
<1>1. PICK n : n = IF cache[EngineOf[j]][s] = Cold THEN 0 ELSE cache[EngineOf[j]][s]
  OBVIOUS
<1>2. PICK b : b = [kind |-> "checkpoint", stream |-> s, rows |-> << >>, epoch |-> n]
  OBVIOUS
<1>3. n \in Nat
  BY <1>1, JobsAssumption DEF StreamInv, TypeOK
<1>4. b \in Blob /\ b.kind = "checkpoint"
  BY <1>2, <1>3 DEF Blob
<1>5. /\ s \in known
      /\ Start(j, [NoJob EXCEPT !.kind = "checkpoint", !.stream = s, !.blob = b], "storing")
      /\ UNCHANGED <<events, head, counter, cache, saved, known, contended>>
  BY <1>1, <1>2 DEF BeginCheckpoint
<1> QED
  BY <1>4, <1>5, BlobEnters DEF Begins, Waiting

LEMMA BeginSnapshotKeeps ==
  ASSUME StreamInv, NEW j \in Jobs, NEW s \in Streams, BeginSnapshot(j, s)
  PROVE  StreamInv' /\ JobsKept
<1>1. TypeOK /\ EpochsSound /\ events[s] \in Seq(Event)
  BY DEF StreamInv, TypeOK
<1>2. PICK rows : rows = Timeline(s)
  OBVIOUS
<1>3. PICK b : b = [kind |-> "snapshot", stream |-> s, epoch |-> 0, rows |-> rows]
  OBVIOUS
<1>4. rows \in Seq(Event)
  BY <1>1, <1>2, TimelineRows
<1>5. b \in Blob /\ b.kind = "snapshot" /\ b.stream = s /\ b.rows = rows
  BY <1>3, <1>4 DEF Blob
<1>6. Begins(b)
  <2>1. ASSUME NEW e \in Engines, NumberedBy(s, e)
        PROVE  rows = events[s]
    <3>1. \A i \in DOMAIN events[s] : events[s][i].epoch = i
      BY <1>1, <2>1 DEF EpochsSound
    <3>2. \A i, k \in DOMAIN events[s] : i < k => events[s][i].epoch <= events[s][k].epoch
      BY <1>1, <3>1
    <3> QED
      BY <1>1, <1>2, <3>2, TimelineInOrder
  <2>2. Len(events[s]) \in Nat
    BY <1>1
  <2> QED
    BY <1>5, <2>1, <2>2 DEF Begins
<1>7. /\ s \in known
      /\ Start(j, [NoJob EXCEPT !.kind = "snapshot", !.stream = s, !.blob = b], "storing")
      /\ UNCHANGED <<events, head, counter, cache, saved, known, contended>>
  BY <1>2, <1>3 DEF BeginSnapshot
<1> QED
  BY <1>5, <1>6, <1>7, BlobEnters DEF Waiting

LEMMA BeginRetrieveKeeps ==
  ASSUME StreamInv, NEW j \in Jobs, NEW kind \in {"resume", "restore"}, NEW s \in Streams,
         NEW blob \in saved, BeginRetrieve(j, kind, s, blob)
  PROVE  StreamInv' /\ JobsKept
<1>1. blob \in Blob /\ Begins(blob)
  BY DEF StreamInv, TypeOK, SnapshotsSound
<1> QED
  BY <1>1, BlobEnters DEF BeginRetrieve, Waiting

\* A deletion takes the rows, the stream's record and the cached epoch at once.
LEMMA DeleteKeeps ==
  ASSUME StreamInv, NEW j \in Jobs, NEW s \in Streams, Delete(j, s)
  PROVE  StreamInv' /\ JobsKept
<1>1. /\ TypeOK /\ JobsSound /\ RowsHome /\ ParentsStand /\ UncontendedIsChain /\ OneWriter
      /\ CachesSound /\ EpochsSound /\ RestoresSound /\ SnapshotsSound
  BY DEF StreamInv
<1>2. PICK r : r = [NoJob EXCEPT !.kind = "delete", !.stream = s]
  OBVIOUS
<1>3. /\ r.kind = "delete" /\ r.stream = s /\ r.parents = {} /\ r.todo = << >> /\ r.written = 0
      /\ r.blob = NoBlob
      /\ r = [kind |-> "delete", stream |-> s, parents |-> {}, todo |-> << >>, written |-> 0, blob |-> NoBlob]
  BY <1>2 DEF NoJob
<1>4. /\ stage[j] = "idle" /\ s \in known /\ "delete" \in Kinds
      /\ stage' = [stage EXCEPT ![j] = "ok"] /\ job' = [job EXCEPT ![j] = r]
      /\ events' = [events EXCEPT ![s] = << >>] /\ head' = [head EXCEPT ![s] = <<Genesis, 0>>]
      /\ counter' = [counter EXCEPT ![s] = 0] /\ cache' = [cache EXCEPT ![EngineOf[j]][s] = Cold]
      /\ saved' = saved /\ known' = known /\ Claim(s)
  BY <1>2 DEF Delete, Emptied
<1>5. /\ job'[j] = r /\ stage'[j] = "ok"
      /\ \A k \in Jobs : k # j => job'[k] = job[k] /\ stage'[k] = stage[k]
      /\ job[j] = NoJob /\ job[j].kind = "none" /\ job[j].written = 0 /\ job[j].todo = << >>
  BY <1>1, <1>4 DEF TypeOK, JobsSound, NoJob
<1>6. /\ events'[s] = << >> /\ head'[s] = <<Genesis, 0>> /\ counter'[s] = 0
      /\ \A t \in Streams : t # s => /\ events'[t] = events[t] /\ head'[t] = head[t]
                                     /\ counter'[t] = counter[t]
      /\ \A d \in Engines, t \in Streams : cache'[d][t] \in {Cold, cache[d][t]}
      /\ cache'[EngineOf[j]][s] = Cold
  BY <1>1, <1>4, JobsAssumption DEF TypeOK
<1>7. contended \subseteq contended' /\ contended' \subseteq contended \cup {s}
      /\ (s \notin contended' => Writers(s) = {})
  BY <1>4 DEF Claim
<1>8. TypeOK'
  <2>1. r \in Job
    <3>1. << >> \in Seq(Content)
      OBVIOUS
    <3> QED
      BY <1>3, <1>4, <3>1 DEF Job
  <2>2. stage' \in [Jobs -> Stage] /\ job' \in [Jobs -> Job]
    BY <1>1, <1>4, <2>1 DEF TypeOK, Stage
  <2>3. /\ events' \in [Streams -> Seq(Event)] /\ head' \in [Streams -> Parent]
        /\ counter' \in [Streams -> Nat] /\ cache' \in [Engines -> [Streams -> Nat \cup {Cold}]]
    <3>1. << >> \in Seq(Event) /\ <<Genesis, 0>> \in Parent
      BY DEF Parent
    <3> QED
      BY <1>1, <1>4, <3>1 DEF TypeOK
  <2>4. saved' \subseteq Blob /\ known' \subseteq Streams /\ contended' \subseteq Streams
    BY <1>1, <1>4, <1>7 DEF TypeOK
  <2>5. ASSUME NEW t \in Streams
        PROVE  IF events'[t] = << >> THEN head'[t] = <<Genesis, 0>> /\ counter'[t] = 0
               ELSE head'[t] = Last(events'[t]).id /\ counter'[t] = Last(events'[t]).epoch
    BY <1>1, <1>6 DEF TypeOK
  <2> QED
    BY <2>2, <2>3, <2>4, <2>5 DEF TypeOK
<1>9. /\ \A k \in Jobs : job'[k].written \in Nat /\ job[k].written \in Nat
      /\ JobsKept
  <2>1. \A k \in Jobs : job'[k].written \in Nat /\ job[k].written \in Nat
    BY <1>1, <1>3, <1>5, JobTypes
  <2> QED
    BY <1>3, <1>5, <2>1 DEF JobsKept, Numbers
<1>10. JobsSound'
  BY <1>1, <1>3, <1>5 DEF JobsSound
<1>11. Deleted(s)'
  BY <1>3, <1>5 DEF Deleted
<1>12. RowsHome'
  <2> SUFFICES ASSUME NEW t \in Streams, NEW i \in DOMAIN events'[t], NEW id \in {events'[t][i].id}
               PROVE  id[2] \in 1 .. job'[id[1]].written /\ job'[id[1]].stream = t
    BY DEF RowsHome
  <2>1. t # s /\ i \in DOMAIN events[t] /\ id = events[t][i].id
    BY <1>6
  <2>2. /\ id[1] \in Jobs /\ id[2] \in Nat /\ id[2] >= 1 /\ id[2] <= job[id[1]].written
        /\ job[id[1]].written > 0 /\ job[id[1]].stream = t
    BY <1>1, <2>1, Written
  <2>3. /\ job'[id[1]].written >= job[id[1]].written /\ job'[id[1]].stream = t
        /\ job'[id[1]].written \in Nat /\ job[id[1]].written \in Nat
    BY <1>9, <2>2 DEF JobsKept
  <2> QED
    BY <2>2, <2>3
<1>13. ParentsStand'
  <2>1. \A t \in Streams : IdsOf(t) \subseteq IdsOf(t)' \/ Deleted(t)'
    BY <1>6, <1>11 DEF IdsOf
  <2>2. \A p : Stands(p) => Stands(p)'
    BY <1>1, <1>9, <2>1, StandsStill
  <2>3. \A k \in Jobs : \A p \in job'[k].parents : Stands(p)
    BY <1>1, <1>3, <1>5 DEF ParentsStand
  <2>4. \A t \in Streams : \A i \in DOMAIN events'[t] : \A p \in events'[t][i].parents : Stands(p)
    BY <1>1, <1>6 DEF ParentsStand
  <2> QED
    BY <2>2, <2>3, <2>4 DEF ParentsStand
<1>14. UncontendedIsChain'
  <2> SUFFICES ASSUME NEW t \in Streams \ contended' PROVE ChainOf(t)'
    BY DEF UncontendedIsChain, ChainOf
  <2>1. CASE t = s
    BY <1>6, <2>1 DEF ChainOf
  <2>2. CASE t # s
    <3>1. ChainOf(t)
      BY <1>1, <1>7 DEF UncontendedIsChain, ChainOf
    <3> QED
      BY <1>1, <1>6, <1>9, <2>2, <3>1, ChainOfStays
  <2> QED
    BY <2>1, <2>2
<1>15. OneWriter'
  <2>1. SUFFICES ASSUME NEW t \in Streams \ contended', NEW k \in Writers(t)'
                 PROVE  /\ \A l \in Writers(t)' : k = l
                        /\ job'[k].kind = "sdk" \/ head'[t] \in job'[k].parents
    BY DEF OneWriter
  <2>2. \A l \in Writers(t)' : l \in Writers(t) /\ l # j
    BY <1>3, <1>5 DEF Writers
  <2>3. k \in Jobs /\ k # j /\ job'[k] = job[k] /\ t # s
    BY <1>5, <1>7, <2>1, <2>2 DEF Writers
  <2> QED
    BY <1>1, <1>6, <1>7, <2>1, <2>2, <2>3 DEF OneWriter
<1>16. CachesSound'
  BY <1>1, <1>6, <1>9, CachesStand
<1>17. EpochsSound'
  <2> SUFFICES ASSUME NEW t \in Streams, NEW e \in Engines, NumberedBy(t, e)'
               PROVE  /\ counter'[t] = Len(events'[t])
                      /\ cache'[e][t] \in {Cold, Len(events'[t])}
                      /\ \A i \in DOMAIN events'[t] : events'[t][i].epoch = i
    BY DEF EpochsSound
  <2>1. CASE t = s
    <3>1. Numbers(j)'
      BY <1>3, <1>5 DEF Numbers
    <3>2. EngineOf[j] = e
      BY <1>3, <1>5, <2>1, <3>1 DEF NumberedBy
    <3> QED
      BY <1>6, <2>1, <3>2
  <2>2. CASE t # s
    <3>1. NumberedBy(t, e)
      BY <1>9, Lasts
    <3> QED
      BY <1>1, <1>6, <2>2, <3>1 DEF EpochsSound
  <2> QED
    BY <2>1, <2>2
<1>18. SnapshotsSound'
  <2>1. ASSUME NEW t \in Streams
        PROVE  \/ Deleted(t)'
               \/ /\ Len(events[t]) <= Len(events'[t])
                  /\ \A i \in DOMAIN events[t] : events'[t][i] = events[t][i]
    <3>1. Len(events[t]) \in Nat
      BY <1>1 DEF TypeOK
    <3> QED
      BY <1>6, <1>11, <3>1
  <2>2. \A k \in Jobs : job'[k].blob \in {job[k].blob, NoBlob}
    BY <1>3, <1>5
  <2>3. events' \in [Streams -> Seq(Event)]
    BY <1>8 DEF TypeOK
  <2> QED
    BY <1>1, <1>4, <1>9, <2>1, <2>2, <2>3, SnapshotsGrow
<1>19. RestoresSound'
  <2> SUFFICES ASSUME NEW k \in Jobs, NEW t \in {job'[k].stream}, job'[k].kind = "restore",
                      t # job'[k].blob.stream, ~Deleted(t)'
               PROVE  RestoredRows(k)' /\ Restoring(k)'
    BY DEF RestoresSound
  <2>1. k # j /\ t # s
    BY <1>3, <1>5, <1>11
  <2>2. job'[k] = job[k] /\ stage'[k] = stage[k] /\ t = job[k].stream
    BY <1>5, <2>1
  <2>3. RestoredRows(k) /\ Restoring(k)
    BY <1>1, <1>9, <2>2, Lasts DEF RestoresSound
  <2>4. t \in Streams /\ EngineOf[k] \in Engines
    BY <1>1, <2>2, JobsAssumption DEF JobsSound
  <2>5. stage[k] = "storing" => t \notin known' /\ \A l \in Jobs : l # k => job'[l].stream # t
    BY <1>3, <1>4, <1>5, <2>1, <2>2, <2>3 DEF Restoring
  <2>6. /\ events'[t] = events[t] /\ counter'[t] = counter[t]
        /\ cache'[EngineOf[k]][t] \in {Cold, cache[EngineOf[k]][t]}
    BY <1>6, <2>1, <2>4
  <2> QED
    BY <2>2, <2>3, <2>5, <2>6, RestoredStands
<1> QED
  BY <1>8, <1>9, <1>10, <1>12, <1>13, <1>14, <1>15, <1>16, <1>17, <1>18, <1>19 DEF StreamInv

\* A stream that nobody has drawn yet has no rows, and no epoch is cached for it.
LEMMA UnbornIsBlank ==
  ASSUME StreamInv, NEW s \in Streams, Unborn(s)
  PROVE  /\ events[s] = << >> /\ head[s] = <<Genesis, 0>> /\ counter[s] = 0
         /\ \A d \in Engines : cache[d][s] = Cold
<1>1. TypeOK /\ JobsSound /\ RowsHome /\ CachesSound
  BY DEF StreamInv
<1>2. DOMAIN events[s] = {}
  <2>1. ASSUME NEW i \in DOMAIN events[s] PROVE FALSE
    <3>1. PICK id : id = events[s][i].id
      OBVIOUS
    <3>2. id[1] \in Jobs /\ job[id[1]].stream = s
      BY <1>1, <3>1, Written
    <3> QED
      BY <3>2 DEF Unborn
  <2> QED
    BY <2>1
<1>3. events[s] = << >>
  <2>1. events[s] \in Seq(Event)
    BY <1>1 DEF TypeOK
  <2>2. Len(events[s]) \in Nat /\ DOMAIN events[s] = 1 .. Len(events[s])
    BY <2>1
  <2>3. ASSUME Len(events[s]) # 0 PROVE FALSE
    <3>1. 1 \in 1 .. Len(events[s])
      BY <2>2, <2>3
    <3> QED
      BY <1>2, <2>2, <3>1
  <2> QED
    BY <2>1, <2>3, EmptySeq
<1>4. \A d \in Engines : cache[d][s] = Cold
  BY <1>1 DEF CachesSound, Unborn
<1> QED
  BY <1>1, <1>3, <1>4 DEF TypeOK

\* A restore that has its snapshot starts to write it to a stream of its own.
LEMMA RestoreKeeps ==
  ASSUME StreamInv, NEW j \in Jobs, NEW s \in Streams, Restore(j, s)
  PROVE  StreamInv' /\ JobsKept
<1>1. /\ TypeOK /\ JobsSound /\ RowsHome /\ ParentsStand /\ UncontendedIsChain /\ OneWriter
      /\ CachesSound /\ EpochsSound /\ RestoresSound /\ SnapshotsSound
  BY DEF StreamInv
<1>2. PICK b, contents, hd : b = job[j].blob /\ contents = Contents(b.rows) /\ hd = head[s]
  OBVIOUS
<1>3. PICK u : u = [job[j] EXCEPT !.stream = s]
  OBVIOUS
<1>4. PICK v : v = [u EXCEPT !.todo = contents]
  OBVIOUS
<1>5. PICK r : r = [v EXCEPT !.parents = {hd}]
  OBVIOUS
<1>6. /\ stage[j] = "retrieving" /\ job[j].kind = "restore" /\ Unborn(s)
      /\ stage' = [stage EXCEPT ![j] = IF contents = << >> THEN "ok" ELSE "storing"]
      /\ known' = IF contents = << >> THEN known \cup {s} ELSE known
      /\ events' = events /\ head' = head /\ counter' = counter /\ cache' = cache
      /\ saved' = saved /\ contended' = contended
  BY <1>2 DEF Restore
<1>7. job[j] \in Job
  BY <1>1, JobTypes
<1>8. job' = [job EXCEPT ![j] = r]
  BY <1>1, <1>2, <1>3, <1>4, <1>5, <1>7 DEF Restore, Job, TypeOK
<1>9. /\ b \in Blob /\ b.rows \in Seq(Event) /\ job[j].stream = b.stream
      /\ job[j].written = 0 /\ job[j].todo = << >>
  BY <1>1, <1>2, <1>6 DEF JobsSound, Blob
<1>10. /\ contents \in Seq(Content) /\ Len(contents) = Len(b.rows)
       /\ \A i \in 1 .. Len(contents) : contents[i] = b.rows[i].content
  <2>1. /\ Len(b.rows) \in Nat /\ DOMAIN b.rows = 1 .. Len(b.rows)
        /\ \A i \in DOMAIN b.rows : b.rows[i] \in Event
    BY <1>9
  <2>2. \A row \in Event : row.content \in Content
    BY DEF Event
  <2>3. contents \in [1 .. Len(b.rows) -> Content]
    BY <1>2, <2>1, <2>2 DEF Contents
  <2>4. contents \in Seq(Content) /\ Len(contents) = Len(b.rows)
    BY <2>1, <2>3
  <2> QED
    BY <1>2, <2>1, <2>4 DEF Contents
<1>11. /\ r.kind = "restore" /\ r.stream = s /\ r.todo = contents /\ r.written = 0
       /\ r.blob = b /\ r.parents = {hd}
  BY <1>2, <1>3, <1>4, <1>5, <1>6, <1>7, <1>9 DEF Job
<1>12. /\ events[s] = << >> /\ hd = <<Genesis, 0>> /\ counter[s] = 0
       /\ \A d \in Engines : cache[d][s] = Cold
  BY <1>2, <1>6, UnbornIsBlank
<1>13. s # b.stream
  BY <1>6, <1>9 DEF Unborn
<1>14. /\ job'[j] = r
       /\ stage'[j] = IF contents = << >> THEN "ok" ELSE "storing"
       /\ \A k \in Jobs : k # j => job'[k] = job[k] /\ stage'[k] = stage[k]
  BY <1>1, <1>6, <1>8 DEF TypeOK
<1>15. TypeOK'
  <2>1. r \in Job
    <3>1. u \in Job
      BY <1>3, <1>7 DEF Job
    <3>2. v \in Job
      BY <1>4, <1>10, <3>1 DEF Job
    <3>3. {hd} \subseteq Parent
      BY <1>12 DEF Parent
    <3> QED
      BY <1>5, <3>2, <3>3 DEF Job
  <2>2. stage' \in [Jobs -> Stage] /\ job' \in [Jobs -> Job] /\ known' \subseteq Streams
    BY <1>1, <1>6, <1>8, <2>1 DEF TypeOK, Stage
  <2> QED
    BY <1>1, <1>6, <2>2 DEF TypeOK
<1>16. /\ \A k \in Jobs : job'[k].written \in Nat /\ job[k].written \in Nat
       /\ JobsKept
  <2>1. \A k \in Jobs : job'[k].written \in Nat /\ job[k].written \in Nat
    BY <1>1, <1>11, <1>14, JobTypes
  <2> QED
    BY <1>2, <1>6, <1>9, <1>11, <1>14, <2>1 DEF JobsKept, Numbers
<1>17. JobsSound'
  <2>1. b.kind = "snapshot"
    BY <1>1, <1>2, <1>6 DEF JobsSound
  <2> QED
    BY <1>1, <1>9, <1>11, <1>13, <1>14, <2>1, JobGoesOn
<1>18. RowsHome' /\ ParentsStand' /\ UncontendedIsChain'
  <2>1. \A k \in Jobs : \A p \in job'[k].parents : Stands(p)
    BY <1>1, <1>11, <1>12, <1>14 DEF ParentsStand, Stands
  <2> QED
    BY <1>1, <1>6, <1>16, <2>1, RowsStand
<1>19. OneWriter'
  <2>1. SUFFICES ASSUME NEW t \in Streams \ contended', NEW k \in Writers(t)'
                 PROVE  /\ \A l \in Writers(t)' : k = l
                        /\ job'[k].kind = "sdk" \/ head'[t] \in job'[k].parents
    BY DEF OneWriter
  <2>2. CASE t = s
    <3>1. \A l \in Writers(s)' : l = j
      BY <1>6, <1>14 DEF Writers, Unborn
    <3> QED
      BY <1>2, <1>6, <1>11, <1>14, <2>1, <2>2, <3>1
  <2>3. CASE t # s
    <3>1. \A l \in Writers(t)' : l \in Writers(t) /\ l # j
      BY <1>11, <1>14, <2>3 DEF Writers
    <3>2. job'[k] = job[k]
      BY <1>14, <2>1, <3>1 DEF Writers
    <3> QED
      BY <1>1, <1>6, <2>1, <3>1, <3>2 DEF OneWriter
  <2> QED
    BY <2>2, <2>3
<1>20. CachesSound'
  BY <1>1, <1>6, <1>16, CachesStand
<1>21. EpochsSound'
  BY <1>1, <1>6, <1>16, EpochsStand
<1>22. SnapshotsSound'
  <2>1. \A k \in Jobs : \A c \in {job'[k].blob} : Begins(c)
    BY <1>1, <1>2, <1>11, <1>14 DEF SnapshotsSound
  <2> QED
    BY <1>1, <1>6, <1>16, <2>1, SnapshotsStand DEF SnapshotsSound
<1>23. RestoresSound'
  <2> SUFFICES ASSUME NEW k \in Jobs, NEW t \in {job'[k].stream}, job'[k].kind = "restore",
                      t # job'[k].blob.stream, ~Deleted(t)'
               PROVE  RestoredRows(k)' /\ Restoring(k)'
    BY DEF RestoresSound
  <2>1. CASE k = j
    <3>1. Len(b.rows) \in Nat
      BY <1>9
    <3>2. Copies(j, r, << >>)
      BY <1>10, <1>11, <3>1 DEF Copies
    <3>3. RestoredRows(j)'
      BY <1>6, <1>11, <1>12, <1>14, <3>2 DEF RestoredRows
    <3>4. EngineOf[j] \in Engines
      BY JobsAssumption
    <3>5. stage'[j] = "storing" =>
            s \notin known' /\ \A l \in Jobs : l # j => job'[l].stream # s
      BY <1>6, <1>14 DEF Unborn
    <3>6. stage'[j] = "ok" => r.todo = << >>
      BY <1>11, <1>14
    <3>7. Len(events'[s]) = 0 /\ counter'[s] = 0 /\ cache'[EngineOf[j]][s] = Cold
      BY <1>6, <1>12, <3>4
    <3>8. Restoring(j)'
      BY <1>11, <1>14, <3>5, <3>6, <3>7 DEF Restoring
    <3> QED
      BY <2>1, <3>3, <3>8
  <2>2. CASE k # j
    <3>1. job'[k] = job[k] /\ stage'[k] = stage[k] /\ t = job[k].stream /\ t # s
      BY <1>6, <1>14, <2>2 DEF Unborn
    <3>2. RestoredRows(k) /\ Restoring(k)
      BY <1>1, <1>16, <3>1, Lasts DEF RestoresSound
    <3>3. stage[k] = "storing" => t \notin known' /\ \A l \in Jobs : l # k => job'[l].stream # t
      BY <1>6, <1>11, <1>14, <3>1, <3>2 DEF Restoring
    <3> QED
      BY <1>6, <3>1, <3>2, <3>3, RestoredStands
  <2> QED
    BY <2>1, <2>2
<1> QED
  BY <1>15, <1>16, <1>17, <1>18, <1>19, <1>20, <1>21, <1>22, <1>23 DEF StreamInv

\* What job j's write changes: it inserts row into stream s.
Inserts(j, s, row, rest) ==
  /\ stage[j] = "storing" /\ job[j].todo # << >> /\ s = job[j].stream
  /\ row = [id |-> <<j, job[j].written + 1>>, parents |-> job[j].parents,
            epoch |-> row.epoch, content |-> Head(job[j].todo)]
  /\ row.epoch = IF job[j].kind = "sdk" THEN 0 ELSE NextEpoch(EngineOf[j], s)
  /\ rest = Tail(job[j].todo)
  /\ events' = [events EXCEPT ![s] = Append(@, row)]
  /\ head' = [head EXCEPT ![s] = row.id]
  /\ counter' = [counter EXCEPT ![s] = row.epoch]
  /\ cache' = IF job[j].kind = "sdk" THEN cache ELSE [cache EXCEPT ![EngineOf[j]][s] = row.epoch]
  /\ stage' = [stage EXCEPT ![j] = IF rest = << >> THEN "ok" ELSE "storing"]
  /\ known' = IF rest = << >> THEN known \cup {s} ELSE known
  /\ saved' = saved /\ contended' = contended

LEMMA WriteInserts ==
  ASSUME TypeOK, JobsSound, NEW j \in Jobs, Write(j)
  PROVE  \E s \in Streams, row \in Event : \E rest, r :
           /\ Inserts(j, s, row, rest) /\ job' = [job EXCEPT ![j] = r] /\ r \in Job
           /\ r.kind = job[j].kind /\ r.stream = s /\ r.blob = job[j].blob /\ r.todo = rest
           /\ r.written = job[j].written + 1 /\ r.parents = {row.id}
<1>1. PICK s, epoch, rest :
        /\ s = job[j].stream /\ rest = Tail(job[j].todo)
        /\ epoch = IF job[j].kind = "sdk" THEN 0 ELSE NextEpoch(EngineOf[j], s)
  OBVIOUS
<1>2. PICK row : row = RowOf(j, epoch)
  OBVIOUS
<1>3. /\ row = [id |-> <<j, job[j].written + 1>>, parents |-> job[j].parents,
                epoch |-> epoch, content |-> Head(job[j].todo)]
      /\ row.epoch = epoch /\ row.id = <<j, job[j].written + 1>>
  BY <1>2 DEF RowOf
<1>4. PICK u : u = [job[j] EXCEPT !.todo = rest]
  OBVIOUS
<1>5. PICK v : v = [u EXCEPT !.written = @ + 1]
  OBVIOUS
<1>6. PICK r : r = [v EXCEPT !.parents = {row.id}]
  OBVIOUS
<1>7. /\ stage[j] = "storing" /\ job[j].todo # << >>
      /\ Insert(s, row)
      /\ cache' = IF job[j].kind = "sdk" THEN cache ELSE [cache EXCEPT ![EngineOf[j]][s] = epoch]
      /\ job' = [job EXCEPT ![j].todo = rest, ![j].written = @ + 1, ![j].parents = {row.id}]
      /\ stage' = [stage EXCEPT ![j] = IF rest = << >> THEN "ok" ELSE "storing"]
      /\ known' = IF rest = << >> THEN known \cup {s} ELSE known
      /\ saved' = saved /\ contended' = contended
  BY <1>1, <1>2 DEF Write
<1>8. Inserts(j, s, row, rest)
  BY <1>1, <1>3, <1>7 DEF Inserts, Insert
<1>9. job[j] \in Job
  BY JobTypes
<1>10. job' = [job EXCEPT ![j] = r]
  BY <1>4, <1>5, <1>6, <1>7, <1>9 DEF Job, TypeOK
<1>11. /\ r.kind = job[j].kind /\ r.stream = s /\ r.blob = job[j].blob /\ r.todo = rest
       /\ r.written = job[j].written + 1 /\ r.parents = {row.id}
  BY <1>1, <1>4, <1>5, <1>6, <1>9 DEF Job
<1>12. /\ job[j].written \in Nat /\ job[j].todo \in Seq(Content) /\ job[j].parents \subseteq Parent
  BY JobTypes
<1>13. /\ rest \in Seq(Content) /\ Head(job[j].todo) \in Content
  BY <1>1, <1>7, <1>12
<1>14. s \in Streams /\ epoch \in Nat /\ EngineOf[j] \in Engines
  <2>1. s \in Streams /\ EngineOf[j] \in Engines
    BY <1>1, <1>7, JobsAssumption DEF JobsSound
  <2>2. counter[s] \in Nat /\ cache[EngineOf[j]][s] \in Nat \cup {Cold}
    BY <2>1 DEF TypeOK
  <2> QED
    BY <1>1, <2>1, <2>2 DEF NextEpoch
<1>15. row \in Event /\ row.id \in Parent
  <2>1. <<j, job[j].written + 1>> \in EventId
    BY <1>12 DEF EventId
  <2> QED
    BY <1>3, <1>12, <1>13, <1>14, <2>1 DEF Event, Parent
<1>16. r \in Job
  <2>1. u \in Job
    BY <1>4, <1>9, <1>13 DEF Job
  <2>2. v \in Job
    BY <1>5, <2>1 DEF Job
  <2> QED
    BY <1>6, <1>15, <2>2 DEF Job
<1> QED
  BY <1>8, <1>10, <1>11, <1>14, <1>15, <1>16

\* A write of an event adds a row to the end of its job's stream.
LEMMA WriteKeeps ==
  ASSUME StreamInv, NEW j \in Jobs, Write(j)
  PROVE  StreamInv' /\ JobsKept
<1>1. /\ TypeOK /\ JobsSound /\ RowsHome /\ ParentsStand /\ UncontendedIsChain /\ OneWriter
      /\ CachesSound /\ EpochsSound /\ RestoresSound /\ SnapshotsSound
  BY DEF StreamInv
<1>2. PICK s \in Streams, row \in Event : \E rest, r :
        /\ Inserts(j, s, row, rest) /\ job' = [job EXCEPT ![j] = r] /\ r \in Job
        /\ r.kind = job[j].kind /\ r.stream = s /\ r.blob = job[j].blob /\ r.todo = rest
        /\ r.written = job[j].written + 1 /\ r.parents = {row.id}
  BY <1>1, WriteInserts
<1>3. PICK rest, r :
        /\ Inserts(j, s, row, rest) /\ job' = [job EXCEPT ![j] = r] /\ r \in Job
        /\ r.kind = job[j].kind /\ r.stream = s /\ r.blob = job[j].blob /\ r.todo = rest
        /\ r.written = job[j].written + 1 /\ r.parents = {row.id}
  BY <1>2
<1>4. PICK w, todo, b : w = job[j].written /\ todo = job[j].todo /\ b = job[j].blob
  OBVIOUS
<1>5. PICK rows, n : rows = events[s] /\ n = Len(rows)
  OBVIOUS
<1>6. /\ stage[j] = "storing" /\ todo # << >> /\ job[j].stream = s /\ rest = Tail(todo)
      /\ row.id = <<j, w + 1>> /\ row.parents = job[j].parents /\ row.content = Head(todo)
      /\ row.epoch = IF job[j].kind = "sdk" THEN 0 ELSE NextEpoch(EngineOf[j], s)
      /\ cache' = IF job[j].kind = "sdk" THEN cache ELSE [cache EXCEPT ![EngineOf[j]][s] = row.epoch]
      /\ stage' = [stage EXCEPT ![j] = IF rest = << >> THEN "ok" ELSE "storing"]
      /\ known' = IF rest = << >> THEN known \cup {s} ELSE known
      /\ saved' = saved /\ contended' = contended
  BY <1>3, <1>4 DEF Inserts
<1>7. /\ rows \in Seq(Event) /\ n \in Nat /\ DOMAIN rows = 1 .. n
      /\ w \in Nat /\ todo \in Seq(Content) /\ EngineOf[j] \in Engines
  BY <1>1, <1>4, <1>5, JobTypes, JobsAssumption DEF TypeOK
<1>8. PICK more : more = Append(rows, row)
  OBVIOUS
<1>9. /\ more \in Seq(Event) /\ Len(more) = n + 1 /\ DOMAIN more = 1 .. n + 1
      /\ more[n + 1] = row /\ \A i \in 1 .. n : more[i] = rows[i]
  BY <1>5, <1>7, <1>8
<1>10. /\ events' = [events EXCEPT ![s] = more] /\ head' = [head EXCEPT ![s] = row.id]
       /\ counter' = [counter EXCEPT ![s] = row.epoch]
  BY <1>1, <1>3, <1>5, <1>8 DEF Inserts, TypeOK
<1>11. /\ events'[s] = more /\ head'[s] = row.id /\ counter'[s] = row.epoch
       /\ \A t \in Streams : t # s => /\ events'[t] = events[t] /\ head'[t] = head[t]
                                      /\ counter'[t] = counter[t]
  BY <1>1, <1>10 DEF TypeOK
<1>12. /\ row.epoch \in Nat /\ row.id \in Parent
  BY DEF Event, Parent
<1>13. /\ cache' \in [Engines -> [Streams -> Nat \cup {Cold}]]
       /\ \A d \in Engines, t \in Streams :
            cache'[d][t] = IF d = EngineOf[j] /\ t = s /\ job[j].kind # "sdk" THEN row.epoch
                           ELSE cache[d][t]
  BY <1>1, <1>6, <1>7, <1>12 DEF TypeOK
<1>14. /\ job'[j] = r /\ stage'[j] = IF rest = << >> THEN "ok" ELSE "storing"
       /\ \A k \in Jobs : k # j => job'[k] = job[k] /\ stage'[k] = stage[k]
  BY <1>1, <1>3, <1>6 DEF TypeOK
<1>15. /\ job[j].kind \notin {"none", "checkpoint", "snapshot", "resume"}
       /\ job[j].kind = "restore" => s # b.stream
       /\ Numbers(j)
  BY <1>1, <1>4, <1>6 DEF JobsSound, Numbers
<1>16. TypeOK'
  <2>1. stage' \in [Jobs -> Stage] /\ job' \in [Jobs -> Job] /\ known' \subseteq Streams
    BY <1>1, <1>3, <1>6 DEF TypeOK, Stage
  <2>2. /\ events' \in [Streams -> Seq(Event)] /\ head' \in [Streams -> Parent]
        /\ counter' \in [Streams -> Nat]
    BY <1>1, <1>9, <1>10, <1>12 DEF TypeOK
  <2>3. ASSUME NEW t \in Streams
        PROVE  IF events'[t] = << >> THEN head'[t] = <<Genesis, 0>> /\ counter'[t] = 0
               ELSE head'[t] = Last(events'[t]).id /\ counter'[t] = Last(events'[t]).epoch
    <3>1. CASE t = s
      <4>1. more # << >> /\ Last(more) = row
        BY <1>7, <1>9 DEF Last
      <4> QED
        BY <1>11, <3>1, <4>1
    <3>2. CASE t # s
      BY <1>1, <1>11, <3>2 DEF TypeOK
    <3> QED
      BY <3>1, <3>2
  <2>4. saved' \subseteq Blob /\ contended' \subseteq Streams
    BY <1>1, <1>6 DEF TypeOK
  <2> QED
    BY <1>13, <2>1, <2>2, <2>3, <2>4 DEF TypeOK
<1>17. /\ \A k \in Jobs : job'[k].written \in Nat /\ job[k].written \in Nat
       /\ JobsKept
  <2>1. \A k \in Jobs : job'[k].written \in Nat /\ job[k].written \in Nat
    BY <1>1, <1>3, <1>4, <1>7, <1>14, JobTypes
  <2>2. job'[j].written >= job[j].written
    BY <1>3, <1>4, <1>7, <1>14
  <2>3. Numbers(j)'
    BY <1>3, <1>4, <1>14, <1>15 DEF Numbers
  <2>4. job'[j].kind = job[j].kind /\ job'[j].stream = job[j].stream
    BY <1>3, <1>6, <1>14
  <2>5. ASSUME NEW k \in Jobs, k # j
        PROVE  job'[k] = job[k] /\ (Numbers(k) => Numbers(k)') /\ job'[k].written >= job[k].written
    BY <1>14, <2>1, <2>5 DEF Numbers
  <2>6. JobsKept
    BY <2>2, <2>3, <2>4, <2>5 DEF JobsKept
  <2> QED
    BY <2>1, <2>6
<1>18. JobsSound'
  <2>1. \A k \in Jobs : k # j => job'[k] = job[k] /\ stage'[k] = stage[k]
    BY <1>14
  <2>2. /\ job'[j].kind = job[j].kind /\ job'[j].stream = s /\ job'[j].blob = b
        /\ stage'[j] \in {"ok", "storing"} /\ stage[j] = "storing"
    BY <1>3, <1>4, <1>6, <1>14
  <2>3. job[j].kind = "restore" => b \in Blob /\ b.kind = "snapshot"
    BY <1>1, <1>4 DEF JobsSound
  <2> QED
    BY <1>1, <1>15, <2>1, <2>2, <2>3, JobGoesOn
<1>19. RowsHome'
  <2> SUFFICES ASSUME NEW t \in Streams, NEW i \in DOMAIN events'[t], NEW id \in {events'[t][i].id}
               PROVE  id[2] \in 1 .. job'[id[1]].written /\ job'[id[1]].stream = t
    BY DEF RowsHome
  <2>1. CASE t = s /\ i = n + 1
    <3>1. id = <<j, w + 1>>
      BY <1>6, <1>9, <1>11, <2>1
    <3>2. job'[j].written = w + 1 /\ job'[j].stream = s
      BY <1>3, <1>4, <1>14
    <3> QED
      BY <1>7, <2>1, <3>1, <3>2
  <2>2. CASE ~(t = s /\ i = n + 1)
    <3>1. i \in DOMAIN events[t] /\ id = events[t][i].id
      BY <1>5, <1>7, <1>9, <1>11, <2>2
    <3>2. /\ id[1] \in Jobs /\ id[2] \in Nat /\ id[2] >= 1 /\ id[2] <= job[id[1]].written
          /\ job[id[1]].written > 0 /\ job[id[1]].stream = t
      BY <1>1, <3>1, Written
    <3>3. /\ job'[id[1]].written >= job[id[1]].written /\ job'[id[1]].stream = t
          /\ job'[id[1]].written \in Nat /\ job[id[1]].written \in Nat
      BY <1>17, <3>2 DEF JobsKept
    <3> QED
      BY <3>2, <3>3
  <2> QED
    BY <2>1, <2>2
<1>20. ParentsStand'
  <2>1. \A t \in Streams : IdsOf(t) \subseteq IdsOf(t)'
    <3>1. ASSUME NEW t \in Streams, NEW i \in DOMAIN events[t]
          PROVE  i \in DOMAIN events'[t] /\ events'[t][i] = events[t][i]
      BY <1>5, <1>7, <1>9, <1>11, <3>1
    <3> QED
      BY <3>1 DEF IdsOf
  <2>2. \A p : Stands(p) => Stands(p)'
    BY <1>1, <1>17, <2>1, StandsStill
  <2>3. Stands(row.id)'
    <3>1. n + 1 \in DOMAIN events'[s] /\ events'[s][n + 1] = row
      BY <1>7, <1>9, <1>11
    <3>2. row.id \in AllIds'
      BY <3>1 DEF AllIds, IdsOf
    <3> QED
      BY <3>2 DEF Stands
  <2>4. \A k \in Jobs : \A p \in job'[k].parents : Stands(p)'
    BY <1>1, <1>3, <1>14, <2>2, <2>3 DEF ParentsStand
  <2>5. ASSUME NEW t \in Streams, NEW i \in DOMAIN events'[t], NEW p \in events'[t][i].parents
        PROVE  Stands(p)'
    <3>1. CASE t = s /\ i = n + 1
      <4>1. p \in job[j].parents
        BY <1>6, <1>9, <1>11, <2>5, <3>1
      <4> QED
        BY <1>1, <2>2, <4>1 DEF ParentsStand
    <3>2. CASE ~(t = s /\ i = n + 1)
      <4>1. i \in DOMAIN events[t] /\ events'[t][i] = events[t][i]
        <5>1. CASE t = s
          <6>1. i \in 1 .. n
            BY <1>7, <1>9, <1>11, <2>5, <3>2, <5>1
          <6> QED
            BY <1>5, <1>7, <1>9, <1>11, <5>1, <6>1
        <5>2. CASE t # s
          BY <1>11, <2>5, <5>2
        <5> QED
          BY <5>1, <5>2
      <4> QED
        BY <1>1, <2>2, <2>5, <4>1 DEF ParentsStand
    <3> QED
      BY <3>1, <3>2
  <2> QED
    BY <2>4, <2>5 DEF ParentsStand
<1>21. j \in Writers(s)
  BY <1>4, <1>6 DEF Writers, Waiting
<1>22. UncontendedIsChain'
  <2> SUFFICES ASSUME NEW t \in Streams \ contended' PROVE ChainOf(t)'
    BY DEF UncontendedIsChain, ChainOf
  <2>1. t \notin contended /\ ChainOf(t)
    BY <1>1, <1>6 DEF UncontendedIsChain, ChainOf
  <2>2. CASE t # s
    BY <1>1, <1>11, <1>17, <2>1, <2>2, ChainOfStays
  <2>3. CASE t = s
    <3> SUFFICES ASSUME NEW i \in 1 .. n + 1
                 PROVE  \/ job'[more[i].id[1]].kind = "sdk"
                        \/ (IF i = 1 THEN <<Genesis, 0>> ELSE more[i - 1].id) \in more[i].parents
      BY <1>9, <1>11, <2>3 DEF ChainOf
    <3>1. CASE i = n + 1
      <4>1. job[j].kind = "sdk" \/ head[s] \in job[j].parents
        BY <1>1, <1>21, <2>1, <2>3 DEF OneWriter
      <4>2. more[i] = row /\ job'[row.id[1]].kind = job[j].kind
        BY <1>3, <1>6, <1>9, <1>14, <3>1
      <4>3. head[s] = IF i = 1 THEN <<Genesis, 0>> ELSE more[i - 1].id
        <5>1. IF rows = << >> THEN head[s] = <<Genesis, 0>> ELSE head[s] = Last(rows).id
          BY <1>1, <1>5 DEF TypeOK
        <5>2. CASE n = 0
          <6>1. rows = << >>
            BY <1>5, <1>7, <5>2, EmptySeq
          <6>2. i = 1
            BY <3>1, <5>2
          <6> QED
            BY <5>1, <6>1, <6>2
        <5>3. CASE n # 0
          <6>1. n \in 1 .. n /\ rows # << >> /\ Last(rows) = rows[n]
            BY <1>5, <1>7, <5>3 DEF Last
          <6>2. i # 1 /\ i - 1 = n /\ more[n] = rows[n]
            BY <1>7, <1>9, <3>1, <5>3, <6>1
          <6> QED
            BY <5>1, <6>1, <6>2
        <5> QED
          BY <5>2, <5>3
      <4> QED
        BY <1>6, <4>1, <4>2, <4>3
    <3>2. CASE i # n + 1
      <4>1. i \in 1 .. n /\ more[i] = rows[i] /\ (i # 1 => more[i - 1] = rows[i - 1])
        <5>1. i \in 1 .. n /\ (i # 1 => i - 1 \in 1 .. n)
          BY <1>7, <3>2
        <5> QED
          BY <1>9, <5>1
      <4>2. PICK id : id = rows[i].id
        OBVIOUS
      <4>3. id[1] \in Jobs /\ job[id[1]].kind # "none"
        BY <1>1, <1>5, <1>7, <4>1, <4>2, Written
      <4>4. job'[id[1]].kind = job[id[1]].kind
        BY <1>17, <4>3 DEF JobsKept
      <4>5. \/ job[id[1]].kind = "sdk"
            \/ (IF i = 1 THEN <<Genesis, 0>> ELSE rows[i - 1].id) \in rows[i].parents
        BY <1>5, <1>7, <2>1, <2>3, <4>1, <4>2 DEF ChainOf
      <4> QED
        BY <4>1, <4>2, <4>4, <4>5
    <3> QED
      BY <3>1, <3>2
  <2> QED
    BY <2>2, <2>3
<1>23. OneWriter'
  <2>1. SUFFICES ASSUME NEW t \in Streams \ contended', NEW k \in Writers(t)'
                 PROVE  /\ \A l \in Writers(t)' : k = l
                        /\ job'[k].kind = "sdk" \/ head'[t] \in job'[k].parents
    BY DEF OneWriter
  <2>2. \A l \in Writers(t)' : l \in Writers(t)
    <3>1. ASSUME NEW l \in Writers(t)', l # j PROVE l \in Writers(t)
      BY <1>14, <3>1 DEF Writers
    <3>2. j \in Writers(t)' => t = s
      BY <1>3, <1>14 DEF Writers
    <3> QED
      BY <1>21, <3>1, <3>2
  <2>3. CASE t = s
    <3>1. \A l \in Writers(t)' : l = j
      BY <1>1, <1>6, <1>21, <2>1, <2>2, <2>3 DEF OneWriter
    <3> QED
      BY <1>3, <1>11, <1>14, <2>1, <2>3, <3>1
  <2>4. CASE t # s
    <3>1. k \in Jobs /\ k # j /\ job'[k] = job[k]
      BY <1>3, <1>14, <2>1, <2>4 DEF Writers
    <3> QED
      BY <1>1, <1>6, <1>11, <2>1, <2>2, <2>4, <3>1 DEF OneWriter
  <2> QED
    BY <2>3, <2>4
<1>24. CachesSound'
  <2>1. job'[j].stream = s /\ Numbers(j)'
    BY <1>3, <1>14, <1>15, <1>17 DEF JobsKept
  <2> QED
    BY <1>1, <1>13, <1>17, <2>1, CachesStand

<1>25. EpochsSound'
  <2> SUFFICES ASSUME NEW t \in Streams, NEW e \in Engines, NumberedBy(t, e)'
               PROVE  /\ counter'[t] = Len(events'[t])
                      /\ cache'[e][t] \in {Cold, Len(events'[t])}
                      /\ \A i \in DOMAIN events'[t] : events'[t][i].epoch = i
    BY DEF EpochsSound
  <2>1. NumberedBy(t, e)
    BY <1>17, Lasts
  <2>2. /\ counter[t] = Len(events[t]) /\ cache[e][t] \in {Cold, Len(events[t])}
        /\ \A i \in DOMAIN events[t] : events[t][i].epoch = i
    BY <1>1, <2>1 DEF EpochsSound
  <2>3. CASE t = s
    <3>1. EngineOf[j] = e /\ job[j].kind # "sdk"
      BY <1>6, <1>15, <2>1, <2>3 DEF NumberedBy
    <3>2. counter[s] = n /\ cache[e][s] \in {Cold, n}
      BY <1>5, <2>2, <2>3
    <3>3. row.epoch = n + 1
      BY <1>6, <1>7, <3>1, <3>2 DEF NextEpoch, Cold
    <3>4. \A i \in 1 .. n : rows[i].epoch = i
      BY <1>5, <1>7, <2>2, <2>3
    <3>5. \A i \in 1 .. n + 1 : more[i].epoch = i
      <4> SUFFICES ASSUME NEW i \in 1 .. n + 1 PROVE more[i].epoch = i
        OBVIOUS
      <4>1. CASE i = n + 1
        BY <1>9, <3>3, <4>1
      <4>2. CASE i # n + 1
        <5>1. i \in 1 .. n
          BY <1>7, <4>2
        <5> QED
          BY <1>9, <3>4, <5>1
      <4> QED
        BY <4>1, <4>2
    <3> QED
      BY <1>9, <1>11, <1>13, <2>3, <3>1, <3>3, <3>5
  <2>4. CASE t # s
    BY <1>11, <1>13, <2>2, <2>4
  <2> QED
    BY <2>3, <2>4
<1>26. SnapshotsSound'
  <2>1. ASSUME NEW t \in Streams
        PROVE  /\ Len(events[t]) <= Len(events'[t])
               /\ \A i \in DOMAIN events[t] : events'[t][i] = events[t][i]
    <3>1. CASE t = s
      BY <1>5, <1>7, <1>9, <1>11, <3>1
    <3>2. CASE t # s
      <4>1. Len(events[t]) \in Nat
        BY <1>1 DEF TypeOK
      <4> QED
        BY <1>11, <3>2, <4>1
    <3> QED
      BY <3>1, <3>2
  <2>2. \A k \in Jobs : job'[k].blob \in {job[k].blob, NoBlob}
    BY <1>3, <1>14
  <2>3. events' \in [Streams -> Seq(Event)]
    BY <1>16 DEF TypeOK
  <2> QED
    BY <1>1, <1>6, <1>17, <2>1, <2>2, <2>3, SnapshotsGrow
<1>27. RestoresSound'
  <2> SUFFICES ASSUME NEW k \in Jobs, NEW t \in {job'[k].stream}, job'[k].kind = "restore",
                      t # job'[k].blob.stream, ~Deleted(t)'
               PROVE  RestoredRows(k)' /\ Restoring(k)'
    BY DEF RestoresSound
  <2>1. /\ job'[k].kind = job[k].kind /\ job'[k].stream = job[k].stream /\ job'[k].blob = job[k].blob
        /\ t = job[k].stream
    BY <1>3, <1>6, <1>14
  <2>2. RestoredRows(k) /\ Restoring(k)
    BY <1>1, <1>17, <2>1, Lasts DEF RestoresSound
  <2>3. CASE k = j
    <3>1. t = s /\ job[j].kind = "restore" /\ r.stream = s
      BY <1>3, <1>6, <2>1, <2>3
    <3>2. /\ s \notin known /\ n = w /\ counter[s] = n /\ cache[EngineOf[j]][s] \in {Cold, n}
          /\ \A l \in Jobs : l # j => job[l].stream # s
      BY <1>4, <1>5, <1>6, <2>2, <2>3, <3>1 DEF Restoring
    <3>3. row.epoch = n + 1
      BY <1>6, <1>7, <3>1, <3>2 DEF NextEpoch, Cold
    <3>4. PICK c : c = job[j]
      OBVIOUS
    <3>5. Copies(j, c, rows) /\ c.written = w /\ c.todo = todo /\ c.blob = b
      BY <1>4, <1>5, <1>6, <2>2, <2>3, <3>4 DEF RestoredRows
    <3>6. /\ w <= Len(b.rows) /\ Len(todo) = Len(b.rows) - w
          /\ \A i \in 1 .. Len(todo) : todo[i] = b.rows[w + i].content
          /\ \A i \in 1 .. w : rows[i].id = <<j, i>> /\ rows[i].epoch = i /\ rows[i].content = b.rows[i].content
          /\ \A i \in DOMAIN rows : rows[i].id[1] = j => i <= w
      BY <3>5 DEF Copies
    <3>7. b.rows \in Seq(Event) /\ Len(b.rows) \in Nat
      BY <1>1, <1>4, <3>1 DEF JobsSound, Blob
    <3>8. /\ Len(todo) \in Nat /\ Len(todo) >= 1 /\ Head(todo) = todo[1]
          /\ Len(rest) = Len(todo) - 1 /\ \A i \in 1 .. Len(rest) : rest[i] = todo[i + 1]
      BY <1>6, <1>7
    <3>9. row.id = <<j, w + 1>> /\ row.content = b.rows[w + 1].content
      <4>1. 1 \in 1 .. Len(todo)
        BY <3>8
      <4> QED
        BY <1>6, <3>6, <3>8, <4>1
    <3>10. w + 1 <= Len(b.rows) /\ Len(rest) = Len(b.rows) - (w + 1)
      BY <1>7, <3>6, <3>7, <3>8
    <3>11. \A i \in 1 .. Len(rest) : rest[i] = b.rows[w + 1 + i].content
      <4> SUFFICES ASSUME NEW i \in 1 .. Len(rest) PROVE rest[i] = b.rows[w + 1 + i].content
        OBVIOUS
      <4>1. i + 1 \in 1 .. Len(todo) /\ w + (i + 1) = w + 1 + i
        BY <1>7, <3>8
      <4> QED
        BY <3>6, <3>8, <4>1
    <3>12. \A i \in 1 .. w + 1 : /\ more[i].id = <<j, i>> /\ more[i].epoch = i
                                 /\ more[i].content = b.rows[i].content
      <4> SUFFICES ASSUME NEW i \in 1 .. w + 1
                   PROVE  more[i].id = <<j, i>> /\ more[i].epoch = i /\ more[i].content = b.rows[i].content
        OBVIOUS
      <4>1. CASE i = w + 1
        BY <1>9, <3>2, <3>3, <3>9, <4>1
      <4>2. CASE i # w + 1
        <5>1. i \in 1 .. w
          BY <1>7, <4>2
        <5>2. more[i] = rows[i]
          BY <1>9, <3>2, <5>1
        <5> QED
          BY <3>6, <5>1, <5>2
      <4> QED
        BY <4>1, <4>2
    <3>13. w + 1 <= Len(more) /\ \A i \in DOMAIN more : i <= w + 1
      BY <1>7, <1>9, <3>2
    <3>14. r.written = w + 1 /\ r.todo = rest /\ r.blob = b
      BY <1>3, <1>4
    <3>15. Copies(j, r, more)
      BY <3>10, <3>11, <3>12, <3>13, <3>14 DEF Copies
    <3>16. RestoredRows(j)'
      BY <1>11, <1>14, <3>1, <3>15 DEF RestoredRows
    <3>17. /\ Len(events'[s]) = w + 1 /\ counter'[s] = w + 1 /\ cache'[EngineOf[j]][s] = w + 1
      BY <1>7, <1>9, <1>11, <1>13, <3>1, <3>2, <3>3
    <3>18. stage'[j] = "ok" => r.todo = << >>
      BY <1>14, <3>14
    <3>19. stage'[j] = "storing" => s \notin known' /\ \A l \in Jobs : l # j => job'[l].stream # s
      <4>1. \A l \in Jobs : l # j => job'[l].stream # s
        BY <1>14, <3>2
      <4>2. stage'[j] = "storing" => known' = known
        BY <1>6, <1>14
      <4> QED
        BY <3>2, <4>1, <4>2
    <3>20. Restoring(j)'
      BY <1>14, <3>1, <3>14, <3>17, <3>18, <3>19 DEF Restoring
    <3> QED
      BY <2>3, <3>16, <3>20
  <2>4. CASE k # j /\ t = s
    <3>1. stage[k] # "storing" /\ job'[k] = job[k] /\ stage'[k] = stage[k]
      BY <1>6, <1>14, <2>1, <2>2, <2>4 DEF Restoring
    <3>2. PICK c : c = job[k]
      OBVIOUS
    <3>3. Copies(k, c, rows) /\ c.stream = s
      BY <1>5, <2>1, <2>2, <2>4, <3>2 DEF RestoredRows
    <3>4. c.written \in Nat
      BY <1>17, <3>2
    <3>5. c.written <= n /\ \A i \in 1 .. c.written : more[i] = rows[i]
      <4>1. c.written <= n
        BY <1>5, <3>3 DEF Copies
      <4> QED
        BY <1>7, <1>9, <3>4, <4>1
    <3>6. c.written <= Len(more)
      BY <1>7, <1>9, <3>4, <3>5
    <3>7. \A i \in DOMAIN more : more[i].id[1] = k => i <= c.written
      <4> SUFFICES ASSUME NEW i \in DOMAIN more, more[i].id[1] = k PROVE i <= c.written
        OBVIOUS
      <4>1. i # n + 1
        BY <1>6, <1>9, <2>4
      <4>2. i \in 1 .. n /\ more[i] = rows[i]
        BY <1>7, <1>9, <4>1
      <4> QED
        BY <1>7, <3>3, <4>2 DEF Copies
    <3>8. Copies(k, c, more)
      BY <3>3, <3>5, <3>6, <3>7 DEF Copies
    <3>9. RestoredRows(k)'
      BY <1>11, <3>1, <3>2, <3>3, <3>8 DEF RestoredRows
    <3>10. Restoring(k)'
      BY <2>2, <3>1 DEF Restoring
    <3> QED
      BY <3>9, <3>10
  <2>5. CASE k # j /\ t # s
    <3>1. job'[k] = job[k] /\ stage'[k] = stage[k] /\ t \in Streams /\ EngineOf[k] \in Engines
      BY <1>1, <1>14, <2>1, <2>5, JobsAssumption DEF JobsSound
    <3>2. /\ events'[t] = events[t] /\ counter'[t] = counter[t]
          /\ cache'[EngineOf[k]][t] = cache[EngineOf[k]][t]
      BY <1>11, <1>13, <2>5, <3>1
    <3>3. stage[k] = "storing" => t \notin known' /\ \A l \in Jobs : l # k => job'[l].stream # t
      BY <1>3, <1>6, <1>14, <2>1, <2>2, <2>5 DEF Restoring
    <3> QED
      BY <2>1, <2>2, <3>1, <3>2, <3>3, RestoredStands
  <2> QED
    BY <2>3, <2>4, <2>5
<1> QED
  BY <1>16, <1>17, <1>18, <1>19, <1>20, <1>22, <1>23, <1>24, <1>25, <1>26, <1>27 DEF StreamInv

-----------------------------------------------------------------------------
(***************************************************************************)
(* The theorems                                                            *)
(***************************************************************************)

LEMMA StreamInvHolds == Init => StreamInv
<1> SUFFICES ASSUME Init PROVE StreamInv
  OBVIOUS
<1> USE DEF Init
<1>1. TypeOK
  <2>1. NoJob \in Job
    <3>1. << >> \in Seq(Content)
      OBVIOUS
    <3> QED
      BY <3>1 DEF NoJob, Job
  <2>2. <<Genesis, 0>> \in Parent /\ << >> \in Seq(Event)
    BY DEF Parent
  <2> QED
    BY <2>1, <2>2, StreamsAssumption DEF TypeOK, Stage
<1>2. JobsSound
  BY DEF JobsSound, NoJob
<1>3. RowsHome /\ UncontendedIsChain
  BY DEF RowsHome, UncontendedIsChain
<1>4. ParentsStand
  BY DEF ParentsStand, NoJob
<1>5. OneWriter
  BY DEF OneWriter, Writers, Waiting
<1>6. CachesSound
  BY DEF CachesSound
<1>7. EpochsSound
  BY DEF EpochsSound
<1>8. RestoresSound
  BY DEF RestoresSound, NoJob
<1>9. SnapshotsSound
  BY DEF SnapshotsSound, Begins, NoJob, NoBlob
<1> QED
  BY <1>1, <1>2, <1>3, <1>4, <1>5, <1>6, <1>7, <1>8, <1>9 DEF StreamInv

LEMMA BeginKeeps ==
  ASSUME StreamInv, NEW j \in Jobs, Begin(j)
  PROVE  StreamInv' /\ JobsKept
<1>1. CASE \E s \in Streams : BeginAppend(j, s)
  BY <1>1, BeginAppendKeeps
<1>2. CASE \E s \in Streams : BeginSdk(j, s)
  BY <1>2, BeginSdkKeeps
<1>3. CASE \E s \in Streams : BeginCheckpoint(j, s)
  BY <1>3, BeginCheckpointKeeps
<1>4. CASE \E s \in Streams : BeginSnapshot(j, s)
  BY <1>4, BeginSnapshotKeeps
<1>5. CASE \E s \in Streams : Delete(j, s)
  BY <1>5, DeleteKeeps
<1>6. CASE \E s, t \in Streams : s # t /\ BeginMerge(j, s, t)
  BY <1>6, BeginMergeKeeps
<1>7. CASE \E from \in Found, s \in Streams : BeginFork(j, from, s)
  BY <1>7, BeginForkKeeps
<1>8. CASE \E s \in Streams, blob \in saved : \/ BeginRetrieve(j, "resume", s, blob)
                                              \/ BeginRetrieve(j, "restore", s, blob)
  <2>1. PICK s \in Streams, blob \in saved, kind \in {"resume", "restore"} : BeginRetrieve(j, kind, s, blob)
    BY <1>8
  <2> QED
    BY <2>1, BeginRetrieveKeeps
<1> QED
  BY <1>1, <1>2, <1>3, <1>4, <1>5, <1>6, <1>7, <1>8 DEF Begin

LEMMA NextKeeps ==
  ASSUME StreamInv, [Next]_vars
  PROVE  StreamInv' /\ JobsKept
<1>1. CASE UNCHANGED vars \/ Done
  BY <1>1, NothingKeeps DEF Done
<1>2. ASSUME NEW j \in Jobs, Begin(j) PROVE StreamInv' /\ JobsKept
  BY <1>2, BeginKeeps
<1>3. ASSUME NEW j \in Jobs, Write(j) PROVE StreamInv' /\ JobsKept
  BY <1>3, WriteKeeps
<1>4. ASSUME NEW j \in Jobs, Save(j) PROVE StreamInv' /\ JobsKept
  BY <1>4, SaveKeeps
<1>5. ASSUME NEW j \in Jobs, Resume(j) PROVE StreamInv' /\ JobsKept
  BY <1>5, ResumeKeeps
<1>6. ASSUME NEW j \in Jobs, NEW s \in Streams, Restore(j, s) PROVE StreamInv' /\ JobsKept
  BY <1>6, RestoreKeeps
<1>7. ASSUME NEW j \in Jobs, WalrusFails(j) PROVE StreamInv' /\ JobsKept
  BY <1>7, WalrusFailsKeeps
<1>8. ASSUME NEW e \in Engines, Crash(e) PROVE StreamInv' /\ JobsKept
  BY <1>8, CrashKeeps
<1> QED
  BY <1>1, <1>2, <1>3, <1>4, <1>5, <1>6, <1>7, <1>8 DEF Next

\* What agents are told of streams, and write to them, are steps of streams.
LEMMA RecallSteps ==
  ASSUME StreamInv, [RecallNext]_<<vars, recallVars>>
  PROVE  [Next]_vars
<1>1. \A s \in known : s \in Streams
  BY DEF StreamInv, TypeOK
<1>2. ASSUME NEW j \in Jobs, NEW s, BeginSdk(j, s) PROVE Next
  BY <1>1, <1>2 DEF BeginSdk, Begin, Next
<1>3. CASE UNCHANGED <<vars, recallVars>>
  BY <1>3
<1>4. CASE Next
  BY <1>4
<1>5. CASE \E j \in Jobs, s \in Streams : Remember(j, s) \/ Summarise(j, s)
  BY <1>2, <1>5 DEF Remember, Summarise
<1>6. CASE (\E s \in Streams : StartRun(s)) \/ Prompt \/ Contributed \/ RunRaises
  BY <1>6 DEF StartRun, Prompt, Contributed, RunRaises
<1>7. CASE CloseRun
  BY <1>2, <1>7 DEF CloseRun, Summarise
<1>8. CASE \E j \in Jobs : Contribute(j)
  BY <1>2, <1>8 DEF Contribute
<1>9. CASE Rest
  BY <1>9 DEF Rest
<1> QED
  BY <1>3, <1>4, <1>5, <1>6, <1>7, <1>8, <1>9 DEF RecallNext

LEMMA RecallInvariant == RecallSpec => []StreamInv
<1>1. RecallInit => StreamInv
  BY StreamInvHolds DEF RecallInit
<1>2. StreamInv /\ [RecallNext]_<<vars, recallVars>> => StreamInv'
  BY RecallSteps, NextKeeps
<1> QED
  BY <1>1, <1>2, PTL DEF RecallSpec

\* Agents that remember, summarise and run only ever do to the streams what
\* the clients of MemoryStream may do (summarizer.py and autonomous.py write
\* through StreamClient.append and nothing else).
THEOREM RecallIsStream == RecallSpec => Spec
<1>1. RecallInit => Init
  BY DEF RecallInit
<1>2. StreamInv /\ [RecallNext]_<<vars, recallVars>> => [Next]_vars
  BY RecallSteps
<1> QED
  BY <1>1, <1>2, RecallInvariant, PTL DEF RecallSpec, Spec

\* A stream's record agrees with its rows; a stream that was never written to
\* twice at once is one chain; and what a parent_id names is in the table or
\* went with its stream (memory.py, append, merge, fork and delete_stream).
THEOREM StreamsSound == RecallSpec => []StreamSound
<1>1. StreamInv => StreamSound
  <2>1. SUFFICES ASSUME StreamInv PROVE StreamSound
    OBVIOUS
  <2>2. TypeOK /\ JobsSound /\ UncontendedIsChain /\ ParentsStand
    BY <2>1 DEF StreamInv
  <2>3. ParentsExist
    BY <2>2 DEF ParentsStand, ParentsExist, Stands
  <2> QED
    BY <2>2, <2>3 DEF StreamSound
<1> QED
  BY <1>1, RecallInvariant, PTL

\* A stream numbered by one engine is numbered by that engine's jobs.
LEMMA OneEngineNumbers ==
  ASSUME NEW s, OneEngine(s)
  PROVE  \E e \in Engines : NumberedBy(s, e)
BY DEF OneEngine, NumberedBy, Numbers

\* Where one engine numbers a stream, whatever fails, crashes or is deleted,
\* its epochs are 1, 2, 3... in the order of its rows (_next_epoch).
THEOREM EpochsArePositions == RecallSpec => []EpochIsPosition
<1>1. StreamInv => EpochIsPosition
  BY OneEngineNumbers DEF StreamInv, EpochsSound, EpochIsPosition
<1> QED
  BY <1>1, RecallInvariant, PTL

\* The rows that a restore wrote are in its stream's timeline in the order of
\* the snapshot's.
LEMMA CopiedInOrder ==
  ASSUME TypeOK, NEW j \in Jobs, NEW s \in Streams, NEW r, Copies(j, r, events[s]), r.written \in Nat
  PROVE  LET rows == Timeline(s)
             copied == {n \in DOMAIN rows : rows[n].id[1] = j}
         IN  /\ {rows[n].id[2] : n \in copied} = 1 .. r.written
             /\ \A n \in copied : rows[n].content = r.blob.rows[rows[n].id[2]].content
             /\ \A m, n \in copied : m < n => rows[m].id[2] < rows[n].id[2]
<1>1. PICK rows, own : rows = Timeline(s) /\ own = events[s]
  OBVIOUS
<1>2. own \in Seq(Event) /\ DOMAIN own = 1 .. Len(own) /\ Len(own) \in Nat
  BY <1>1 DEF TypeOK
<1>3. /\ DOMAIN rows = DOMAIN own
      /\ \A i \in DOMAIN own : Place(s, i) \in DOMAIN own /\ rows[Place(s, i)] = own[i]
      /\ \A n \in DOMAIN own : \E i \in DOMAIN own : Place(s, i) = n
  BY <1>1, <1>2, TimelineRows
<1>4. /\ r.written <= Len(own)
      /\ \A k \in 1 .. r.written : /\ own[k].id = <<j, k>> /\ own[k].epoch = k
                                   /\ own[k].content = r.blob.rows[k].content
      /\ \A i \in DOMAIN own : own[i].id[1] = j => i <= r.written
  BY <1>1 DEF Copies
<1>5. \A n \in DOMAIN rows : rows[n].id[1] = j =>
        \E k \in 1 .. r.written : /\ Place(s, k) = n /\ rows[n].id[2] = k
                                  /\ rows[n].content = r.blob.rows[k].content
  <2> SUFFICES ASSUME NEW n \in DOMAIN rows, rows[n].id[1] = j
               PROVE  \E k \in 1 .. r.written : /\ Place(s, k) = n /\ rows[n].id[2] = k
                                                /\ rows[n].content = r.blob.rows[k].content
    OBVIOUS
  <2>1. PICK i \in DOMAIN own : Place(s, i) = n
    BY <1>3
  <2>2. rows[n] = own[i]
    BY <1>3, <2>1
  <2>3. i \in 1 .. r.written
    BY <1>2, <1>4, <2>2
  <2> QED
    BY <1>4, <2>1, <2>2, <2>3
<1>6. \A k \in 1 .. r.written : /\ k \in DOMAIN own /\ Place(s, k) \in DOMAIN rows
                                /\ rows[Place(s, k)].id = <<j, k>>
  <2>1. \A k \in 1 .. r.written : k \in DOMAIN own
    BY <1>2, <1>4
  <2> QED
    BY <1>3, <1>4, <2>1
<1>7. \A k, l \in 1 .. r.written : k < l => Place(s, k) < Place(s, l)
  <2> SUFFICES ASSUME NEW k \in 1 .. r.written, NEW l \in 1 .. r.written, k < l
               PROVE  Place(s, k) < Place(s, l)
    OBVIOUS
  <2>1. k \in DOMAIN own /\ l \in DOMAIN own /\ own[k].epoch < own[l].epoch
    BY <1>4, <1>6
  <2> QED
    BY <1>1, <1>2, <2>1, Places
<1>8. ASSUME NEW m \in DOMAIN rows, NEW n \in DOMAIN rows, rows[m].id[1] = j, rows[n].id[1] = j, m < n
      PROVE  rows[m].id[2] < rows[n].id[2]
  <2>1. PICK k \in 1 .. r.written : Place(s, k) = m /\ rows[m].id[2] = k
    BY <1>5, <1>8
  <2>2. PICK l \in 1 .. r.written : Place(s, l) = n /\ rows[n].id[2] = l
    BY <1>5, <1>8
  <2>3. m \in Nat /\ n \in Nat
    <3>1. m \in 1 .. Len(own) /\ n \in 1 .. Len(own)
      BY <1>2, <1>3
    <3> QED
      BY <1>2, <3>1
  <2>4. ~(l < k) /\ l # k
    BY <1>7, <1>8, <2>1, <2>2, <2>3
  <2> QED
    BY <2>1, <2>2, <2>4
<1> DEFINE copied == {n \in DOMAIN rows : rows[n].id[1] = j}
<1>9. {rows[n].id[2] : n \in copied} = 1 .. r.written
  <2>1. ASSUME NEW k \in 1 .. r.written PROVE k \in {rows[n].id[2] : n \in copied}
    BY <1>6
  <2>2. ASSUME NEW n \in copied PROVE rows[n].id[2] \in 1 .. r.written
    BY <1>5
  <2> QED
    BY <2>1, <2>2
<1>10. \A n \in copied : rows[n].content = r.blob.rows[rows[n].id[2]].content
  BY <1>5
<1>11. \A m, n \in copied : m < n => rows[m].id[2] < rows[n].id[2]
  BY <1>8
<1> QED
  BY <1>1, <1>9, <1>10, <1>11

\* What a snapshot of a stream that one engine numbers holds is how the
\* stream's timeline begins.
LEMMA SnapshotIsPrefix ==
  ASSUME TypeOK, EpochsSound, NEW b \in Blob, Begins(b), b.kind = "snapshot",
         OneEngine(b.stream), ~Deleted(b.stream)
  PROVE  IsPrefix(Contents(b.rows), Contents(Timeline(b.stream)))
<1>1. PICK s, own, rows : s = b.stream /\ own = events[s] /\ rows = b.rows
  OBVIOUS
<1>2. /\ s \in Streams /\ own \in Seq(Event) /\ rows \in Seq(Event)
      /\ DOMAIN own = 1 .. Len(own) /\ Len(own) \in Nat
      /\ DOMAIN rows = 1 .. Len(rows) /\ Len(rows) \in Nat
  <2>1. s \in Streams /\ rows \in Seq(Event)
    BY <1>1 DEF Blob
  <2> QED
    BY <1>1, <2>1 DEF TypeOK
<1>3. PICK e \in Engines : NumberedBy(s, e)
  BY <1>1, OneEngineNumbers
<1>4. Timeline(s) = own
  <2>1. \A i \in DOMAIN own : own[i].epoch = i
    BY <1>1, <1>2, <1>3 DEF EpochsSound
  <2>2. \A i, k \in DOMAIN own : i < k => own[i].epoch <= own[k].epoch
    BY <1>2, <2>1
  <2> QED
    BY <1>1, <1>2, <2>2, TimelineInOrder
<1>5. Len(rows) <= Len(own) /\ \A i \in 1 .. Len(rows) : rows[i] = own[i]
  BY <1>1, <1>2, <1>3 DEF Begins
<1>6. PICK small, big : small = Contents(rows) /\ big = Contents(own)
  OBVIOUS
<1>7. /\ small \in Seq(Content) /\ Len(small) = Len(rows)
      /\ big \in Seq(Content) /\ Len(big) = Len(own)
      /\ \A i \in 1 .. Len(small) : small[i] = big[i]
  <2>1. \A row \in Event : row.content \in Content
    BY DEF Event
  <2>2. /\ small \in [1 .. Len(rows) -> Content] /\ big \in [1 .. Len(own) -> Content]
    BY <1>2, <1>6, <2>1 DEF Contents
  <2>3. /\ small \in Seq(Content) /\ Len(small) = Len(rows)
        /\ big \in Seq(Content) /\ Len(big) = Len(own)
    <3>1. ASSUME NEW k \in Nat, NEW q \in [1 .. k -> Content] PROVE q \in Seq(Content) /\ Len(q) = k
      OBVIOUS
    <3> QED
      BY <1>2, <2>2, <3>1
  <2>4. \A i \in 1 .. Len(rows) : small[i] = big[i]
    BY <1>2, <1>5, <1>6 DEF Contents
  <2> QED
    BY <2>3, <2>4
<1>8. IsPrefix(small, big)
  <2>1. Len(small) \in Nat /\ Len(big) \in Nat /\ Len(small) <= Len(big)
    BY <1>2, <1>5, <1>7
  <2>2. SubSeq(small, 1, Len(small)) = small
    BY <1>7, SubSeqFull
  <2>3. /\ SubSeq(big, 1, Len(small)) \in Seq(Content) /\ Len(SubSeq(big, 1, Len(small))) = Len(small)
        /\ \A i \in 1 .. Len(small) : SubSeq(big, 1, Len(small))[i] = big[i]
    BY <1>7, <2>1
  <2>4. SubSeq(big, 1, Len(small)) = small
    BY <1>7, <2>3, SeqEqual
  <2> QED
    BY <2>1, <2>2, <2>4 DEF IsPrefix
<1> QED
  BY <1>1, <1>4, <1>6, <1>8

\* A restore writes the snapshot's payloads, in their order, all of them by the
\* time it returns, and the snapshot is how the original began (memory.py,
\* snapshot and restore_snapshot).
THEOREM RestoresAreCopies == RecallSpec => []RestoreIsCopy
<1>1. StreamInv => RestoreIsCopy
  <2> SUFFICES ASSUME StreamInv, NEW j \in Jobs, NEW s, NEW blob, s = job[j].stream, blob = job[j].blob,
                      job[j].kind = "restore", s # blob.stream, ~Deleted(s)
               PROVE  LET rows == Timeline(s)
                          copied == {n \in DOMAIN rows : rows[n].id[1] = j}
                      IN /\ {rows[n].id[2] : n \in copied} = 1 .. job[j].written
                         /\ \A n \in copied : rows[n].content = blob.rows[rows[n].id[2]].content
                         /\ \A m, n \in copied : m < n => rows[m].id[2] < rows[n].id[2]
                         /\ stage[j] = "ok" => job[j].written = Len(blob.rows)
                         /\ OneEngine(blob.stream) /\ ~Deleted(blob.stream)
                              => IsPrefix(Contents(blob.rows), Contents(Timeline(blob.stream)))
    BY DEF RestoreIsCopy
  <2>1. TypeOK /\ JobsSound /\ EpochsSound /\ RestoresSound /\ SnapshotsSound
    BY DEF StreamInv
  <2>2. s \in Streams /\ blob \in Blob /\ blob.kind = "snapshot" /\ job[j].written \in Nat
    BY <2>1, JobTypes DEF JobsSound
  <2>3. RestoredRows(j) /\ Restoring(j)
    BY <2>1 DEF RestoresSound
  <2>4. PICK r : r = job[j] /\ Copies(j, r, events[s]) /\ r.blob = blob
    BY <2>3 DEF RestoredRows
  <2>5. stage[j] = "ok" => job[j].written = Len(blob.rows)
    <3>1. stage[j] = "ok" => r.todo = << >>
      BY <2>3, <2>4 DEF Restoring
    <3>2. Len(r.todo) = Len(blob.rows) - r.written /\ Len(blob.rows) \in Nat
      BY <2>2, <2>4 DEF Copies, Blob
    <3>3. r.todo = << >> => Len(r.todo) = 0
      OBVIOUS
    <3> QED
      BY <2>2, <2>4, <3>1, <3>2, <3>3
  <2>6. Begins(blob)
    BY <2>1 DEF SnapshotsSound
  <2>7. OneEngine(blob.stream) /\ ~Deleted(blob.stream)
          => IsPrefix(Contents(blob.rows), Contents(Timeline(blob.stream)))
    BY <2>1, <2>2, <2>6, SnapshotIsPrefix
  <2> QED
    BY <2>1, <2>2, <2>4, <2>5, <2>7, CopiedInOrder
<1> QED
  BY <1>1, RecallInvariant, PTL

-----------------------------------------------------------------------------
(***************************************************************************)
(* What agents are told: the inductive invariant                           *)
(***************************************************************************)

\* Only what create_checkpoint writes is a checkpoint, and it stands for
\* something; it has seen nothing but what was written.  The engine's own events
\* are all memories.
TextsSound ==
  /\ DOMAIN text = Jobs
  /\ \A j \in Jobs :
       /\ stage[j] = "idle" => text[j] = Memory
       /\ text[j].type = "checkpoint" <=> text[j].covers # {}
       /\ text[j].type # "memory" => job[j].kind = "sdk"
       /\ \A id \in text[j].seen : id \in EventId /\ id[2] <= job[id[1]].written

\* The SDK's events have no epoch.
SdkUnnumbered ==
  \A s \in Streams : \A i \in DOMAIN events[s] : \A id \in {events[s][i].id} :
    job[id[1]].kind = "sdk" => events[s][i].epoch = 0

\* The i-th row of s is a checkpoint, is in one, or slipped by one.
KeptOf(s, i) ==
  \/ \A row \in {events[s][i]} : Summarises(row)
  \/ \A id \in {events[s][i].id} : Summarised(s, id)
  \/ SlippedBy(s, i)

\* What a checkpoint saw, written or still to be, is in it or is kept without it.
SeenKept ==
  \A j \in Jobs : \A s \in {job[j].stream} : text[j].type = "checkpoint" =>
    \A i \in DOMAIN events[s] : events[s][i].id \in text[j].seen =>
      events[s][i].id \in text[j].covers \/ KeptOf(s, i)

\* What an autonomous run has contributed are memories.
RunSound ==
  /\ DOMAIN run = {"at", "stream", "turns", "job", "made", "told"}
  /\ run.at # "off" => run.stream \in Streams
  /\ run.at = "writing" => run.job \in Jobs /\ stage[run.job] # "idle" /\ text[run.job] = Memory
  /\ \A id \in run.made : id[1] \in Jobs /\ stage[id[1]] # "idle" /\ text[id[1]] = Memory

RecallInv == StreamInv /\ TextsSound /\ SdkUnnumbered /\ SeenKept /\ RunSound

\* A set of naturals with a bound has a greatest.
LEMMA Greatest ==
  ASSUME NEW n \in Nat, NEW S, S \subseteq 0 .. n, S # {}
  PROVE  Max(S) \in S /\ \A y \in S : y <= Max(S)
<1> DEFINE B == {n - i : i \in S}
<1>1. PICK a \in S : TRUE
  OBVIOUS
<1>2. B \subseteq Nat /\ n - a \in B
  OBVIOUS
<1>3. PICK x \in B : \A y \in B : ~ (<<y, x>> \in OpToRel(<, Nat))
  <2> HIDE DEF B
  <2> QED
    BY <1>2, NatLessThanWellFounded, WFMin
<1>4. \A y \in B : y \in Nat /\ x \in Nat /\ ~ (y < x)
  <2> HIDE DEF B
  <2> QED
    BY <1>2, <1>3 DEF OpToRel
<1>5. PICK i \in S : x = n - i
  BY <1>3
<1>6. \A y \in S : ~ (n - y < n - i)
  BY <1>4, <1>5
<1>7. \A y \in S : i >= y
  <2>1. \A y \in S : y \in Int
    OBVIOUS
  <2> QED
    BY <1>6, <2>1
<1>8. Max(S) \in S /\ \A y \in S : Max(S) >= y
  <2>1. \E m \in S : \A y \in S : m >= y
    BY <1>7
  <2> QED
    BY <2>1 DEF Max
<1>9. Max(S) \in 0 .. n /\ \A y \in S : y \in 0 .. n
  BY <1>8
<1> QED
  BY <1>8, <1>9

\* The place of a timeline's last checkpoint, or 0.
Bound(rows) == Max({0} \cup {i \in DOMAIN rows : IsCheckpoint(rows[i])})

\* After the last checkpoint there are the rows from there on.
LEMMA SinceRows ==
  ASSUME NEW rows \in Seq(Event)
  PROVE  /\ Bound(rows) \in 0 .. Len(rows)
         /\ Bound(rows) # 0 => IsCheckpoint(rows[Bound(rows)])
         /\ \A i \in DOMAIN rows : IsCheckpoint(rows[i]) => i <= Bound(rows)
         /\ Since(rows) = SubSeq(rows, Bound(rows) + 1, Len(rows))
         /\ Since(rows) \in Seq(Event) /\ Len(Since(rows)) = Len(rows) - Bound(rows)
         /\ \A i \in DOMAIN rows : i > Bound(rows) => rows[i] \in ToSet(Since(rows))
<1>1. PICK b : b = Bound(rows)
  OBVIOUS
<1>2. Len(rows) \in Nat /\ DOMAIN rows = 1 .. Len(rows)
  OBVIOUS
<1>3. PICK S : S = {0} \cup {i \in DOMAIN rows : IsCheckpoint(rows[i])}
  OBVIOUS
<1>4. S \subseteq 0 .. Len(rows) /\ S # {}
  BY <1>2, <1>3
<1>5. b \in S /\ \A y \in S : y <= b
  BY <1>1, <1>2, <1>3, <1>4, Greatest DEF Bound
<1>6. /\ b \in 0 .. Len(rows) /\ (b # 0 => IsCheckpoint(rows[b]))
      /\ \A i \in DOMAIN rows : IsCheckpoint(rows[i]) => i <= b
  BY <1>3, <1>4, <1>5
<1>7. Since(rows) = SubSeq(rows, b + 1, Len(rows))
  BY <1>1 DEF Since, Bound
<1>8. PICK rest : rest = SubSeq(rows, b + 1, Len(rows))
  OBVIOUS
<1>9. /\ rest \in Seq(Event) /\ Len(rest) = Len(rows) - b
      /\ \A i \in 1 .. Len(rows) - b : rest[i] = rows[b + i]
  <2>1. b + 1 \in 1 .. Len(rows) + 1 /\ Len(rows) \in (b + 1) - 1 .. Len(rows)
    BY <1>2, <1>6
  <2>2. /\ rest \in Seq(Event)
        /\ Len(rest) = IF b + 1 <= Len(rows) THEN Len(rows) - (b + 1) + 1 ELSE 0
        /\ \A i \in 1 .. Len(rows) - (b + 1) + 1 : rest[i] = rows[b + 1 + i - 1]
    BY <1>2, <1>6, <1>8
  <2>3. Len(rest) = Len(rows) - b
    <3>1. \A l, m \in Nat : m <= l => l - m = IF m + 1 <= l THEN l - (m + 1) + 1 ELSE 0
      OBVIOUS
    <3>2. b \in Nat /\ b <= Len(rows)
      BY <1>2, <1>6
    <3> QED
      BY <1>2, <2>2, <3>1, <3>2
  <2>4. \A i \in 1 .. Len(rows) - b : rest[i] = rows[b + i]
    <3>1. ASSUME NEW i \in 1 .. Len(rows) - b PROVE rest[i] = rows[b + i]
      <4>1. i \in 1 .. Len(rows) - (b + 1) + 1 /\ b + 1 + i - 1 = b + i
        BY <1>2, <1>6
      <4> QED
        BY <2>2, <4>1
    <3> QED
      BY <3>1
  <2> QED
    BY <2>2, <2>3, <2>4
<1>10. ASSUME NEW i \in DOMAIN rows, i > b PROVE rows[i] \in ToSet(rest)
  <2>1. i - b \in 1 .. Len(rows) - b /\ b + (i - b) = i
    BY <1>2, <1>6, <1>10
  <2>2. rest[i - b] = rows[i] /\ i - b \in DOMAIN rest
    BY <1>9, <2>1
  <2> QED
    BY <2>2 DEF ToSet
<1> QED
  BY <1>1, <1>6, <1>7, <1>8, <1>9, <1>10

\* What is not after the last checkpoint is that checkpoint, or has been
\* inserted before one that is in the table.
LEMMA BehindCheckpoint ==
  ASSUME StreamInv, TextsSound, SdkUnnumbered, NEW s \in Streams, NEW i \in DOMAIN events[s],
         events[s][i] \notin ToSet(Since(Timeline(s)))
  PROVE  \E k \in DOMAIN events[s] : IsCheckpoint(events[s][k]) /\ (i = k \/ i < k)
<1>1. TypeOK /\ JobsSound /\ RowsHome /\ events[s] \in Seq(Event)
  BY DEF StreamInv, TypeOK
<1>2. PICK rows, own, b : rows = Timeline(s) /\ own = events[s] /\ b = Bound(rows)
  OBVIOUS
<1>3. /\ rows \in Seq(Event) /\ DOMAIN rows = DOMAIN own
      /\ \A n \in DOMAIN own : Place(s, n) \in DOMAIN own /\ rows[Place(s, n)] = own[n]
      /\ \A n \in DOMAIN own : \E k \in DOMAIN own : Place(s, k) = n
  BY <1>1, <1>2, TimelineRows
<1>4. /\ DOMAIN own = 1 .. Len(own) /\ Len(own) \in Nat /\ Len(rows) = Len(own)
      /\ \A n \in DOMAIN own : own[n].epoch \in Nat
  BY <1>1, <1>2, TimelineRows, RowTypes
<1>5. PICK p : p = Place(s, i)
  OBVIOUS
<1>6. p \in 1 .. Len(own) /\ rows[p] = own[i]
  BY <1>2, <1>3, <1>4, <1>5
<1>7. b \in 0 .. Len(own) /\ (b # 0 => IsCheckpoint(rows[b])) /\ ~(p > b)
  BY <1>2, <1>3, <1>4, <1>6, SinceRows
<1>8. b \in 1 .. Len(own) /\ p <= b
  BY <1>4, <1>6, <1>7
<1>9. PICK k \in DOMAIN own : Place(s, k) = b
  BY <1>3, <1>4, <1>8
<1>10. IsCheckpoint(own[k])
  BY <1>3, <1>7, <1>8, <1>9
<1>11. own[k].epoch = 0
  <2>1. PICK id : id = own[k].id
    OBVIOUS
  <2>2. id[1] \in Jobs
    BY <1>1, <1>2, <2>1, Written
  <2>3. job[id[1]].kind = "sdk"
    BY <1>10, <2>1, <2>2 DEF IsCheckpoint, TextsSound
  <2> QED
    BY <1>2, <2>1, <2>3 DEF SdkUnnumbered
<1>12. ~(k < i /\ own[k].epoch = own[i].epoch) /\ ~(own[k].epoch < own[i].epoch)
  <2>1. i \in DOMAIN own /\ ~(b < p)
    BY <1>2, <1>6, <1>8
  <2> QED
    BY <1>1, <1>2, <1>5, <1>9, <2>1, Places
<1>13. own[i].epoch = 0 /\ ~(k < i)
  <2>1. own[i].epoch \in Nat
    BY <1>2, <1>4
  <2> QED
    BY <1>11, <1>12, <2>1
<1>14. i = k \/ i < k
  <2>1. i \in Nat /\ k \in Nat
    BY <1>2, <1>4, <1>9
  <2> QED
    BY <1>13, <2>1
<1> QED
  BY <1>2, <1>9, <1>10, <1>14

LEMMA NothingIsForgotten ==
  ASSUME StreamInv, TextsSound, SdkUnnumbered, SeenKept
  PROVE  NothingForgotten
<1> SUFFICES ASSUME NEW s \in Streams, NEW i \in DOMAIN events[s],
                    events[s][i] \notin ToSet(Since(Timeline(s)))
             PROVE  KeptOf(s, i)
  BY DEF NothingForgotten, KeptOf
<1>1. TypeOK /\ JobsSound /\ RowsHome
  BY DEF StreamInv
<1>2. PICK k \in DOMAIN events[s] : IsCheckpoint(events[s][k]) /\ (i = k \/ i < k)
  BY BehindCheckpoint
<1>3. PICK c, j, id : c = events[s][k] /\ j = c.id[1] /\ id = events[s][i].id
  OBVIOUS
<1>4. j \in Jobs /\ job[j].stream = s
  BY <1>1, <1>3, Written
<1>5. text[j].type = "checkpoint" /\ text[j].covers # {}
  BY <1>2, <1>3, <1>4 DEF IsCheckpoint, TextsSound
<1>6. Summarises(c) /\ c \in Checkpoints(s)
  BY <1>3, <1>5 DEF Summarises, Checkpoints, ToSet
<1>7. CASE i = k
  BY <1>3, <1>6, <1>7 DEF KeptOf
<1>8. CASE i < k /\ id \notin text[j].seen
  BY <1>3, <1>6, <1>8 DEF KeptOf, SlippedBy
<1>9. CASE id \in text[j].seen
  <2>1. id \in text[j].covers \/ KeptOf(s, i)
    BY <1>3, <1>4, <1>5, <1>9 DEF SeenKept
  <2>2. id \in text[j].covers => Summarised(s, id)
    BY <1>3, <1>6 DEF Summarised
  <2> QED
    BY <1>3, <2>1, <2>2 DEF KeptOf
<1> QED
  BY <1>2, <1>3, <1>7, <1>8, <1>9

\* What a step does to the rows of a stream.
Grows(s) ==
  \/ events'[s] = events[s]
  \/ events'[s] = << >>
  \/ \E j \in Jobs, row \in Event :
       /\ events'[s] = Append(events[s], row) /\ stage[j] = "storing"
       /\ row.id = <<j, job[j].written + 1>> /\ (job[j].kind = "sdk" => row.epoch = 0)

Moves == /\ \A j \in Jobs : stage[j] # "idle" => stage'[j] # "idle"
         /\ \A s \in Streams : Grows(s)

LEMMA StartMoves ==
  ASSUME StreamInv, NEW j \in Jobs, NEW r, NEW at \in {"storing", "retrieving"}, Start(j, r, at), events' = events
  PROVE  Moves
BY DEF StreamInv, TypeOK, Start, Moves, Grows

LEMMA NextMoves ==
  ASSUME StreamInv, [Next]_vars
  PROVE  Moves
<1> USE DEF Moves, Grows
<1>0. TypeOK /\ JobsSound /\ stage \in [Jobs -> Stage]
  BY DEF StreamInv, TypeOK
<1>1. CASE UNCHANGED vars \/ Done
  BY <1>1 DEF Done, vars
<1>2. ASSUME NEW j \in Jobs, Begin(j) PROVE Moves
  <2>1. ASSUME NEW s \in Streams, BeginAppend(j, s) PROVE Moves
    BY <2>1, StartMoves DEF BeginAppend
  <2>2. ASSUME NEW s \in Streams, BeginSdk(j, s) PROVE Moves
    BY <2>2, StartMoves DEF BeginSdk
  <2>3. ASSUME NEW s \in Streams, BeginCheckpoint(j, s) PROVE Moves
    BY <2>3, StartMoves DEF BeginCheckpoint
  <2>4. ASSUME NEW s \in Streams, BeginSnapshot(j, s) PROVE Moves
    BY <2>4, StartMoves DEF BeginSnapshot
  <2>5. ASSUME NEW s \in Streams, Delete(j, s) PROVE Moves
    BY <1>0, <2>5 DEF Delete, Emptied, TypeOK
  <2>6. ASSUME NEW s \in Streams, NEW t \in Streams, BeginMerge(j, s, t) PROVE Moves
    BY <2>6, StartMoves DEF BeginMerge
  <2>7. ASSUME NEW from, NEW s \in Streams, BeginFork(j, from, s) PROVE Moves
    BY <2>7, StartMoves DEF BeginFork
  <2>8. ASSUME NEW kind, NEW s \in Streams, NEW blob, BeginRetrieve(j, kind, s, blob) PROVE Moves
    BY <2>8, StartMoves DEF BeginRetrieve
  <2> QED
    BY <1>2, <2>1, <2>2, <2>3, <2>4, <2>5, <2>6, <2>7, <2>8 DEF Begin
<1>3. ASSUME NEW j \in Jobs, Write(j) PROVE Moves
  <2>1. PICK s \in Streams, row \in Event : \E rest : Inserts(j, s, row, rest)
    BY <1>0, <1>3, WriteInserts
  <2>2. PICK rest : Inserts(j, s, row, rest)
    BY <2>1
  <2>3. /\ stage[j] = "storing" /\ row.id = <<j, job[j].written + 1>>
        /\ (job[j].kind = "sdk" => row.epoch = 0)
        /\ stage' = [stage EXCEPT ![j] = IF rest = << >> THEN "ok" ELSE "storing"]
        /\ events' = [events EXCEPT ![s] = Append(@, row)]
    BY <2>2 DEF Inserts
  <2>4. \A t \in Streams : Grows(t)
    BY <1>0, <2>3 DEF TypeOK
  <2>5. \A k \in Jobs : stage[k] # "idle" => stage'[k] # "idle"
    BY <1>0, <2>3
  <2> QED
    BY <2>4, <2>5
<1>4. ASSUME NEW j \in Jobs, Save(j) \/ Resume(j) \/ WalrusFails(j) PROVE Moves
  BY <1>0, <1>4 DEF Save, Resume, WalrusFails
<1>5. ASSUME NEW j \in Jobs, NEW s \in Streams, Restore(j, s) PROVE Moves
  <2>1. PICK at \in {"ok", "storing"} : stage' = [stage EXCEPT ![j] = at]
    BY <1>5 DEF Restore
  <2> QED
    BY <1>0, <1>5, <2>1 DEF Restore
<1>6. ASSUME NEW e \in Engines, Crash(e) PROVE Moves
  BY <1>0, <1>6 DEF Crash
<1> QED
  BY <1>1, <1>2, <1>3, <1>4, <1>5, <1>6 DEF Next

\* The rows of a stream stay until it is emptied; new ones come last.
LEMMA RowsOf ==
  ASSUME StreamInv, NEW s \in Streams, Grows(s)
  PROVE  \/ events'[s] = << >>
         \/ /\ \A k \in DOMAIN events[s] : k \in DOMAIN events'[s] /\ events'[s][k] = events[s][k]
            /\ \A i \in DOMAIN events'[s] :
                 \/ i \in DOMAIN events[s]
                 \/ \E j \in Jobs : /\ events'[s][i].id = <<j, job[j].written + 1>>
                                    /\ stage[j] = "storing"
                                    /\ job[j].kind = "sdk" => events'[s][i].epoch = 0
<1>1. events[s] \in Seq(Event)
  BY DEF StreamInv, TypeOK
<1>2. CASE events'[s] = events[s] \/ events'[s] = << >>
  BY <1>2
<1>3. ASSUME NEW j \in Jobs, NEW row \in Event,
             events'[s] = Append(events[s], row), stage[j] = "storing",
             row.id = <<j, job[j].written + 1>>, job[j].kind = "sdk" => row.epoch = 0
      PROVE  /\ \A k \in DOMAIN events[s] : k \in DOMAIN events'[s] /\ events'[s][k] = events[s][k]
             /\ \A i \in DOMAIN events'[s] :
                 \/ i \in DOMAIN events[s]
                 \/ \E l \in Jobs : /\ events'[s][i].id = <<l, job[l].written + 1>>
                                    /\ stage[l] = "storing"
                                    /\ job[l].kind = "sdk" => events'[s][i].epoch = 0
  <2>1. PICK rows, more : rows = events[s] /\ more = events'[s] /\ more = Append(rows, row)
    BY <1>3
  <2>2. /\ Len(rows) \in Nat /\ DOMAIN rows = 1 .. Len(rows) /\ DOMAIN more = 1 .. Len(rows) + 1
        /\ more[Len(rows) + 1] = row /\ \A k \in 1 .. Len(rows) : more[k] = rows[k]
    BY <1>1, <2>1
  <2>3. \A k \in DOMAIN rows : k \in DOMAIN more /\ more[k] = rows[k]
    BY <2>2
  <2>4. \A i \in DOMAIN more : i \in DOMAIN rows \/ more[i] = row
    BY <2>2
  <2> QED
    BY <1>3, <2>1, <2>3, <2>4
<1> QED
  BY <1>2, <1>3 DEF Grows

\* A row that is kept stays kept while its stream's rows, and what was said of
\* their writers, stay.
LEMMA KeptStays ==
  ASSUME NEW s \in Streams, NEW i \in DOMAIN events[s], KeptOf(s, i),
         \A k \in DOMAIN events[s] : /\ k \in DOMAIN events'[s] /\ events'[s][k] = events[s][k]
                                     /\ text'[events[s][k].id[1]] = text[events[s][k].id[1]]
  PROVE  KeptOf(s, i)'
<1>1. CASE \A row \in {events[s][i]} : Summarises(row)
  <2>1. PICK row : row = events[s][i]
    OBVIOUS
  <2>2. events'[s][i] = row /\ text'[row.id[1]] = text[row.id[1]] /\ Summarises(row)
    BY <1>1, <2>1
  <2>3. Summarises(row)'
    BY <2>2 DEF Summarises
  <2> QED
    BY <2>2, <2>3 DEF KeptOf
<1>2. CASE \A id \in {events[s][i].id} : Summarised(s, id)
  <2>1. PICK id : id = events[s][i].id
    OBVIOUS
  <2>2. PICK row \in Checkpoints(s) : id \in text[row.id[1]].covers
    BY <1>2, <2>1 DEF Summarised
  <2>3. PICK k \in DOMAIN events[s] : row = events[s][k]
    BY <2>2 DEF Checkpoints, ToSet
  <2>4. k \in DOMAIN events'[s] /\ events'[s][k] = row /\ text'[row.id[1]] = text[row.id[1]]
    BY <2>3
  <2>5. row \in Checkpoints(s)'
    BY <2>2, <2>4 DEF Checkpoints, ToSet, Summarises
  <2>6. Summarised(s, id)'
    BY <2>2, <2>4, <2>5 DEF Summarised
  <2>7. events'[s][i].id = id
    BY <2>1
  <2> QED
    BY <2>6, <2>7 DEF KeptOf
<1>3. CASE SlippedBy(s, i)
  <2>0. PICK k \in DOMAIN events[s] : /\ i < k /\ Summarises(events[s][k])
                                      /\ events[s][i].id \notin text[events[s][k].id[1]].seen
    BY <1>3 DEF SlippedBy
  <2>1. PICK row : /\ i < k /\ row = events[s][k] /\ text[row.id[1]].covers # {}
                   /\ events[s][i].id \notin text[row.id[1]].seen
    BY <2>0 DEF Summarises
  <2>2. k \in DOMAIN events'[s] /\ events'[s][k] = row /\ text'[row.id[1]] = text[row.id[1]]
        /\ events'[s][i] = events[s][i]
    BY <2>1
  <2>3. SlippedBy(s, i)'
    BY <2>1, <2>2 DEF SlippedBy, Summarises
  <2> QED
    BY <2>3 DEF KeptOf
<1> QED
  BY <1>1, <1>2, <1>3 DEF KeptOf

\* Job j begins to write an event that says v.
Tells(j, s, v) ==
  /\ BeginSdk(j, s) /\ text' = [text EXCEPT ![j] = v]
  /\ \/ v \in {Memory, Note}
     \/ /\ v = [type |-> "checkpoint", covers |-> IdsIn(Since(Timeline(s))),
                seen |-> IdsIn(Timeline(s))]
        /\ Since(Timeline(s)) # << >>

Telling == \/ text' = text
           \/ \E j \in Jobs, s \in Streams : \E v : Tells(j, s, v)

LEMMA TellsRecord ==
  ASSUME StreamInv, TextsSound, NEW j \in Jobs, NEW s \in Streams, NEW v, Tells(j, s, v)
  PROVE  /\ stage[j] = "idle" /\ stage'[j] = "storing" /\ job'[j].kind = "sdk" /\ job'[j].stream = s
         /\ events' = events /\ text'[j] = v /\ DOMAIN text' = Jobs
         /\ \A k \in Jobs : k # j => text'[k] = text[k]
         /\ v.type = "checkpoint" <=> v.covers # {}
         /\ \A id \in v.seen : id \in EventId /\ id[2] <= job[id[1]].written
         /\ v.type = "checkpoint" =>
              v.covers = IdsIn(Since(Timeline(s))) /\ v.seen = IdsIn(Timeline(s))
<1>1. TypeOK /\ JobsSound /\ RowsHome /\ DOMAIN text = Jobs /\ events[s] \in Seq(Event)
  BY DEF StreamInv, TextsSound, TypeOK
<1>2. PICK r : r = Writing(j, "sdk", s, {<<Genesis, 0>>})
  OBVIOUS
<1>3. r.kind = "sdk" /\ r.stream = s
  BY <1>2 DEF Writing
<1>4. /\ stage[j] = "idle" /\ job' = [job EXCEPT ![j] = r] /\ stage' = [stage EXCEPT ![j] = "storing"]
      /\ events' = events
  BY <1>2 DEF Tells, BeginSdk, Start
<1>5. job'[j] = r /\ stage'[j] = "storing"
  BY <1>1, <1>4 DEF TypeOK
<1>6. text' = [text EXCEPT ![j] = v]
  BY DEF Tells
<1>7. text'[j] = v /\ DOMAIN text' = Jobs /\ \A k \in Jobs : k # j => text'[k] = text[k]
  BY <1>1, <1>6
<1>8. CASE v \in {Memory, Note}
  <2>1. (v.type = "memory" \/ v.type = "summary") /\ v.covers = {} /\ v.seen = {}
    BY <1>8 DEF Memory, Note
  <2> QED
    BY <1>3, <1>4, <1>5, <1>7, <2>1
<1>9. CASE /\ v = [type |-> "checkpoint", covers |-> IdsIn(Since(Timeline(s))),
                   seen |-> IdsIn(Timeline(s))]
           /\ Since(Timeline(s)) # << >>
  <2>1. v.type = "checkpoint" /\ v.covers = IdsIn(Since(Timeline(s))) /\ v.seen = IdsIn(Timeline(s))
    BY <1>9
  <2>2. Timeline(s) \in Seq(Event)
    BY <1>1, TimelineRows
  <2>3. v.covers # {}
    <3>1. PICK rest : rest = Since(Timeline(s))
      OBVIOUS
    <3>2. rest \in Seq(Event) /\ rest # << >>
      BY <1>9, <2>2, <3>1, SinceRows
    <3>3. 1 \in DOMAIN rest
      BY <3>2
    <3> QED
      BY <2>1, <3>1, <3>3 DEF IdsIn
  <2>4. ASSUME NEW id \in v.seen PROVE id \in EventId /\ id[2] <= job[id[1]].written
    <3>1. PICK n \in DOMAIN Timeline(s) : id = Timeline(s)[n].id
      BY <2>1 DEF IdsIn
    <3>2. PICK i \in DOMAIN events[s] : Timeline(s)[n] = events[s][i]
      BY <1>1, <3>1, TimelineRows
    <3> QED
      BY <1>1, <3>1, <3>2, Written
  <2> QED
    BY <1>3, <1>4, <1>5, <1>7, <2>1, <2>3, <2>4
<1> QED
  BY <1>8, <1>9 DEF Tells

LEMMA TextKeeps ==
  ASSUME StreamInv, TextsSound, SdkUnnumbered, SeenKept, StreamInv', JobsKept, Moves, Telling
  PROVE  TextsSound' /\ SdkUnnumbered' /\ SeenKept'
<1>1. TypeOK /\ JobsSound /\ RowsHome
  BY DEF StreamInv
<1>2. \A j \in Jobs : job[j].written \in Nat /\ job'[j].written \in Nat
  <2>1. ASSUME TypeOK' PROVE \A j \in Jobs : job'[j].written \in Nat
    BY <2>1 DEF TypeOK, Job
  <2> QED
    BY <1>1, <2>1, JobTypes DEF StreamInv
<1>3. /\ DOMAIN text' = Jobs
      /\ \A j \in Jobs : \/ text'[j] = text[j]
                         \/ \E s \in Streams : \E v : Tells(j, s, v)
  <2>1. CASE text' = text
    BY <2>1 DEF TextsSound
  <2>2. ASSUME NEW j \in Jobs, NEW s \in Streams, NEW v, Tells(j, s, v)
        PROVE  /\ DOMAIN text' = Jobs
               /\ \A k \in Jobs : text'[k] = text[k] \/ k = j
    BY <2>2, TellsRecord
  <2> QED
    BY <2>1, <2>2 DEF Telling
<1>4. \A j \in Jobs : stage[j] # "idle" => text'[j] = text[j]
  BY <1>3, TellsRecord
<1>5. ASSUME NEW id \in EventId, id[2] <= job[id[1]].written
      PROVE  id[2] <= job'[id[1]].written
  <2>1. id[1] \in Jobs /\ id[2] \in Nat
    BY DEF EventId
  <2>2. job'[id[1]].written >= job[id[1]].written
    BY <2>1 DEF JobsKept
  <2> QED
    BY <1>2, <1>5, <2>1, <2>2
<1>6. TextsSound'
  <2> SUFFICES ASSUME NEW j \in Jobs
               PROVE  /\ stage'[j] = "idle" => text'[j] = Memory
                      /\ text'[j].type = "checkpoint" <=> text'[j].covers # {}
                      /\ text'[j].type # "memory" => job'[j].kind = "sdk"
                      /\ \A id \in text'[j].seen : id \in EventId /\ id[2] <= job'[id[1]].written
    BY <1>3 DEF TextsSound
  <2>1. CASE text'[j] = text[j]
    <3>1. stage'[j] = "idle" => stage[j] = "idle"
      BY DEF Moves
    <3>2. job[j].kind = "sdk" => job'[j].kind = "sdk"
      BY DEF JobsKept
    <3> QED
      BY <1>5, <2>1, <3>1, <3>2 DEF TextsSound
  <2>2. ASSUME NEW s \in Streams, NEW v, Tells(j, s, v)
        PROVE  /\ stage'[j] # "idle" /\ (text'[j].type = "checkpoint" <=> text'[j].covers # {})
               /\ job'[j].kind = "sdk"
               /\ \A id \in text'[j].seen : id \in EventId /\ id[2] <= job'[id[1]].written
    BY <1>5, <2>2, TellsRecord
  <2> QED
    BY <1>3, <2>1, <2>2
<1>7. ASSUME NEW s \in Streams, events'[s] # << >>
      PROVE  /\ \A k \in DOMAIN events[s] :
                  /\ k \in DOMAIN events'[s] /\ events'[s][k] = events[s][k]
                  /\ text'[events[s][k].id[1]] = text[events[s][k].id[1]]
             /\ \A i \in DOMAIN events'[s] :
                  \/ i \in DOMAIN events[s]
                  \/ \E j \in Jobs : /\ events'[s][i].id = <<j, job[j].written + 1>>
                                     /\ stage[j] = "storing"
                                     /\ job[j].kind = "sdk" => events'[s][i].epoch = 0
  <2>1. /\ \A k \in DOMAIN events[s] : k \in DOMAIN events'[s] /\ events'[s][k] = events[s][k]
        /\ \A i \in DOMAIN events'[s] :
             \/ i \in DOMAIN events[s]
             \/ \E j \in Jobs : /\ events'[s][i].id = <<j, job[j].written + 1>>
                                /\ stage[j] = "storing"
                                /\ job[j].kind = "sdk" => events'[s][i].epoch = 0
    BY <1>7, RowsOf DEF Moves
  <2>2. ASSUME NEW k \in DOMAIN events[s]
        PROVE  text'[events[s][k].id[1]] = text[events[s][k].id[1]]
    <3>1. PICK id : id = events[s][k].id
      OBVIOUS
    <3>2. id[1] \in Jobs /\ job[id[1]].kind # "none"
      BY <1>1, <3>1, Written
    <3>3. stage[id[1]] # "idle"
      BY <1>1, <3>2 DEF JobsSound
    <3> QED
      BY <1>4, <3>1, <3>2, <3>3
  <2> QED
    BY <2>1, <2>2
<1>8. SdkUnnumbered'
  <2> SUFFICES ASSUME NEW s \in Streams, NEW i \in DOMAIN events'[s], NEW id \in {events'[s][i].id},
                      job'[id[1]].kind = "sdk"
               PROVE  events'[s][i].epoch = 0
    BY DEF SdkUnnumbered
  <2>1. events'[s] # << >>
    OBVIOUS
  <2>2. CASE i \in DOMAIN events[s]
    <3>1. events'[s][i] = events[s][i]
      BY <1>7, <2>1, <2>2
    <3>2. id[1] \in Jobs /\ job[id[1]].kind # "none"
      BY <1>1, <2>2, <3>1, Written
    <3>3. job[id[1]].kind = "sdk"
      BY <3>2 DEF JobsKept
    <3> QED
      BY <2>2, <3>1, <3>3 DEF SdkUnnumbered
  <2>3. CASE i \notin DOMAIN events[s]
    <3>1. PICK j \in Jobs : /\ events'[s][i].id = <<j, job[j].written + 1>>
                            /\ stage[j] = "storing"
                            /\ job[j].kind = "sdk" => events'[s][i].epoch = 0
      BY <1>7, <2>1, <2>3
    <3>2. id[1] = j /\ job[j].kind # "none"
      <4>1. id = <<j, job[j].written + 1>>
        BY <3>1
      <4> QED
        BY <1>1, <3>1, <4>1 DEF JobsSound
    <3>3. job[j].kind = "sdk"
      BY <3>2 DEF JobsKept
    <3> QED
      BY <3>1, <3>3
  <2> QED
    BY <2>2, <2>3
<1>9. SeenKept'
  <2> SUFFICES ASSUME NEW j \in Jobs, NEW s \in {job'[j].stream}, text'[j].type = "checkpoint",
                      NEW i \in DOMAIN events'[s], events'[s][i].id \in text'[j].seen
               PROVE  events'[s][i].id \in text'[j].covers \/ KeptOf(s, i)'
    BY DEF SeenKept
  <2>1. CASE text'[j] = text[j]
    <3>1. job[j].kind = "sdk" /\ stage[j] # "idle"
      BY <2>1 DEF TextsSound, Memory
    <3>2. job'[j].stream = job[j].stream
      BY <3>1 DEF JobsKept, Numbers
    <3>3. s = job[j].stream /\ s \in Streams
      BY <1>1, <3>1, <3>2 DEF JobsSound
    <3>4. events'[s] # << >>
      OBVIOUS
    <3>5. ASSUME NEW k \in Jobs, events'[s][i].id = <<k, job[k].written + 1>> PROVE FALSE
      <4>1. \A id \in {<<k, job[k].written + 1>>} : id \in text[j].seen
        BY <2>1, <3>5
      <4>2. job[k].written + 1 <= job[k].written
        BY <4>1 DEF TextsSound
      <4> QED
        BY <1>2, <4>2
    <3>6. i \in DOMAIN events[s] /\ events'[s][i] = events[s][i]
      BY <1>7, <3>3, <3>4, <3>5
    <3>7. events[s][i].id \in text[j].covers \/ KeptOf(s, i)
      BY <2>1, <3>3, <3>6 DEF SeenKept
    <3>8. KeptOf(s, i) => KeptOf(s, i)'
      BY <1>7, <3>3, <3>4, <3>6, KeptStays
    <3> QED
      BY <2>1, <3>6, <3>7, <3>8
  <2>2. ASSUME NEW t \in Streams, NEW v, Tells(j, t, v)
        PROVE  events'[s][i].id \in text'[j].covers \/ KeptOf(s, i)'
    <3>1. /\ s = t /\ events' = events /\ text'[j] = v
          /\ v.covers = IdsIn(Since(Timeline(s))) /\ v.seen = IdsIn(Timeline(s))
      BY <2>2, TellsRecord
    <3>2. i \in DOMAIN events[s] /\ events'[s] # << >>
      BY <3>1
    <3>3. CASE events[s][i] \in ToSet(Since(Timeline(s)))
      BY <3>1, <3>3 DEF ToSet, IdsIn
    <3>4. CASE events[s][i] \notin ToSet(Since(Timeline(s)))
      <4>1. KeptOf(s, i)
        BY <2>2, <3>1, <3>2, <3>4, NothingIsForgotten DEF NothingForgotten, KeptOf
      <4> QED
        BY <1>7, <2>2, <3>1, <3>2, <4>1, KeptStays
    <3> QED
      BY <3>3, <3>4
  <2> QED
    BY <1>3, <2>1, <2>2
<1> QED
  BY <1>6, <1>8, <1>9

LEMMA TextStays ==
  ASSUME StreamInv, TextsSound, Moves, Telling, NEW j \in Jobs, stage[j] # "idle"
  PROVE  text'[j] = text[j] /\ stage'[j] # "idle"
<1>1. stage'[j] # "idle"
  BY DEF Moves
<1>2. ASSUME NEW k \in Jobs, NEW s \in Streams, NEW v, Tells(k, s, v)
      PROVE  text'[j] = text[j]
  BY <1>2, TellsRecord
<1> QED
  BY <1>1, <1>2 DEF Telling

LEMMA SummariseTells ==
  ASSUME NEW j \in Jobs, NEW s \in Streams, Summarise(j, s)
  PROVE  Telling
<1>1. PICK v : v = [type |-> "checkpoint", covers |-> IdsIn(Since(Timeline(s))), seen |-> IdsIn(Timeline(s))]
  OBVIOUS
<1>2. Tells(j, s, v)
  BY <1>1 DEF Summarise, Tells
<1> QED
  BY <1>2 DEF Telling

LEMMA RecallTells ==
  ASSUME StreamInv, RunSound, [RecallNext]_<<vars, recallVars>>
  PROVE  Telling
<1>1. CASE UNCHANGED text
  BY <1>1 DEF Telling
<1>2. ASSUME NEW j \in Jobs, NEW s \in Streams, Remember(j, s) PROVE Telling
  <2>1. PICK v \in {Memory, Note} : text' = [text EXCEPT ![j] = v]
    BY <1>2 DEF Remember
  <2>2. Tells(j, s, v)
    BY <1>2, <2>1 DEF Remember, Tells
  <2> QED
    BY <2>2 DEF Telling
<1>3. ASSUME NEW j \in Jobs, NEW s \in Streams, Summarise(j, s) PROVE Telling
  BY <1>3, SummariseTells
<1>4. ASSUME NEW j \in Jobs, Contribute(j) PROVE Telling
  <2>1. run.stream \in Streams
    BY <1>4 DEF RunSound, Contribute
  <2>2. \A s \in {run.stream} : Tells(j, s, Memory)
    BY <1>4 DEF Contribute, Tells
  <2> QED
    BY <2>1, <2>2 DEF Telling
<1>5. CASE CloseRun
  <2>1. run.stream \in Streams
    BY <1>5 DEF RunSound, CloseRun
  <2>2. ASSUME NEW j \in Jobs, NEW s \in {run.stream}, Summarise(j, s) PROVE Telling
    BY <2>1, <2>2, SummariseTells
  <2> QED
    BY <1>1, <1>5, <2>2 DEF CloseRun
<1>6. CASE (\E s \in Streams : StartRun(s)) \/ Prompt \/ Contributed \/ RunRaises \/ Rest
  BY <1>1, <1>6 DEF StartRun, Prompt, Contributed, RunRaises, Rest
<1> QED
  BY <1>1, <1>2, <1>3, <1>4, <1>5, <1>6 DEF RecallNext, recallVars

LEMMA RunKeeps ==
  ASSUME RecallInv, Moves, Telling, [RecallNext]_<<vars, recallVars>>
  PROVE  RunSound'
<1>1. /\ StreamInv /\ TextsSound /\ RunSound /\ known \subseteq Streams
      /\ DOMAIN run = {"at", "stream", "turns", "job", "made", "told"}
  BY DEF RecallInv, StreamInv, TypeOK, RunSound
<1>2. \A j \in Jobs : stage[j] # "idle" => text'[j] = text[j] /\ stage'[j] # "idle"
  BY <1>1, TextStays
<1>3. ASSUME DOMAIN run' = {"at", "stream", "turns", "job", "made", "told"},
             run'.at # "off" => run'.stream \in Streams,
             run'.at = "writing" =>
               run'.job \in Jobs /\ stage'[run'.job] # "idle" /\ text'[run'.job] = Memory,
             \A id \in run'.made : id \in run.made \/ (run.at = "writing" /\ id = <<run.job, 1>>)
      PROVE  RunSound'
  <2>1. ASSUME NEW id \in run'.made
        PROVE  id[1] \in Jobs /\ stage[id[1]] # "idle" /\ text[id[1]] = Memory
    BY <1>1, <1>3, <2>1 DEF RunSound
  <2>2. \A id \in run'.made : id[1] \in Jobs /\ stage'[id[1]] # "idle" /\ text'[id[1]] = Memory
    BY <1>2, <2>1
  <2> QED
    BY <1>3, <2>2 DEF RunSound
<1>4. CASE UNCHANGED run
  BY <1>1, <1>2, <1>3, <1>4 DEF RunSound
<1>5. ASSUME NEW s \in Streams, StartRun(s) PROVE RunSound'
  BY <1>1, <1>3, <1>5 DEF StartRun, RunSound
<1>6. CASE Prompt
  BY <1>1, <1>3, <1>6 DEF Prompt, RunSound
<1>7. ASSUME NEW j \in Jobs, Contribute(j) PROVE RunSound'
  <2>1. \A s \in {run.stream} : Tells(j, s, Memory) /\ s \in Streams
    BY <1>1, <1>7 DEF Contribute, Tells, RunSound
  <2>2. stage'[j] # "idle" /\ text'[j] = Memory
    BY <1>1, <2>1, TellsRecord
  <2>3. /\ DOMAIN run' = {"at", "stream", "turns", "job", "made", "told"}
        /\ run'.at = "writing" /\ run'.job = j /\ run'.made = run.made /\ run'.stream = run.stream
    BY <1>1, <1>7 DEF Contribute
  <2> QED
    BY <1>3, <2>1, <2>2, <2>3
<1>8. CASE Contributed
  <2>1. PICK at \in {"turn", "close"} : run' = [run EXCEPT !.at = at, !.made = @ \cup {<<run.job, 1>>}]
    BY <1>8 DEF Contributed
  <2>2. /\ DOMAIN run' = {"at", "stream", "turns", "job", "made", "told"}
        /\ run'.at = at /\ run'.made = run.made \cup {<<run.job, 1>>} /\ run'.stream = run.stream
    BY <1>1, <2>1
  <2>3. run.at = "writing" /\ run.stream \in Streams
    BY <1>1, <1>8 DEF Contributed, RunSound
  <2> QED
    BY <1>3, <2>2, <2>3
<1>9. CASE RunRaises
  BY <1>1, <1>3, <1>9 DEF RunRaises, RunSound
<1>10. CASE CloseRun
  BY <1>1, <1>3, <1>10 DEF CloseRun, RunSound
<1> QED
  BY <1>4, <1>5, <1>6, <1>7, <1>8, <1>9, <1>10 DEF RecallNext, recallVars, Rest

LEMMA RecallKeeps ==
  ASSUME RecallInv, [RecallNext]_<<vars, recallVars>>
  PROVE  RecallInv'
<1>1. StreamInv /\ TextsSound /\ SdkUnnumbered /\ SeenKept /\ RunSound
  BY DEF RecallInv
<1>2. [Next]_vars
  BY <1>1, RecallSteps
<1>3. StreamInv' /\ JobsKept /\ Moves
  BY <1>1, <1>2, NextKeeps, NextMoves
<1>4. Telling
  BY <1>1, RecallTells
<1>5. TextsSound' /\ SdkUnnumbered' /\ SeenKept'
  BY <1>1, <1>3, <1>4, TextKeeps
<1>6. RunSound'
  BY <1>3, <1>4, RunKeeps
<1> QED
  BY <1>3, <1>5, <1>6 DEF RecallInv

LEMMA RecallInvHolds == RecallSpec => []RecallInv
<1>1. RecallInit => RecallInv
  <2> SUFFICES ASSUME RecallInit PROVE RecallInv
    OBVIOUS
  <2>1. StreamInv
    BY StreamInvHolds DEF RecallInit
  <2>2. TextsSound
    BY DEF RecallInit, TextsSound, Memory
  <2>3. SdkUnnumbered
    BY DEF RecallInit, Init, SdkUnnumbered
  <2>4. SeenKept
    BY DEF RecallInit, SeenKept, Memory
  <2>5. RunSound
    BY DEF RecallInit, RunSound, NoRun
  <2> QED
    BY <2>1, <2>2, <2>3, <2>4, <2>5 DEF RecallInv
<1>2. RecallInv /\ [RecallNext]_<<vars, recallVars>> => RecallInv'
  BY RecallKeeps
<1> QED
  BY <1>1, <1>2, PTL DEF RecallSpec

\* Whatever lies before a timeline's last checkpoint, where contexts no longer
\* look, is in a summary or slipped by one between its reading and its writing
\* (summarizer.py, create_checkpoint; context.py, build_context).
THEOREM NothingIsEverForgotten == RecallSpec => []NothingForgotten
<1>1. RecallInv => NothingForgotten
  BY NothingIsForgotten DEF RecallInv
<1> QED
  BY <1>1, RecallInvHolds, PTL

\* A stream's only checkpoint is its last, and its summary is what a context has.
LEMMA OnlySummaryIsTold ==
  ASSUME StreamInv, TextsSound, NEW s \in Streams, NEW id, Summarised(s, id),
         ~(Cardinality(Checkpoints(s)) > 1)
  PROVE  id \in SmartContext(s)
<1>1. TypeOK /\ JobsSound /\ RowsHome /\ events[s] \in Seq(Event)
  BY DEF StreamInv, TypeOK
<1>2. PICK rows, own, b : rows = Timeline(s) /\ own = events[s] /\ b = Bound(rows)
  OBVIOUS
<1>3. /\ rows \in Seq(Event) /\ DOMAIN rows = DOMAIN own /\ Len(rows) = Len(own)
      /\ \A n \in DOMAIN own : Place(s, n) \in DOMAIN own /\ rows[Place(s, n)] = own[n]
      /\ \A n \in DOMAIN own : \E k \in DOMAIN own : Place(s, k) = n
      /\ DOMAIN own = 1 .. Len(own) /\ Len(own) \in Nat
  BY <1>1, <1>2, TimelineRows
<1>4. PICK c \in Checkpoints(s) : id \in text[c.id[1]].covers
  BY DEF Summarised
<1>5. \A k \in DOMAIN own : IsCheckpoint(own[k]) <=> own[k] \in Checkpoints(s)
  <2>1. ASSUME NEW k \in DOMAIN own PROVE own[k].id[1] \in Jobs
    <3>1. PICK e : e = own[k].id
      OBVIOUS
    <3> QED
      BY <1>1, <1>2, <3>1, Written
  <2>2. \A k \in DOMAIN own : IsCheckpoint(own[k]) <=> Summarises(own[k])
    BY <2>1 DEF IsCheckpoint, Summarises, TextsSound
  <2> QED
    BY <1>2, <2>2 DEF Checkpoints, ToSet
<1>6. PICK k \in DOMAIN own : c = own[k]
  BY <1>2, <1>4 DEF Checkpoints, ToSet
<1>7. IsFiniteSet(Checkpoints(s))
  <2>1. IsFiniteSet(DOMAIN own)
    BY <1>3, FS_Interval
  <2>2. IsFiniteSet({own[n] : n \in DOMAIN own})
    <3>1. PICK T : T = {own[n] : n \in DOMAIN own}
      OBVIOUS
    <3>2. own \in Surjection(DOMAIN own, T)
      BY <1>1, <1>2, <3>1 DEF Surjection
    <3> QED
      BY <2>1, <3>1, <3>2, FS_Surjection
  <2>3. Checkpoints(s) \subseteq {own[n] : n \in DOMAIN own}
    BY <1>2 DEF Checkpoints, ToSet
  <2> QED
    BY <2>2, <2>3, FS_Subset
<1>8. ASSUME NEW d \in Checkpoints(s) PROVE d = c
  <2>1. SUFFICES ASSUME d # c PROVE FALSE
    OBVIOUS
  <2>2. /\ IsFiniteSet({c}) /\ Cardinality({c}) = 1
    BY FS_Singleton
  <2>3. /\ IsFiniteSet({c} \cup {d}) /\ Cardinality({c} \cup {d}) = 2
    <3>1. PICK S : S = {c}
      OBVIOUS
    <3>2. d \notin S /\ IsFiniteSet(S) /\ Cardinality(S) = 1
      BY <2>1, <2>2, <3>1
    <3>3. IsFiniteSet(S \cup {d}) /\ Cardinality(S \cup {d}) = Cardinality(S) + 1
      BY <3>2, FS_AddElement
    <3> QED
      BY <3>1, <3>2, <3>3
  <2>4. {c} \cup {d} \subseteq Checkpoints(s)
    BY <1>4, <1>8
  <2>5. Cardinality({c} \cup {d}) <= Cardinality(Checkpoints(s)) /\ Cardinality(Checkpoints(s)) \in Nat
    BY <1>7, <2>4, FS_Subset, FS_CardinalityType
  <2> QED
    BY <2>3, <2>5
<1>9. /\ b \in 0 .. Len(own) /\ (b # 0 => IsCheckpoint(rows[b]))
      /\ \A n \in DOMAIN rows : IsCheckpoint(rows[n]) => n <= b
      /\ Since(rows) = SubSeq(rows, b + 1, Len(rows))
  BY <1>2, <1>3, SinceRows
<1>10. b \in DOMAIN rows
  <2>1. /\ Place(s, k) \in DOMAIN rows /\ rows[Place(s, k)] = c
        /\ IsCheckpoint(c) /\ Place(s, k) \in 1 .. Len(own)
    BY <1>3, <1>4, <1>5, <1>6
  <2>2. Place(s, k) <= b
    BY <1>9, <2>1
  <2> QED
    BY <1>3, <1>9, <2>1, <2>2
<1>11. IsCheckpoint(rows[b]) /\ rows[b] = c
  <2>1. IsCheckpoint(rows[b])
    BY <1>3, <1>9, <1>10
  <2>2. PICK l \in DOMAIN own : rows[b] = own[l]
    BY <1>3, <1>10
  <2> QED
    BY <1>5, <1>8, <2>1, <2>2
<1>12. b \in {n \in DOMAIN rows : IsCheckpoint(rows[n]) /\ Since(rows) = SubSeq(rows, n + 1, Len(rows))}
  BY <1>9, <1>10, <1>11
<1>13. id \in text[rows[b].id[1]].covers
  BY <1>4, <1>11
<1> QED
  BY <1>2, <1>12, <1>13 DEF SmartContext

\* A context has all that is after the last checkpoint, if that is little.
LEMMA RecentIsTold ==
  ASSUME StreamInv, NEW s \in Streams, NEW row \in ToSet(Since(Timeline(s))),
         ~(Len(Since(Timeline(s))) > Recent)
  PROVE  row.id \in SmartContext(s)
<1>1. events[s] \in Seq(Event)
  BY DEF StreamInv, TypeOK
<1>2. PICK rest : rest = Since(Timeline(s))
  OBVIOUS
<1>3. rest \in Seq(Event) /\ Len(rest) \in Nat
  BY <1>1, <1>2, TimelineRows, SinceRows
<1>4. PICK a : a = Len(rest) - Recent + 1
  OBVIOUS
<1>5. a \in Int /\ a <= 1
  BY <1>2, <1>3, <1>4, RecentAssumption
<1>6. Max({1, a}) = 1
  <2>1. \A y \in {1, a} : 1 >= y
    BY <1>5
  <2>2. \A x \in {1, a} : (\A y \in {1, a} : x >= y) => x = 1
    BY <1>5
  <2> QED
    BY <2>1, <2>2 DEF Max
<1>7. LastOf(rest, Recent) = rest
  BY <1>3, <1>4, <1>6, SubSeqFull DEF LastOf
<1>8. row.id \in IdsIn(rest)
  BY <1>2 DEF ToSet, IdsIn
<1> QED
  BY <1>2, <1>7, <1>8 DEF SmartContext

\* With its prompt each agent of a run is told what the run has contributed,
\* but for what slipped by a checkpoint, is in an older summary, or is more
\* than a context holds (autonomous.py, run; context.py, build_context).
THEOREM RunsAreToldThemselves == RecallSpec => RunIsToldItself
<1>1. ASSUME RecallInv, [RecallNext]_<<vars, recallVars>>, run.at = "turn", run'.at = "told"
      PROVE  LET s == run.stream
             IN \A i \in DOMAIN events[s] :
                  LET id == events[s][i].id
                  IN id \in run.made =>
                       \/ id \in run'.told
                       \/ SlippedBy(s, i)
                       \/ Summarised(s, id) /\ Cardinality(Checkpoints(s)) > 1
                       \/ Len(Since(Timeline(s))) > Recent
  <2>1. /\ StreamInv /\ TextsSound /\ SdkUnnumbered /\ SeenKept /\ RunSound
        /\ DOMAIN run = {"at", "stream", "turns", "job", "made", "told"}
    BY <1>1 DEF RecallInv, RunSound
  <2>2. PICK s : s = run.stream
    OBVIOUS
  <2>3. s \in Streams
    BY <1>1, <2>1, <2>2 DEF RunSound
  <2>4. run'.told = SmartContext(s)
    <3>1. ~(UNCHANGED run)
      BY <1>1
    <3>2. Prompt
      BY <1>1, <2>1, <3>1
      DEF RecallNext, recallVars, StartRun, Contribute, Contributed, RunRaises, CloseRun, Rest
    <3>3. run' = [run EXCEPT !.at = "told", !.told = SmartContext(run.stream)] \/ run'.at = "blind"
      BY <2>1, <3>2 DEF Prompt
    <3> QED
      BY <1>1, <2>1, <2>2, <3>3
  <2>5. ASSUME NEW i \in DOMAIN events[s], events[s][i].id \in run.made
        PROVE  \/ events[s][i].id \in SmartContext(s)
               \/ SlippedBy(s, i)
               \/ Summarised(s, events[s][i].id) /\ Cardinality(Checkpoints(s)) > 1
               \/ Len(Since(Timeline(s))) > Recent
    <3>1. PICK row, id : row = events[s][i] /\ id = row.id
      OBVIOUS
    <3>2. \/ row \in ToSet(Since(Timeline(s)))
          \/ Summarises(row)
          \/ Summarised(s, id)
          \/ SlippedBy(s, i)
      BY <2>1, <2>3, <3>1, NothingIsForgotten DEF NothingForgotten
    <3>3. ~Summarises(row)
      BY <2>1, <2>5, <3>1 DEF RunSound, Summarises, Memory
    <3>4. CASE row \in ToSet(Since(Timeline(s)))
      BY <2>1, <2>3, <3>1, <3>4, RecentIsTold
    <3>5. CASE Summarised(s, id)
      BY <2>1, <2>3, <3>1, <3>5, OnlySummaryIsTold
    <3> QED
      BY <3>1, <3>2, <3>3, <3>4, <3>5
  <2> QED
    BY <2>2, <2>4, <2>5
<1>2. RecallInv /\ [RecallNext]_<<vars, recallVars>> =>
        [run.at = "turn" /\ run'.at = "told" =>
           LET s == run.stream
           IN \A i \in DOMAIN events[s] :
                LET id == events[s][i].id
                IN id \in run.made =>
                     \/ id \in run'.told
                     \/ SlippedBy(s, i)
                     \/ Summarised(s, id) /\ Cardinality(Checkpoints(s)) > 1
                     \/ Len(Since(Timeline(s))) > Recent]_run
  BY <1>1
<1> QED
  BY <1>2, RecallInvHolds, PTL DEF RecallSpec, RunIsToldItself

-----------------------------------------------------------------------------
(***************************************************************************)
(* What is read of a stream                                                *)
(***************************************************************************)

\* The least and the greatest of two.
LEMMA OfTwo ==
  ASSUME NEW a \in Int, NEW b \in Int
  PROVE  /\ Min({a, b}) = IF a <= b THEN a ELSE b
         /\ Max({a, b}) = IF a <= b THEN b ELSE a
<1>1. PICK m : m = IF a <= b THEN a ELSE b
  OBVIOUS
<1>2. m \in {a, b} /\ (\A y \in {a, b} : m <= y) /\ \A x \in {a, b} : (\A y \in {a, b} : x <= y) => x = m
  BY <1>1
<1>3. Min({a, b}) = m
  BY <1>2 DEF Min
<1>4. PICK g : g = IF a <= b THEN b ELSE a
  OBVIOUS
<1>5. g \in {a, b} /\ (\A y \in {a, b} : g >= y) /\ \A x \in {a, b} : (\A y \in {a, b} : x >= y) => x = g
  BY <1>4
<1>6. Max({a, b}) = g
  BY <1>5 DEF Max
<1> QED
  BY <1>1, <1>3, <1>4, <1>6

\* The last n rows.
LEMMA LastRows ==
  ASSUME NEW S, NEW rows \in Seq(S), NEW n \in Nat, NEW m \in Nat,
         (n <= Len(rows) /\ m = n) \/ (n > Len(rows) /\ m = Len(rows))
  PROVE  /\ LastOf(rows, n) \in Seq(S) /\ Len(LastOf(rows, n)) = m
         /\ \A i \in 1 .. m : LastOf(rows, n)[i] = rows[Len(rows) - m + i]
         /\ m = Len(rows) => LastOf(rows, n) = rows
<1>1. PICK l : l = Len(rows)
  OBVIOUS
<1>2. l \in Nat /\ m \in 0 .. l /\ \A i \in 1 .. l : rows[i] \in S
  BY <1>1, LenProperties
<1>3. PICK a : a = l - m + 1
  OBVIOUS
<1>4. Max({1, l - n + 1}) = a /\ a \in 1 .. l + 1
  <2>1. PICK d : d = l - n + 1
    OBVIOUS
  <2>2. d \in Int /\ 1 \in Int
    BY <1>2, <2>1
  <2>3. Max({1, d}) = IF 1 <= d THEN d ELSE 1
    BY <2>2, OfTwo
  <2>4. a \in 1 .. l + 1 /\ a = IF 1 <= d THEN d ELSE 1
    <3>1. (n <= l /\ m = n) \/ (n > l /\ m = l)
      BY <1>1
    <3> QED
      BY <1>2, <1>3, <2>1, <3>1
  <2> QED
    BY <2>1, <2>3, <2>4
<1>5. LastOf(rows, n) = SubSeq(rows, a, l)
  BY <1>1, <1>4 DEF LastOf
<1>6. /\ SubSeq(rows, a, l) \in Seq(S) /\ Len(SubSeq(rows, a, l)) = IF a <= l THEN l - a + 1 ELSE 0
      /\ \A i \in 1 .. l - a + 1 : SubSeq(rows, a, l)[i] = rows[a + i - 1]
  BY <1>2, <1>4, SubSeqProperties
<1>7. l - a + 1 = m /\ (IF a <= l THEN l - a + 1 ELSE 0) = m
  BY <1>2, <1>3
<1>8. \A i \in 1 .. m : a + i - 1 = l - m + i
  BY <1>2, <1>3
<1>9. m = l => SubSeq(rows, a, l) = rows
  <2>1. m = l => a = 1
    BY <1>2, <1>3
  <2> QED
    BY <1>1, <2>1, SubSeqFull
<1> QED
  BY <1>1, <1>5, <1>6, <1>7, <1>8, <1>9

\* The first of some lines, as many as there is room for.
LEMMA WithinRows ==
  ASSUME NEW S, NEW rows \in Seq(S), NEW n \in Nat, NEW m \in Nat,
         (n <= Len(rows) /\ m = n) \/ (n > Len(rows) /\ m = Len(rows))
  PROVE  /\ Within(rows, n) \in Seq(S) /\ Len(Within(rows, n)) = m
         /\ \A i \in 1 .. m : Within(rows, n)[i] = rows[i]
         /\ m = Len(rows) => Within(rows, n) = rows
<1>1. Len(rows) \in Nat /\ m \in 0 .. Len(rows) /\ \A i \in 1 .. Len(rows) : rows[i] \in S
  BY LenProperties
<1>2. Within(rows, n) = SubSeq(rows, 1, m)
  BY <1>1, OfTwo DEF Within
<1>3. /\ SubSeq(rows, 1, m) \in Seq(S) /\ Len(SubSeq(rows, 1, m)) = IF 1 <= m THEN m - 1 + 1 ELSE 0
      /\ \A i \in 1 .. m - 1 + 1 : SubSeq(rows, 1, m)[i] = rows[1 + i - 1]
  BY <1>1, SubSeqProperties
<1>4. m - 1 + 1 = m /\ (IF 1 <= m THEN m - 1 + 1 ELSE 0) = m /\ \A i \in 1 .. m : 1 + i - 1 = i
  BY <1>1
<1>5. m = Len(rows) => SubSeq(rows, 1, m) = rows
  BY SubSeqFull
<1> QED
  BY <1>2, <1>3, <1>4, <1>5

LEMMA ReverseRows ==
  ASSUME NEW S, NEW rows \in Seq(S)
  PROVE  /\ Reverse(rows) \in Seq(S) /\ Len(Reverse(rows)) = Len(rows)
         /\ \A i \in 1 .. Len(rows) : Reverse(rows)[i] = rows[Len(rows) - i + 1]
         /\ Reverse(Reverse(rows)) = rows
<1> DEFINE Turned(r) == [i \in 1 .. Len(r) |-> r[(Len(r) - i) + 1]]
<1>1. \A r : Reverse(r) = Turned(r)
  BY DEF Reverse
<1>2. Len(rows) \in Nat /\ \A i \in 1 .. Len(rows) : rows[i] \in S
  BY LenProperties
<1>3. \A i \in 1 .. Len(rows) : Len(rows) - i + 1 \in 1 .. Len(rows)
  BY <1>2
<1>4. Turned(rows) \in [1 .. Len(rows) -> S]
  BY <1>2, <1>3
<1>5. Turned(rows) \in Seq(S) /\ Len(Turned(rows)) = Len(rows)
  BY <1>2, <1>4
<1>6. \A i \in 1 .. Len(rows) : Turned(rows)[i] = rows[Len(rows) - i + 1]
  OBVIOUS
<1>7. PICK back, more : back = Turned(rows) /\ more = Turned(back)
  OBVIOUS
<1>8. Len(back) = Len(rows) /\ back \in Seq(S) /\ \A i \in 1 .. Len(rows) : back[i] = rows[Len(rows) - i + 1]
  BY <1>5, <1>6, <1>7
<1>9. more = [i \in 1 .. Len(rows) |-> back[(Len(rows) - i) + 1]]
  BY <1>7, <1>8
<1>10. \A i \in 1 .. Len(rows) : more[i] = rows[i]
  <2>1. ASSUME NEW i \in 1 .. Len(rows) PROVE more[i] = rows[i]
    <3>1. PICK k : k = Len(rows) - i + 1
      OBVIOUS
    <3>2. k \in 1 .. Len(rows) /\ Len(rows) - k + 1 = i
      BY <1>2, <3>1
    <3> QED
      BY <1>8, <1>9, <3>1, <3>2
  <2> QED
    BY <2>1
<1>11. more \in Seq(S) /\ Len(more) = Len(rows)
  <2>1. more \in [1 .. Len(rows) -> S]
    BY <1>2, <1>9, <1>10
  <2> QED
    BY <1>2, <2>1
<1>12. more = rows
  BY <1>10, <1>11, SeqEqual
<1> QED
  BY <1>1, <1>5, <1>6, <1>7, <1>12

\* The first of rows turned around are the last of them.
LEMMA FirstTurned ==
  ASSUME NEW S, NEW rows \in Seq(S), NEW n \in Nat
  PROVE  Within(Reverse(rows), n) = Reverse(LastOf(rows, n))
<1>1. PICK l : l = Len(rows)
  OBVIOUS
<1>0. PICK m \in Nat : (n <= Len(rows) /\ m = n) \/ (n > Len(rows) /\ m = Len(rows))
  BY LenProperties
<1>2. l \in Nat /\ m \in 0 .. l
  BY <1>0, <1>1, LenProperties
<1>3. PICK back, last : back = Reverse(rows) /\ last = LastOf(rows, n)
  OBVIOUS
<1>4. back \in Seq(S) /\ Len(back) = l /\ \A i \in 1 .. l : back[i] = rows[l - i + 1]
  BY <1>1, <1>3, ReverseRows
<1>5. /\ Within(back, n) \in Seq(S) /\ Len(Within(back, n)) = m
      /\ \A i \in 1 .. m : Within(back, n)[i] = back[i]
  <2>1. (n <= Len(back) /\ m = n) \/ (n > Len(back) /\ m = Len(back))
    BY <1>0, <1>1, <1>4
  <2> QED
    BY <1>4, <2>1, WithinRows
<1>6. last \in Seq(S) /\ Len(last) = m /\ \A i \in 1 .. m : last[i] = rows[l - m + i]
  <2>1. /\ LastOf(rows, n) \in Seq(S) /\ Len(LastOf(rows, n)) = m
        /\ \A i \in 1 .. m : LastOf(rows, n)[i] = rows[Len(rows) - m + i]
    BY <1>0, LastRows
  <2> QED
    BY <1>1, <1>3, <2>1
<1>7. /\ Reverse(last) \in Seq(S) /\ Len(Reverse(last)) = m
      /\ \A i \in 1 .. m : Reverse(last)[i] = last[m - i + 1]
  BY <1>6, ReverseRows
<1>8. ASSUME NEW i \in 1 .. m PROVE Within(back, n)[i] = Reverse(last)[i]
  <2>1. /\ i \in 1 .. l /\ m - i + 1 \in 1 .. m
        /\ l - m + (m - i + 1) = l - i + 1
    BY <1>2
  <2>2. Within(back, n)[i] = rows[l - i + 1]
    BY <1>4, <1>5, <2>1
  <2>3. Reverse(last)[i] = rows[l - m + (m - i + 1)]
    BY <1>6, <1>7, <2>1
  <2> QED
    BY <2>1, <2>2, <2>3
<1> QED
  BY <1>3, <1>5, <1>7, <1>8, SeqEqual

\* The rows at a set of places: those rows and no others.
LEMMA RowsAtPlaces ==
  ASSUME NEW S, NEW rows \in Seq(S), NEW at, at \subseteq DOMAIN rows
  PROVE  /\ RowsAt(rows, at) \in Seq(S)
         /\ ToSet(RowsAt(rows, at)) = {rows[i] : i \in at}
<1> DEFINE Rank(i) == {k \in at : k <= i}
           N == Cardinality(at)
           f == [i \in at |-> Cardinality(Rank(i))]
           pick(n) == CHOOSE i \in at : Cardinality(Rank(i)) = n
<1>1. /\ Len(rows) \in Nat /\ DOMAIN rows = 1 .. Len(rows) /\ at \subseteq Int
      /\ \A i \in DOMAIN rows : rows[i] \in S
  BY LenProperties
<1>2. IsFiniteSet(at) /\ N \in Nat /\ IsFiniteSet(1 .. N) /\ Cardinality(1 .. N) = N
  <2>1. \A l \in Int : IsFiniteSet(1 .. l) /\ Cardinality(1 .. l) = IF 1 > l THEN 0 ELSE l - 1 + 1
    BY FS_Interval
  <2>2. IsFiniteSet(DOMAIN rows)
    BY <1>1, <2>1
  <2>3. IsFiniteSet(at) /\ N \in Nat
    BY <2>2, FS_Subset, FS_CardinalityType
  <2> QED
    BY <2>1, <2>3
<1>3. ASSUME NEW i \in at PROVE IsFiniteSet(Rank(i)) /\ Cardinality(Rank(i)) \in 1 .. N
  <2>1. Rank(i) \subseteq at /\ i \in Rank(i)
    BY <1>1
  <2>2. IsFiniteSet(Rank(i)) /\ Cardinality(Rank(i)) \in Nat /\ Cardinality(Rank(i)) <= N
    BY <1>2, <2>1, FS_Subset, FS_CardinalityType
  <2>3. Cardinality(Rank(i)) # 0
    BY <2>1, <2>2, FS_EmptySet
  <2> QED
    BY <1>2, <2>2, <2>3
<1>4. ASSUME NEW i \in at, NEW k \in at, i < k PROVE Cardinality(Rank(i)) # Cardinality(Rank(k))
  <2>1. Rank(i) \subseteq Rank(k) /\ k \in Rank(k) /\ k \notin Rank(i)
    BY <1>1, <1>4
  <2> QED
    BY <1>3, <2>1, FS_Subset
<1>5. f \in Injection(at, 1 .. N)
  <2>1. f \in [at -> 1 .. N]
    BY <1>3
  <2>2. ASSUME NEW i \in at, NEW k \in at, f[i] = f[k] PROVE i = k
    <3>1. i \in Int /\ k \in Int
      BY <1>1
    <3>2. Cardinality(Rank(i)) = Cardinality(Rank(k))
      BY <2>2
    <3>3. ~(i < k) /\ ~(k < i)
      BY <1>4, <3>2
    <3> QED
      BY <3>1, <3>3
  <2> QED
    BY <2>1, <2>2 DEF Injection, IsInjective
<1>6. f \in Surjection(at, 1 .. N)
  BY <1>2, <1>5, FS_Injection
<1>7. \A n \in 1 .. N : pick(n) \in at /\ Cardinality(Rank(pick(n))) = n
  <2>1. ASSUME NEW n \in 1 .. N PROVE \E i \in at : Cardinality(Rank(i)) = n
    BY <1>6 DEF Surjection
  <2> QED
    BY <2>1
<1>8. \A i \in at : Cardinality(Rank(i)) \in 1 .. N /\ pick(Cardinality(Rank(i))) = i
  <2>1. ASSUME NEW i \in at PROVE pick(Cardinality(Rank(i))) = i
    <3>1. PICK n : n = Cardinality(Rank(i))
      OBVIOUS
    <3>2. PICK c : c = pick(n)
      OBVIOUS
    <3>3. c \in at /\ Cardinality(Rank(c)) = Cardinality(Rank(i))
      <4>1. n \in 1 .. N
        BY <1>3, <3>1
      <4>2. pick(n) \in at /\ Cardinality(Rank(pick(n))) = n
        BY <1>7, <4>1
      <4> QED
        BY <3>1, <3>2, <4>2
    <3>4. ~(c < i) /\ ~(i < c) /\ c \in Int /\ i \in Int
      BY <1>1, <1>4, <3>3
    <3> QED
      BY <3>1, <3>2, <3>4
  <2> QED
    BY <1>3, <2>1
<1>9. RowsAt(rows, at) = [n \in 1 .. N |-> rows[pick(n)]]
  BY DEF RowsAt
<1>10. PICK kept : kept = [n \in 1 .. N |-> rows[pick(n)]]
  OBVIOUS
<1> HIDE DEF Rank, pick, N
<1>11. kept \in [1 .. N -> S]
  BY <1>1, <1>7, <1>10
<1>12. kept \in Seq(S) /\ DOMAIN kept = 1 .. N
  BY <1>2, <1>11
<1>13. \A row \in ToSet(kept) : row \in {rows[i] : i \in at}
  BY <1>7, <1>10, <1>12 DEF ToSet
<1>14. \A i \in at : rows[i] \in ToSet(kept)
  <2>1. ASSUME NEW i \in at PROVE \E n \in 1 .. N : kept[n] = rows[i]
    BY <1>8, <1>10
  <2> QED
    BY <1>12, <2>1 DEF ToSet
<1> QED
  BY <1>9, <1>10, <1>12, <1>13, <1>14

\* The rows at consecutive places.
LEMMA RowsAtInterval ==
  ASSUME NEW S, NEW rows \in Seq(S), NEW a \in Nat \ {0}, NEW b \in 0 .. Len(rows)
  PROVE  RowsAt(rows, a .. b) = SubSeq(rows, a, b)
<1>1. Len(rows) \in Nat /\ a \in Int /\ b \in Int /\ \A i \in a .. b : rows[i] \in S
  BY LenProperties
<1>2. PICK n : n = IF a <= b THEN b - a + 1 ELSE 0
  OBVIOUS
<1>3. Cardinality(a .. b) = n /\ n \in Nat
  <2>1. Cardinality(a .. b) = IF a > b THEN 0 ELSE b - a + 1
    BY <1>1, FS_Interval
  <2> QED
    BY <1>1, <1>2, <2>1
<1>4. /\ SubSeq(rows, a, b) \in Seq(S) /\ Len(SubSeq(rows, a, b)) = n
      /\ \A i \in 1 .. n : SubSeq(rows, a, b)[i] = rows[a + i - 1]
  <2>1. /\ SubSeq(rows, a, b) \in Seq(S) /\ Len(SubSeq(rows, a, b)) = n
        /\ \A i \in 1 .. b - a + 1 : SubSeq(rows, a, b)[i] = rows[a + i - 1]
    BY <1>1, <1>2, SubSeqProperties
  <2>2. \A i \in 1 .. n : i \in 1 .. b - a + 1
    BY <1>1, <1>2
  <2> QED
    BY <2>1, <2>2
<1>5. \A i \in a .. b : Cardinality({k \in a .. b : k <= i}) = i - a + 1
  <2>1. ASSUME NEW i \in a .. b PROVE Cardinality({k \in a .. b : k <= i}) = i - a + 1
    <3>1. {k \in a .. b : k <= i} = a .. i /\ i \in Int /\ ~(a > i)
      BY <1>1
    <3>2. Cardinality(a .. i) = IF a > i THEN 0 ELSE i - a + 1
      BY <1>1, <3>1, FS_Interval
    <3> QED
      BY <3>1, <3>2
  <2> QED
    BY <2>1
<1>6. ASSUME NEW m \in 1 .. n
      PROVE (CHOOSE i \in a .. b : Cardinality({k \in a .. b : k <= i}) = m) = a + m - 1
  <2>1. a + m - 1 \in a .. b /\ (a + m - 1) - a + 1 = m
    BY <1>1, <1>2
  <2>2. \A i \in a .. b : Cardinality({k \in a .. b : k <= i}) = m <=> i = a + m - 1
    BY <1>1, <1>2, <1>5
  <2> QED
    BY <2>1, <2>2
<1>7. RowsAt(rows, a .. b) = [m \in 1 .. n |-> rows[CHOOSE i \in a .. b : Cardinality({k \in a .. b : k <= i}) = m]]
  BY <1>3 DEF RowsAt
<1>8. PICK kept : kept = RowsAt(rows, a .. b)
  OBVIOUS
<1>9. \A m \in 1 .. n : kept[m] = rows[a + m - 1]
  BY <1>6, <1>7, <1>8
<1>10. kept \in Seq(S) /\ Len(kept) = n
  <2>1. DOMAIN kept = 1 .. n /\ kept = [m \in 1 .. n |-> kept[m]]
    BY <1>7, <1>8
  <2>2. \A m \in 1 .. n : a + m - 1 \in a .. b
    BY <1>1, <1>2
  <2>3. kept \in [1 .. n -> S]
    BY <1>1, <1>9, <2>1, <2>2
  <2> QED
    BY <1>3, <2>3
<1> QED
  BY <1>4, <1>8, <1>9, <1>10, SeqEqual

\* All rows, and none.
LEMMA RowsAtAll ==
  ASSUME NEW S, NEW rows \in Seq(S)
  PROVE  RowsAt(rows, DOMAIN rows) = rows /\ RowsAt(rows, {}) = << >>
<1>1. Len(rows) \in Nat /\ DOMAIN rows = 1 .. Len(rows) /\ 1 .. 0 = {}
  BY LenProperties
<1>2. \A b \in 0 .. Len(rows) : RowsAt(rows, 1 .. b) = SubSeq(rows, 1, b)
  BY RowsAtInterval
<1>3. 0 \in 0 .. Len(rows) /\ Len(rows) \in 0 .. Len(rows)
  BY <1>1
<1>4. SubSeq(rows, 1, 0) = << >> /\ SubSeq(rows, 1, Len(rows)) = rows
  BY SubSeqFull, SubSeqEmpty
<1>5. RowsAt(rows, 1 .. Len(rows)) = rows /\ RowsAt(rows, 1 .. 0) = << >>
  BY <1>2, <1>3, <1>4
<1> QED
  BY <1>1, <1>5

\* The place of row i by epoch, greatest first.
DownTo(s, i) ==
  {k \in DOMAIN events[s] : \/ events[s][k].epoch > events[s][i].epoch
                            \/ events[s][k].epoch = events[s][i].epoch /\ k <= i}

\* Rows numbered from 1 on are turned around by an ORDER BY epoch DESC, and rows
\* without a number stay as they were inserted.
LEMMA OrderedDown ==
  ASSUME NEW s, events[s] \in Seq(Event)
  PROVE  /\ (\A i \in DOMAIN events[s] : events[s][i].epoch = i) => ByEpochDesc(s) = Reverse(events[s])
         /\ (\A i \in DOMAIN events[s] : events[s][i].epoch = 0) => ByEpochDesc(s) = events[s]
<1>1. PICK rows, l : rows = events[s] /\ l = Len(rows)
  OBVIOUS
<1>2. /\ rows \in Seq(Event) /\ l \in Nat /\ DOMAIN rows = 1 .. l
      /\ \A i \in 1 .. l : rows[i] \in Event
  BY <1>1, LenProperties
<1>3. PICK down : down = ByEpochDesc(s)
  OBVIOUS
<1>4. down = [n \in DOMAIN events[s] |->
                events[s][CHOOSE i \in DOMAIN events[s] : Cardinality(DownTo(s, i)) = n]]
  BY <1>3 DEF ByEpochDesc, DownTo
<1>5. ASSUME NEW g \in [1 .. l -> 1 .. l],
             \A i \in 1 .. l : Cardinality(DownTo(s, i)) \in 1 .. l /\ g[Cardinality(DownTo(s, i))] = i,
             \A n \in 1 .. l : Cardinality(DownTo(s, g[n])) = n
      PROVE  down \in Seq(Event) /\ Len(down) = l /\ \A n \in 1 .. l : down[n] = rows[g[n]]
  <2>1. ASSUME NEW n \in 1 .. l
        PROVE  (CHOOSE i \in DOMAIN events[s] : Cardinality(DownTo(s, i)) = n) = g[n]
    <3>1. /\ g[n] \in DOMAIN events[s]
          /\ \A i \in DOMAIN events[s] : Cardinality(DownTo(s, i)) = n <=> i = g[n]
      BY <1>1, <1>2, <1>5
    <3> QED
      BY <3>1
  <2>2. \A n \in 1 .. l : down[n] = rows[g[n]]
    BY <1>1, <1>2, <1>4, <2>1
  <2>3. down \in [1 .. l -> Event]
    <3>1. \A n \in 1 .. l : down[n] \in Event
      BY <1>2, <1>5, <2>2
    <3> QED
      BY <1>1, <1>2, <1>4, <3>1
  <2> QED
    BY <1>2, <2>2, <2>3
<1>6. ASSUME \A i \in 1 .. l : rows[i].epoch = i PROVE down = Reverse(rows)
  <2>1. ASSUME NEW i \in 1 .. l PROVE Cardinality(DownTo(s, i)) = l - i + 1
    <3>1. DownTo(s, i) = i .. l
      BY <1>1, <1>2, <1>6 DEF DownTo
    <3>2. i \in Int /\ l \in Int /\ ~(i > l)
      BY <1>2
    <3>3. Cardinality(i .. l) = IF i > l THEN 0 ELSE l - i + 1
      BY <3>2, FS_Interval
    <3> QED
      BY <3>1, <3>2, <3>3
  <2>2. PICK g : g = [n \in 1 .. l |-> l - n + 1]
    OBVIOUS
  <2>3. g \in [1 .. l -> 1 .. l] /\ \A n \in 1 .. l : g[n] = l - n + 1
    BY <1>2, <2>2
  <2>4. \A i \in 1 .. l : l - i + 1 \in 1 .. l /\ l - (l - i + 1) + 1 = i
    BY <1>2
  <2>5. down \in Seq(Event) /\ Len(down) = l /\ \A n \in 1 .. l : down[n] = rows[l - n + 1]
    <3>1. \A i \in 1 .. l : Cardinality(DownTo(s, i)) \in 1 .. l /\ g[Cardinality(DownTo(s, i))] = i
      BY <2>1, <2>3, <2>4
    <3>2. \A n \in 1 .. l : g[n] \in 1 .. l /\ l - g[n] + 1 = n
      BY <2>3, <2>4
    <3>3. \A n \in 1 .. l : Cardinality(DownTo(s, g[n])) = n
      BY <2>1, <3>2
    <3>4. down \in Seq(Event) /\ Len(down) = l /\ \A n \in 1 .. l : down[n] = rows[g[n]]
      BY <1>5, <2>3, <3>1, <3>3
    <3> QED
      BY <2>3, <3>4
  <2>6. /\ Reverse(rows) \in Seq(Event) /\ Len(Reverse(rows)) = l
        /\ \A n \in 1 .. l : Reverse(rows)[n] = rows[l - n + 1]
    BY <1>1, <1>2, ReverseRows
  <2> QED
    BY <2>5, <2>6, SeqEqual
<1>7. ASSUME \A i \in 1 .. l : rows[i].epoch = 0 PROVE down = rows
  <2>1. ASSUME NEW i \in 1 .. l PROVE Cardinality(DownTo(s, i)) = i
    <3>1. DownTo(s, i) = 1 .. i
      BY <1>1, <1>2, <1>7 DEF DownTo
    <3>2. i \in Int /\ ~(1 > i)
      BY <1>2
    <3>3. Cardinality(1 .. i) = IF 1 > i THEN 0 ELSE i - 1 + 1
      BY <3>2, FS_Interval
    <3> QED
      BY <3>1, <3>2, <3>3
  <2>2. PICK g : g = [n \in 1 .. l |-> n]
    OBVIOUS
  <2>3. g \in [1 .. l -> 1 .. l] /\ \A n \in 1 .. l : g[n] = n
    BY <2>2
  <2>4. down \in Seq(Event) /\ Len(down) = l /\ \A n \in 1 .. l : down[n] = rows[n]
    <3>1. \A i \in 1 .. l : Cardinality(DownTo(s, i)) \in 1 .. l /\ g[Cardinality(DownTo(s, i))] = i
      BY <2>1, <2>3
    <3>2. \A n \in 1 .. l : Cardinality(DownTo(s, g[n])) = n
      BY <2>1, <2>3
    <3>3. down \in Seq(Event) /\ Len(down) = l /\ \A n \in 1 .. l : down[n] = rows[g[n]]
      BY <1>5, <2>3, <3>1, <3>2
    <3> QED
      BY <2>3, <3>3
  <2> QED
    BY <1>1, <1>2, <2>4, SeqEqual
<1> QED
  BY <1>1, <1>2, <1>3, <1>6, <1>7

\* A stream that one engine numbered has memories only, numbered from 1 on; one
\* that only the SDK wrote to has no numbers.
LEMMA InOrderRows ==
  ASSUME RecallInv, NEW s \in Streams, InOrder(s)
  PROVE  /\ events[s] \in Seq(Event) /\ Timeline(s) = events[s]
         /\ OneEngine(s) => /\ \A i \in DOMAIN events[s] : events[s][i].epoch = i
                            /\ \A i \in DOMAIN events[s] : IsMemory(events[s][i])
         /\ \/ \A i \in DOMAIN events[s] : events[s][i].epoch = i
            \/ \A i \in DOMAIN events[s] : events[s][i].epoch = 0
<1>1. /\ TypeOK /\ JobsSound /\ RowsHome /\ EpochsSound /\ TextsSound /\ SdkUnnumbered
      /\ events[s] \in Seq(Event)
  BY DEF RecallInv, StreamInv, TypeOK
<1>2. ASSUME OneEngine(s)
      PROVE  /\ \A i \in DOMAIN events[s] : events[s][i].epoch = i
             /\ \A i \in DOMAIN events[s] : IsMemory(events[s][i])
  <2>1. PICK e \in Engines : NumberedBy(s, e)
    BY <1>2, OneEngineNumbers
  <2>2. \A i \in DOMAIN events[s] : events[s][i].epoch = i
    BY <1>1, <2>1 DEF EpochsSound
  <2>3. ASSUME NEW i \in DOMAIN events[s] PROVE IsMemory(events[s][i])
    <3>1. PICK id : id = events[s][i].id
      OBVIOUS
    <3>2. id[1] \in Jobs
      BY <1>1, <3>1, Written
    <3>3. job[id[1]].kind # "sdk"
      <4>1. i # 0
        BY <1>1
      <4> QED
        BY <1>1, <2>2, <3>1, <4>1 DEF SdkUnnumbered
    <3>4. text[id[1]].type = "memory"
      BY <1>1, <3>2, <3>3 DEF TextsSound
    <3> QED
      BY <3>1, <3>4 DEF IsMemory
  <2> QED
    BY <2>2, <2>3
<1>3. ASSUME \A i \in DOMAIN events[s] : job[events[s][i].id[1]].kind = "sdk"
      PROVE  \A i \in DOMAIN events[s] : events[s][i].epoch = 0
  BY <1>1, <1>3 DEF SdkUnnumbered
<1>4. \/ \A i \in DOMAIN events[s] : events[s][i].epoch = i
      \/ \A i \in DOMAIN events[s] : events[s][i].epoch = 0
  BY <1>2, <1>3 DEF InOrder
<1>5. Timeline(s) = events[s]
  <2>1. \A i, k \in DOMAIN events[s] : i < k => events[s][i].epoch <= events[s][k].epoch
    <3>1. DOMAIN events[s] \subseteq Int
      BY <1>1
    <3> QED
      BY <1>4, <3>1
  <2> QED
    BY <1>1, <2>1, TimelineInOrder
<1> QED
  BY <1>1, <1>2, <1>4, <1>5

\* latest, the recall's last two and the latest context.
LEMMA LatestReads ==
  ASSUME RecallInv, NEW s \in Streams, OneEngine(s)
  PROVE  /\ \A n \in Nat : Latest(s, n) = LastOf(events[s], n)
         /\ RecallRecent(s) = Reverse(LastOf(events[s], 2))
         /\ LatestContext(s, Len(events[s])) = Reverse(LastOf(events[s], 50))
<1>1. PICK rows, down : rows = events[s] /\ down = ByEpochDesc(s)
  OBVIOUS
<1>2. InOrder(s)
  BY DEF InOrder
<1>3. /\ rows \in Seq(Event) /\ \A i \in DOMAIN rows : rows[i].epoch = i
      /\ \A i \in DOMAIN rows : IsMemory(rows[i])
  BY <1>1, <1>2, InOrderRows
<1>4. down = Reverse(rows)
  BY <1>1, <1>3, OrderedDown
<1>5. /\ down \in Seq(Event) /\ Len(down) = Len(rows) /\ Reverse(down) = rows
      /\ DOMAIN down = DOMAIN rows /\ DOMAIN rows = 1 .. Len(rows) /\ Len(rows) \in Nat
      /\ \A i \in DOMAIN rows : Len(rows) - i + 1 \in DOMAIN rows /\ down[i] = rows[Len(rows) - i + 1]
  BY <1>3, <1>4, ReverseRows, LenProperties
<1>6. \A i \in DOMAIN down : down[i] \in ToSet(rows) /\ IsMemory(down[i])
  BY <1>3, <1>5 DEF ToSet
<1>7. \A n \in Nat : Latest(s, n) = LastOf(rows, n)
  <2>1. {i \in DOMAIN down : down[i] \in ToSet(rows)} = DOMAIN down
    BY <1>6
  <2>2. RowsAt(down, {i \in DOMAIN down : down[i] \in ToSet(rows)}) = down
    BY <1>5, <2>1, RowsAtAll
  <2> QED
    BY <1>1, <1>5, <2>2 DEF Latest, Newest
<1>8. Memories(down) = down
  <2>1. {i \in DOMAIN down : IsMemory(down[i])} = DOMAIN down
    BY <1>6
  <2> QED
    BY <1>5, <2>1, RowsAtAll DEF Memories
<1>9. RecallRecent(s) = Reverse(LastOf(rows, 2))
  BY <1>1, <1>3, <1>4, <1>8, FirstTurned DEF RecallRecent
<1>10. LatestContext(s, Len(rows)) = Reverse(LastOf(rows, 50))
  <2>1. PICK last : last = LastOf(rows, 50)
    OBVIOUS
  <2>2. PICK m : m = IF 50 <= Len(rows) THEN 50 ELSE Len(rows)
    OBVIOUS
  <2>3. last \in Seq(Event) /\ Len(last) = m /\ m <= Len(rows) /\ m \in Nat
    <3>1. Len(rows) \in Nat /\ 50 \in Nat
      BY <1>5
    <3>2. m \in Nat /\ m <= Len(rows) /\ ((50 <= Len(rows) /\ m = 50) \/ (50 > Len(rows) /\ m = Len(rows)))
      BY <2>2, <3>1
    <3>3. LastOf(rows, 50) \in Seq(Event) /\ Len(LastOf(rows, 50)) = m
      BY <1>3, <3>1, <3>2, LastRows
    <3> QED
      BY <2>1, <3>2, <3>3
  <2>4. Within(last, Len(rows)) = last
    BY <1>5, <2>3, WithinRows
  <2> QED
    BY <1>7, <2>1, <2>4 DEF LatestContext
<1> QED
  BY <1>1, <1>7, <1>9, <1>10

\* Windows of epochs, and digests.
LEMMA WindowReads ==
  ASSUME RecallInv, NEW s \in Streams, InOrder(s)
  PROVE  /\ \A from \in Nat \ {0}, upTo \in Nat :
              Window(s, from, upTo) = SubSeq(events[s], from, Min({upTo, Len(events[s])}))
         /\ \A n \in Nat : Digest(s, n) = LastOf(events[s], n)
<1>1. PICK rows, l : rows = events[s] /\ l = Len(rows)
  OBVIOUS
<1>2. /\ rows \in Seq(Event) /\ Timeline(s) = rows /\ l \in Nat /\ DOMAIN rows = 1 .. l
      /\ \/ \A i \in DOMAIN rows : rows[i].epoch = i
         \/ \A i \in DOMAIN rows : rows[i].epoch = 0
  BY <1>1, InOrderRows, LenProperties
<1>3. \A n \in Nat : Digest(s, n) = LastOf(rows, n)
  BY <1>2 DEF Digest
<1>4. ASSUME NEW from \in Nat \ {0}, NEW upTo \in Nat
      PROVE  Window(s, from, upTo) = SubSeq(rows, from, Min({upTo, l}))
  <2>1. PICK b : b = Min({upTo, l})
    OBVIOUS
  <2>2. b \in 0 .. l /\ b = IF upTo <= l THEN upTo ELSE l
    BY <1>2, <2>1, OfTwo
  <2>3. \A i \in DOMAIN rows : (IF rows[i].epoch = 0 THEN i ELSE rows[i].epoch) = i
    BY <1>2
  <2>4. {i \in DOMAIN rows : (IF rows[i].epoch = 0 THEN i ELSE rows[i].epoch) \in from .. upTo} = from .. b
    <3>1. \A i : i \in DOMAIN rows /\ i \in from .. upTo <=> i \in from .. b
      BY <1>2, <2>2
    <3> QED
      BY <2>3, <3>1
  <2>5. Window(s, from, upTo) =
          RowsAt(rows, {i \in DOMAIN rows : (IF rows[i].epoch = 0 THEN i ELSE rows[i].epoch) \in from .. upTo})
    BY <1>2 DEF Window
  <2>6. RowsAt(rows, from .. b) = SubSeq(rows, from, b)
    BY <1>1, <1>2, <2>2, RowsAtInterval
  <2> QED
    BY <2>1, <2>4, <2>5, <2>6
<1> QED
  BY <1>1, <1>3, <1>4

\* A recall whose query matches nothing: what there was room for, last first.
LEMMA RecallReads ==
  ASSUME RecallInv, NEW s \in Streams, InOrder(s), NEW room \in Nat \ {0}
  PROVE  LET first == RecallCheckpoint(events[s])
         IN RecallContext(s, {}, room) =
              first \o Reverse(LastOf(Memories(events[s]), room - Len(first)))
<1>1. PICK rows, first, told, back, all, fits, recent :
        /\ rows = events[s] /\ first = RecallCheckpoint(rows) /\ told = Memories(rows)
        /\ back = Reverse(told) /\ all = first \o back /\ fits = Within(all, room)
        /\ recent = RecallRecent(s)
  OBVIOUS
<1>2. /\ rows \in Seq(Event) /\ Timeline(s) = rows
      /\ DOMAIN rows = 1 .. Len(rows) /\ Len(rows) \in Nat
      /\ ByEpochDesc(s) = rows \/ ByEpochDesc(s) = Reverse(rows)
  BY <1>1, InOrderRows, OrderedDown, LenProperties
<1>3. first \in Seq(Event) /\ Len(first) \in 0 .. 1
  <2>1. PICK found : found = RowsAt(rows, {i \in DOMAIN rows : IsCheckpoint(rows[i])})
    OBVIOUS
  <2>2. found \in Seq(Event) /\ Len(found) \in Nat
    BY <1>2, <2>1, RowsAtPlaces, LenProperties
  <2>3. PICK m \in Nat : (1 <= Len(found) /\ m = 1) \/ (1 > Len(found) /\ m = Len(found))
    BY <2>2
  <2>4. Within(found, 1) \in Seq(Event) /\ Len(Within(found, 1)) = m
    BY <2>2, <2>3, WithinRows
  <2>5. m \in 0 .. 1
    BY <2>2, <2>3
  <2>6. first = Within(found, 1)
    BY <1>1, <2>1 DEF RecallCheckpoint
  <2> QED
    BY <2>4, <2>5, <2>6
<1>4. /\ told \in Seq(Event) /\ Len(told) \in Nat
      /\ \A row : row \in ToSet(told) <=> row \in ToSet(rows) /\ IsMemory(row)
  <2>1. PICK at : at = {i \in DOMAIN rows : IsMemory(rows[i])}
    OBVIOUS
  <2>2. told \in Seq(Event) /\ ToSet(told) = {rows[i] : i \in at}
    BY <1>1, <1>2, <2>1, RowsAtPlaces DEF Memories
  <2> QED
    BY <2>1, <2>2, LenProperties DEF ToSet
<1>5. back \in Seq(Event) /\ Len(back) = Len(told) /\ ToSet(back) = ToSet(told)
  <2>1. /\ back \in Seq(Event) /\ Len(back) = Len(told)
        /\ \A i \in 1 .. Len(told) : back[i] = told[Len(told) - i + 1]
    BY <1>1, <1>4, ReverseRows
  <2>2. \A i \in 1 .. Len(told) : /\ Len(told) - i + 1 \in 1 .. Len(told)
                                  /\ Len(told) - (Len(told) - i + 1) + 1 = i
    BY <1>4
  <2>3. \A i \in 1 .. Len(told) : \E k \in 1 .. Len(told) : back[k] = told[i]
    BY <2>1, <2>2
  <2>4. DOMAIN back = 1 .. Len(told) /\ DOMAIN told = 1 .. Len(told)
    BY <1>4, <2>1, LenProperties
  <2>5. ToSet(back) = ToSet(told)
    <3>1. ASSUME NEW i \in DOMAIN back PROVE back[i] \in ToSet(told)
      BY <2>1, <2>2, <2>4 DEF ToSet
    <3>2. ASSUME NEW i \in DOMAIN told PROVE told[i] \in ToSet(back)
      BY <2>3, <2>4 DEF ToSet
    <3>3. \A row : row \in ToSet(back) => row \in ToSet(told)
      BY <3>1 DEF ToSet
    <3>4. \A row : row \in ToSet(told) => row \in ToSet(back)
      BY <3>2 DEF ToSet
    <3> QED
      BY <3>3, <3>4
  <2> QED
    BY <2>1, <2>5
<1>6. recent \in Seq(Event) /\ \A i \in DOMAIN recent : recent[i] \in ToSet(told)
  <2>1. PICK down, kept : down = ByEpochDesc(s) /\ kept = Memories(down)
    OBVIOUS
  <2>2. down \in Seq(Event) /\ ToSet(down) \subseteq ToSet(rows)
    <3>1. Reverse(rows) \in Seq(Event) /\ \A i \in DOMAIN Reverse(rows) : Reverse(rows)[i] \in ToSet(rows)
      <4>1. /\ Reverse(rows) \in Seq(Event) /\ DOMAIN Reverse(rows) = 1 .. Len(rows)
            /\ \A i \in 1 .. Len(rows) : Reverse(rows)[i] = rows[Len(rows) - i + 1]
        BY <1>2, ReverseRows, LenProperties
      <4>2. \A i \in 1 .. Len(rows) : Len(rows) - i + 1 \in DOMAIN rows
        BY <1>2
      <4> QED
        BY <4>1, <4>2 DEF ToSet
    <3> QED
      BY <1>2, <2>1, <3>1 DEF ToSet
  <2>3. kept \in Seq(Event) /\ Len(kept) \in Nat /\ \A row \in ToSet(kept) : row \in ToSet(down) /\ IsMemory(row)
    <3>1. PICK at : at = {i \in DOMAIN down : IsMemory(down[i])}
      OBVIOUS
    <3>2. kept \in Seq(Event) /\ ToSet(kept) = {down[i] : i \in at}
      BY <2>1, <2>2, <3>1, RowsAtPlaces DEF Memories
    <3> QED
      BY <3>1, <3>2, LenProperties DEF ToSet
  <2>4. recent = Within(kept, 2)
    BY <1>1, <2>1 DEF RecallRecent
  <2>5. PICK m \in Nat : (2 <= Len(kept) /\ m = 2) \/ (2 > Len(kept) /\ m = Len(kept))
    BY <2>3
  <2>6. recent \in Seq(Event) /\ Len(recent) = m /\ \A i \in 1 .. m : recent[i] = kept[i]
    BY <2>3, <2>4, <2>5, WithinRows
  <2>7. DOMAIN recent = 1 .. m /\ DOMAIN kept = 1 .. Len(kept) /\ m <= Len(kept)
    BY <2>3, <2>5, <2>6, LenProperties
  <2>8. \A i \in DOMAIN recent : recent[i] \in ToSet(kept)
    BY <2>3, <2>6, <2>7 DEF ToSet
  <2> QED
    BY <1>4, <2>2, <2>3, <2>6, <2>8
<1>7. Ranked(told, {}) = back
  <2>1. {i \in DOMAIN told : told[i].id \in {}} = {} /\ DOMAIN told \ {} = DOMAIN told
    OBVIOUS
  <2>2. RowsAt(told, {}) = << >> /\ RowsAt(told, DOMAIN told) = told
    BY <1>4, RowsAtAll
  <2>3. Reverse(<< >>) = << >>
    <3>1. << >> \in Seq(Event) /\ Len(<< >>) = 0
      OBVIOUS
    <3>2. Reverse(<< >>) \in Seq(Event) /\ Len(Reverse(<< >>)) = 0
      BY <3>1, ReverseRows
    <3> QED
      BY <3>2, EmptySeq
  <2>4. << >> \o back = back
    BY <1>5, ConcatEmptySeq
  <2> QED
    BY <1>1, <2>1, <2>2, <2>3, <2>4 DEF Ranked
<1>8. /\ all \in Seq(Event) /\ Len(all) = Len(first) + Len(told)
      /\ \A i \in 1 .. Len(first) + Len(told) :
           all[i] = IF i <= Len(first) THEN first[i] ELSE back[i - Len(first)]
  BY <1>1, <1>3, <1>5, ConcatProperties
<1>9. RecallContext(s, {}, room) =
        Within(fits \o RowsAt(recent, {i \in DOMAIN recent : recent[i] \notin ToSet(fits)}), room)
  BY <1>1, <1>2, <1>7 DEF RecallContext
<1>10. PICK n \in Nat : n = room - Len(first)
  <2>1. room - Len(first) \in Nat
    BY <1>3
  <2> QED
    BY <2>1
<1>11. Reverse(LastOf(told, n)) = Within(back, n)
  BY <1>1, <1>4, FirstTurned
<1>12. PICK m \in Nat : (n <= Len(back) /\ m = n) \/ (n > Len(back) /\ m = Len(back))
  BY <1>4, <1>5
<1>13. /\ Within(back, n) \in Seq(Event) /\ Len(Within(back, n)) = m
       /\ \A i \in 1 .. m : Within(back, n)[i] = back[i]
  BY <1>5, <1>12, WithinRows
<1>14. /\ fits \in Seq(Event) /\ Len(fits) = Len(first) + m
       /\ \A i \in 1 .. Len(first) + m : fits[i] = all[i]
  <2>1. PICK k \in Nat : k = Len(first) + m
    BY <1>3
  <2>2. room \in Nat /\ ((room <= Len(all) /\ k = room) \/ (room > Len(all) /\ k = Len(all)))
    BY <1>3, <1>4, <1>5, <1>8, <1>10, <1>12, <2>1
  <2>3. fits \in Seq(Event) /\ Len(fits) = k /\ \A i \in 1 .. k : fits[i] = all[i]
    <3>1. all \in Seq(Event)
      BY <1>8
    <3>2. /\ Within(all, room) \in Seq(Event) /\ Len(Within(all, room)) = k
          /\ \A i \in 1 .. k : Within(all, room)[i] = all[i]
      BY <2>2, <3>1, WithinRows
    <3> QED
      BY <1>1, <3>2
  <2> QED
    BY <2>1, <2>3
<1>15. fits = first \o Within(back, n)
  <2>1. PICK rest : rest = Within(back, n)
    OBVIOUS
  <2>2. /\ first \o rest \in Seq(Event) /\ Len(first \o rest) = Len(first) + m
        /\ \A i \in 1 .. Len(first) + m :
             (first \o rest)[i] = IF i <= Len(first) THEN first[i] ELSE rest[i - Len(first)]
    BY <1>3, <1>13, <2>1, ConcatProperties
  <2>3. ASSUME NEW i \in 1 .. Len(first) + m PROVE fits[i] = (first \o rest)[i]
    <3>1. Len(first) \in Nat /\ m <= Len(told) /\ i \in 1 .. Len(first) + Len(told)
      BY <1>3, <1>4, <1>5, <1>12
    <3>2. CASE i <= Len(first)
      BY <1>8, <1>14, <2>2, <3>1, <3>2
    <3>3. CASE ~(i <= Len(first))
      <4>1. i - Len(first) \in 1 .. m
        BY <3>1, <3>3
      <4>2. fits[i] = back[i - Len(first)]
        BY <1>8, <1>14, <3>1, <3>3
      <4>3. (first \o rest)[i] = rest[i - Len(first)]
        BY <2>2, <3>3
      <4> QED
        BY <1>13, <2>1, <4>1, <4>2, <4>3
    <3> QED
      BY <3>2, <3>3
  <2> QED
    BY <1>14, <2>1, <2>2, <2>3, SeqEqual
<1>16. RecallContext(s, {}, room) = fits
  <2>1. PICK late : late = RowsAt(recent, {i \in DOMAIN recent : recent[i] \notin ToSet(fits)})
    OBVIOUS
  <2>2. late \in Seq(Event)
    BY <1>6, <2>1, RowsAtPlaces
  <2>3. CASE room = Len(fits)
    <3>1. /\ fits \o late \in Seq(Event) /\ Len(fits \o late) = Len(fits) + Len(late)
          /\ \A i \in 1 .. Len(fits) + Len(late) :
               (fits \o late)[i] = IF i <= Len(fits) THEN fits[i] ELSE late[i - Len(fits)]
      BY <1>14, <2>2, ConcatProperties
    <3>2. Len(fits) \in Nat /\ Len(late) \in Nat
      BY <1>14, <2>2, LenProperties
    <3>3. /\ Within(fits \o late, room) \in Seq(Event) /\ Len(Within(fits \o late, room)) = room
          /\ \A i \in 1 .. room : Within(fits \o late, room)[i] = (fits \o late)[i]
      <4>1. PICK more : more = fits \o late
        OBVIOUS
      <4>2. more \in Seq(Event) /\ room \in Nat /\ room <= Len(more)
        BY <2>3, <3>1, <3>2, <4>1
      <4>3. /\ Within(more, room) \in Seq(Event) /\ Len(Within(more, room)) = room
            /\ \A i \in 1 .. room : Within(more, room)[i] = more[i]
        BY <4>2, WithinRows
      <4> QED
        BY <4>1, <4>3
    <3>4. \A i \in 1 .. room : (fits \o late)[i] = fits[i]
      BY <2>3, <3>1, <3>2
    <3> QED
      BY <1>9, <1>14, <2>1, <2>3, <3>3, <3>4, SeqEqual
  <2>4. CASE room # Len(fits)
    <3>1. Len(fits) = Len(all) /\ Len(fits) < room
      BY <1>3, <1>4, <1>5, <1>8, <1>10, <1>12, <1>14, <2>4
    <3>2. fits = all
      BY <1>8, <1>14, <3>1, SeqEqual
    <3>3. \A row \in ToSet(back) : row \in ToSet(all)
      <4>1. ASSUME NEW i \in DOMAIN back PROVE back[i] \in ToSet(all)
        <5>1. i \in 1 .. Len(told)
          BY <1>5, LenProperties
        <5>2. /\ i + Len(first) \in 1 .. Len(first) + Len(told) /\ ~(i + Len(first) <= Len(first))
              /\ i + Len(first) - Len(first) = i
          BY <1>3, <1>4, <5>1
        <5>3. DOMAIN all = 1 .. Len(first) + Len(told)
          BY <1>8, LenProperties
        <5>4. PICK k : k = i + Len(first)
          OBVIOUS
        <5>5. all[k] = back[k - Len(first)]
          BY <1>8, <5>2, <5>4
        <5> QED
          BY <5>2, <5>3, <5>4, <5>5 DEF ToSet
      <4> QED
        BY <4>1 DEF ToSet
    <3>4. {i \in DOMAIN recent : recent[i] \notin ToSet(fits)} = {}
      BY <1>5, <1>6, <3>2, <3>3
    <3>5. late = << >>
      BY <1>6, <2>1, <3>4, RowsAtAll
    <3>6. fits \o late = fits
      BY <1>14, <3>5, ConcatEmptySeq
    <3>7. Within(fits, room) = fits
      BY <1>14, <3>1, WithinRows
    <3> QED
      BY <1>9, <2>1, <3>6, <3>7
  <2> QED
    BY <2>3, <2>4
<1> QED
  BY <1>1, <1>10, <1>11, <1>15, <1>16

\* What is read of a stream is the newest, and in order (search.py; context.py,
\* build_context and build_recall_context; stream.py, replay; memory.py,
\* summarize): of one that one engine numbered by its epochs, and by its
\* positions of one that only the SDK wrote to.
THEOREM ReadsAreNewest == RecallSpec => []ReadsNewest
<1>1. ASSUME RecallInv PROVE ReadsNewest
  <2> SUFFICES ASSUME NEW s \in Streams, NEW rows, rows = events[s]
               PROVE  /\ OneEngine(s) =>
                           /\ \A n \in 1 .. Len(rows) + 1 : Latest(s, n) = LastOf(rows, n)
                           /\ RecallRecent(s) = Reverse(LastOf(rows, 2))
                           /\ LatestContext(s, Len(rows)) = Reverse(LastOf(rows, 50))
                      /\ InOrder(s) =>
                           /\ \A from \in 1 .. Len(rows) + 1, upTo \in 1 .. Len(rows) + 1 :
                                Window(s, from, upTo) = SubSeq(rows, from, Min({upTo, Len(rows)}))
                           /\ \A n \in 1 .. Len(rows) + 1 : Digest(s, n) = LastOf(rows, n)
                           /\ \A room \in 1 .. Len(rows) + 1 : LET first == RecallCheckpoint(rows) IN
                                RecallContext(s, {}, room) =
                                  first \o Reverse(LastOf(Memories(rows), room - Len(first)))
    BY DEF ReadsNewest
  <2>1. \A n \in 1 .. Len(rows) + 1 : n \in Nat \ {0} /\ n \in Nat
    BY LenProperties
  <2>2. CASE OneEngine(s)
    <3>1. InOrder(s)
      BY <2>2 DEF InOrder
    <3> QED
      BY <1>1, <2>1, <2>2, <3>1, LatestReads, WindowReads, RecallReads
  <2>3. CASE ~OneEngine(s)
    BY <1>1, <2>1, <2>3, WindowReads, RecallReads
  <2> QED
    BY <2>2, <2>3
<1> QED
  BY <1>1, RecallInvHolds, PTL

==============================================================================
