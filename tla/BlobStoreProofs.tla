--------------------------- MODULE BlobStoreProofs ---------------------------
(***************************************************************************)
(* Proofs about BlobStore, for any processes, calls, sizes of payloads and *)
(* numbers of keys and starts.                                             *)
(***************************************************************************)
EXTENDS BlobStore, SequenceTheorems, WellFoundedInduction, TLAPS

-----------------------------------------------------------------------------
(***************************************************************************)
(* The first active key                                                    *)
(***************************************************************************)
Less == {ss \in Nat \X Nat : ss[1] < ss[2]}

\* The library's fact about the natural numbers, for WFMin.
LEMMA LessIsWellFounded == IsWellFoundedOn(Less, Nat)
  BY NatLessThanWellFounded DEF OpToRel, Less

\* If there is an active key, the query for it finds one.
LEMMA FirstActiveIsActive ==
  ASSUME keys \in Seq(Key), Active # {}
  PROVE  FirstActive \in Active
<1>1. Active \subseteq Nat
  BY DEF Active
<1>2. PICK i \in Active : \A k \in Active : <<k, i>> \notin Less
  BY <1>1, LessIsWellFounded, WFMin, Zenon
<1>3. \A k \in Active : i <= k
  <2> SUFFICES ASSUME NEW k \in Active, k < i PROVE FALSE
    BY <1>1
  <2>1. <<k, i>> \in Less
    BY <1>1 DEF Less
  <2> QED
    BY <2>1, <1>2
<1> QED
  BY <1>3 DEF FirstActive

-----------------------------------------------------------------------------
(***************************************************************************)
(* Types                                                                   *)
(***************************************************************************)
Ready == {"ready", "rotating", "rotated"}

\* The tables: TypeOK says so, and a key is wrapped with a secret that is there.
TableTypes ==
  /\ keys \in Seq(Key)
  /\ keys # <<>> => Active # {} /\ secret # "none"
  /\ secret \in {"none", "empty"} \cup Processes
  /\ starts \in 0..MaxStarts
  /\ contested \in BOOLEAN

\* The variables of the processes: TypeOK says so.
ProcessTypes ==
  /\ pc \in [Processes -> MakingKeys \cup {"down", "loading", "ready"}]
  /\ password \in [Processes -> {"none", "weak"} \cup Processes]
  /\ current \in [Processes -> 0..Len(keys)]
  /\ kid \in [Processes -> 0..Len(keys)]
  /\ dek \in [Processes -> 0..Len(keys)]
  /\ cache \in [Processes -> SUBSET (DOMAIN keys)]

\* Where a process is tells that what it is about to use is there.
Placed ==
  \A p \in Processes :
    /\ pc[p] \in Ready \cup {"loading"} => keys # <<>>
    /\ pc[p] \in Ready => kid[p] # 0
    /\ pc[p] = "inserting" => secret # "none"
    /\ pc[p] \in {"inserting", "rotating"} => password[p] # "none"
    /\ pc[p] \in {"rotating", "rotated"} => current[p] # 0

KeyTypes == TableTypes /\ ProcessTypes /\ Placed

\* The same of the calls.
CallTypes ==
  /\ walrus \in Seq(Blob)
  /\ DOMAIN manifests \subseteq DOMAIN walrus
  /\ manifests \in [DOMAIN manifests -> Seq(Nat)]
  /\ job \in [Jobs -> Call]
  /\ \A j \in Jobs :
       /\ job[j].stage \in {"storing", "listing", "fetching"} =>
            job[j].at \in Processes /\ job[j].of \in Jobs
       /\ job[j].stage = "storing" => Len(job[j].hand) = 1
       /\ job[j].stage = "ok" => job[j].of \in Jobs

\* The key in the header of a blob is one of the table.
HeadersNamed ==
  /\ \A i \in DOMAIN walrus : walrus[i].kid \in DOMAIN keys
  /\ \A j \in Jobs : job[j].stage = "storing" => job[j].hand[1].kid \in DOMAIN keys

\* What _get_password returns is a secret.
LEMMA PasswordIsThere ==
  ASSUME TableTypes, secret # "none"
  PROVE  Password \in {"weak"} \cup Processes /\ Password # "none"
  BY ProcessesAssumption DEF TableTypes, Password

\* KeyStore() up to the key it is about to insert.
LEMMA StartTypes ==
  ASSUME NEW p \in Processes
  PROVE  KeyTypes /\ (Start(p) \/ FindSecret(p) \/ OpenSecret(p) \/ FillSecret(p)) => KeyTypes'
<1> SUFFICES ASSUME KeyTypes,
                    Start(p) \/ FindSecret(p) \/ OpenSecret(p) \/ FillSecret(p)
             PROVE  KeyTypes'
  OBVIOUS
<1> USE DEF KeyTypes, Goto, table
<1>1. CASE Start(p)
  <2>1. TableTypes'
    <3>1. contested' \in BOOLEAN
      BY <1>1 DEF Start, TableTypes, Contend
    <3>2. starts' \in 0..MaxStarts
      BY <1>1, BoundsAssumption DEF Start, TableTypes
    <3>3. QED
      BY <1>1, <3>1, <3>2 DEF Start, TableTypes, Active
  <2>2. ProcessTypes'
    BY <1>1 DEF Start, ProcessTypes, MakingKeys
  <2>3. Active # {} => keys # <<>>
    BY DEF Active
  <2>4. Placed'
    BY <1>1, <2>3 DEF Start, Placed, Ready, ProcessTypes
  <2>5. QED
    BY <2>1, <2>2, <2>4
<1>2. CASE FindSecret(p)
  <2>1. TableTypes'
    BY <1>2 DEF FindSecret, TableTypes, Active
  <2>2. secret # "none" => Password \in {"weak"} \cup Processes /\ Password # "none"
    BY PasswordIsThere
  <2>3. ProcessTypes'
    BY <1>2, <2>2 DEF FindSecret, ProcessTypes, MakingKeys
  <2>4. Placed'
    BY <1>2, <2>2 DEF FindSecret, Placed, Ready, ProcessTypes
  <2>5. QED
    BY <2>1, <2>3, <2>4
<1>3. CASE OpenSecret(p)
  <2>1. TableTypes'
    BY <1>3 DEF OpenSecret, TableTypes, Active
  <2>2. ProcessTypes' /\ Placed'
    BY <1>3 DEF OpenSecret, ProcessTypes, MakingKeys, Placed, Ready
  <2>3. QED
    BY <2>1, <2>2
<1>4. CASE FillSecret(p)
  <2>1. p # "none"
    BY ProcessesAssumption
  <2>2. TableTypes'
    BY <1>4, <2>1 DEF FillSecret, TableTypes, Active
  <2>3. ProcessTypes'
    BY <1>4 DEF FillSecret, ProcessTypes, MakingKeys
  <2>4. Placed'
    BY <1>4, <2>1 DEF FillSecret, Placed, Ready, ProcessTypes
  <2>5. QED
    BY <2>2, <2>3, <2>4
<1>5. QED
  BY <1>1, <1>2, <1>3, <1>4

\* A call that has not begun, and one that has failed, are calls.
LEMMA NoJobIsCall == NoJob \in Call
<1>1. <<>> \in Seq(Blob) /\ <<>> \in Seq(Nat)
  OBVIOUS
<1>2. <<>> \in Seq(Jobs \X Nat)
  OBVIOUS
<1>3. QED
  BY <1>1, <1>2 DEF NoJob, Call

\* And claims neither an upload nor a result.
LEMMA FailedIsCall == Failed \in Call /\ Failed.stage = "failed" /\ Failed.id = 0
<1>1. NoJob.id = 0
  BY DEF NoJob
<1>2. QED
  BY <1>1, NoJobIsCall DEF Failed, Call

\* Nothing is there to begin with.
LEMMA TypesInit == Init => KeyTypes /\ CallTypes
<1> SUFFICES ASSUME Init PROVE KeyTypes /\ CallTypes
  OBVIOUS
<1>1. TableTypes
  <2>1. keys \in Seq(Key) /\ starts \in 0..MaxStarts
    BY BoundsAssumption DEF Init
  <2>2. contested \in BOOLEAN
    BY DEF Init
  <2>3. QED
    BY <2>1, <2>2 DEF Init, TableTypes
<1>2. ProcessTypes /\ Placed
  BY DEF Init, ProcessTypes, Placed, Ready
<1>4. CallTypes
  BY NoJobIsCall DEF Init, CallTypes, NoJob
<1>5. QED
  BY <1>1, <1>2, <1>4 DEF KeyTypes

\* The table with key i retired: one active key the fewer, and nothing else.
LEMMA Retired ==
  ASSUME TableTypes, NEW i \in DOMAIN keys
  PROVE  LET retired == [keys EXCEPT ![i].active = FALSE] IN
         /\ retired \in Seq(Key) /\ Len(retired) = Len(keys) /\ DOMAIN retired = DOMAIN keys
         /\ \A k \in DOMAIN keys : /\ retired[k].kek = keys[k].kek
                                  /\ retired[k].active <=> keys[k].active /\ k # i
<1> DEFINE retired == [keys EXCEPT ![i].active = FALSE]
<1>1. \A k \in DOMAIN keys : keys[k] \in Key
  BY DEF TableTypes
<1>2. retired \in [1..Len(keys) -> Key]
  <2>1. \A k \in DOMAIN keys : [keys[k] EXCEPT !.active = FALSE] \in Key
    BY <1>1 DEF Key
  <2>2. keys \in [1..Len(keys) -> Key]
    BY DEF TableTypes
  <2>3. QED
    BY <1>1, <2>1, <2>2
<1>3. Len(retired) = Len(keys) /\ retired \in Seq(Key)
  BY <1>2 DEF TableTypes
<1>4. \A k \in DOMAIN keys : /\ retired[k].kek = keys[k].kek
                            /\ retired[k].active <=> keys[k].active /\ k # i
  BY <1>1 DEF Key
<1>5. QED
  BY <1>2, <1>3, <1>4 DEF TableTypes

\* What the table is after a key has been made.
Made(p) ==
  LET k == Len(keys) + 1 IN
  /\ keys' \in Seq(Key) /\ Len(keys') = k /\ DOMAIN keys' = 1..k
  /\ keys'[k] = [kek |-> password[p], active |-> TRUE]
  /\ \A i \in DOMAIN keys : keys'[i].kek = keys[i].kek
  /\ k \in Active'

\* Both commits that make a key append it, active.
LEMMA KeyMade ==
  ASSUME NEW p \in Processes, KeyTypes, InsertKey(p) \/ Rotate(p)
  PROVE  Made(p)
<1> USE DEF KeyTypes
<1>1. password[p] # "none" /\ NewKey(p) \in Key
  BY DEF InsertKey, Rotate, ProcessTypes, Placed, NewKey, Key
<1>2. CASE InsertKey(p)
  <2>1. keys' = Append(keys, NewKey(p))
    BY <1>2 DEF InsertKey
  <2>2. QED
    BY <1>1, <2>1 DEF TableTypes, Made, Active, NewKey
<1>3. CASE Rotate(p)
  <2> DEFINE retired == [keys EXCEPT ![current[p]].active = FALSE]
  <2>1. current[p] \in DOMAIN keys
    BY <1>3 DEF Rotate, TableTypes, ProcessTypes, Placed
  <2>2. /\ retired \in Seq(Key) /\ Len(retired) = Len(keys)
        /\ \A k \in DOMAIN keys : retired[k].kek = keys[k].kek
    BY <2>1, Retired
  <2>3. keys' = Append(retired, NewKey(p))
    BY <1>3 DEF Rotate
  <2> HIDE DEF retired
  <2>4. QED
    BY <1>1, <2>2, <2>3 DEF TableTypes, Made, Active, NewKey
<1>4. QED
  BY <1>2, <1>3

\* A commit that makes a key leaves every reference to a key in place.
LEMMA KeyMadeTypes ==
  ASSUME NEW p \in Processes
  PROVE  KeyTypes /\ (InsertKey(p) \/ Rotate(p)) => KeyTypes'
<1> SUFFICES ASSUME KeyTypes, InsertKey(p) \/ Rotate(p) PROVE KeyTypes'
  OBVIOUS
<1>1. Made(p)
  BY KeyMade
<1> DEFINE k == Len(keys) + 1
<1>2. /\ keys' \in Seq(Key) /\ Len(keys') = k /\ DOMAIN keys' = 1..k
      /\ k \in Active' /\ k \in Nat \ {0} /\ DOMAIN keys = 1..(k - 1)
  BY <1>1 DEF Made, KeyTypes, TableTypes
<1>3. /\ secret' = secret /\ starts' = starts /\ contested' = contested
      /\ secret # "none" /\ kid' = kid /\ dek' = dek
      /\ password' = [password EXCEPT ![p] = "none"]
      /\ cache' = [cache EXCEPT ![p] = @ \cup {k}]
      /\ \/ pc[p] = "inserting" /\ pc' = [pc EXCEPT ![p] = "loading"] /\ current' = current
         \/ /\ pc[p] = "rotating" /\ pc' = [pc EXCEPT ![p] = "rotated"]
            /\ current' = [current EXCEPT ![p] = k]
  BY <1>2 DEF InsertKey, Rotate, Goto, KeyTypes, TableTypes, ProcessTypes, Placed, Ready
<1> HIDE DEF k
<1>4. TableTypes'
  BY <1>2, <1>3 DEF KeyTypes, TableTypes
<1>5. ProcessTypes'
  <2>1. Len(keys) \in Nat /\ k = Len(keys) + 1
    BY DEF k, KeyTypes, TableTypes
  <2>2. /\ pc' \in [Processes -> MakingKeys \cup {"down", "loading", "ready"}]
        /\ password' \in [Processes -> {"none", "weak"} \cup Processes]
    BY <1>3 DEF KeyTypes, ProcessTypes, MakingKeys
  <2>3. /\ current' \in [Processes -> 0..k]
        /\ kid' \in [Processes -> 0..k] /\ dek' \in [Processes -> 0..k]
    BY <1>3, <2>1 DEF KeyTypes, ProcessTypes
  <2>4. cache' \in [Processes -> SUBSET (1..k)]
    BY <1>2, <1>3, <2>1 DEF KeyTypes, ProcessTypes
  <2>5. QED
    BY <1>2, <2>2, <2>3, <2>4 DEF ProcessTypes
<1>6. Placed'
  BY <1>2, <1>3 DEF KeyTypes, ProcessTypes, Placed, Ready
<1>7. QED
  BY <1>4, <1>5, <1>6 DEF KeyTypes

\* What active_key() finds: a row of the table.
LEMMA FirstActiveKey ==
  ASSUME KeyTypes, keys # <<>>
  PROVE  FirstActive \in Active /\ FirstActive \in DOMAIN keys /\ FirstActive \in 1..Len(keys)
<1>1. FirstActive \in Active
  BY FirstActiveIsActive DEF KeyTypes, TableTypes
<1>2. QED
  BY <1>1 DEF Active, KeyTypes, TableTypes

\* The steps that load, rotate, shred or lose an adapter's key.
LEMMA AdapterTypes ==
  ASSUME NEW p \in Processes
  PROVE  KeyTypes /\ (Load(p) \/ BeginRotate(p) \/ EndRotate(p) \/ Shred(p) \/ Crash(p)) => KeyTypes'
<1> SUFFICES ASSUME KeyTypes,
                    Load(p) \/ BeginRotate(p) \/ EndRotate(p) \/ Shred(p) \/ Crash(p)
             PROVE  KeyTypes'
  OBVIOUS
<1> USE DEF KeyTypes, Goto, table
<1>1. keys' = keys /\ secret' = secret /\ starts' = starts
  BY DEF Load, BeginRotate, EndRotate, Shred, Crash
<1>2. TableTypes'
  <2>1. contested' \in BOOLEAN
    BY DEF Load, BeginRotate, EndRotate, Shred, Crash, Contend, TableTypes
  <2>2. QED
    BY <1>1, <2>1 DEF TableTypes, Active
<1>3. 0 \in 0..Len(keys) /\ {} \in SUBSET DOMAIN keys
  BY DEF TableTypes
<1> DEFINE first == FirstActive
<1>4. keys # <<>> => /\ first \in DOMAIN keys /\ first \in 0..Len(keys) /\ first # 0
                     /\ Unwrapped(p, first) \in {0, first}
  BY FirstActiveKey DEF Unwrapped
<1> HIDE DEF first
<1>5. CASE Load(p)
  <2>1. keys # <<>>
    BY <1>5 DEF Load, Placed
  <2>2. \/ /\ pc' = [pc EXCEPT ![p] = "down"] /\ cache' = [cache EXCEPT ![p] = {}]
           /\ UNCHANGED <<kid, dek>>
        \/ /\ pc' = [pc EXCEPT ![p] = "ready"]
           /\ cache' = [cache EXCEPT ![p] = @ \cup {first}]
           /\ kid' = [kid EXCEPT ![p] = first] /\ dek' = [dek EXCEPT ![p] = first]
    BY <1>4, <1>5, <2>1 DEF Load, first
  <2>3. password' = password /\ current' = current
    BY <1>5 DEF Load
  <2>4. ProcessTypes'
    <3>1. pc' \in [Processes -> MakingKeys \cup {"down", "loading", "ready"}]
      BY <2>2 DEF ProcessTypes, MakingKeys
    <3>2. kid' \in [Processes -> 0..Len(keys)]
      BY <1>4, <2>1, <2>2 DEF ProcessTypes
    <3>3. dek' \in [Processes -> 0..Len(keys)]
      BY <1>4, <2>1, <2>2 DEF ProcessTypes
    <3>4. cache' \in [Processes -> SUBSET (DOMAIN keys)]
      <4>1. [cache EXCEPT ![p] = @ \cup {first}] \in [Processes -> SUBSET (DOMAIN keys)]
        BY <1>4, <2>1 DEF ProcessTypes
      <4>2. [cache EXCEPT ![p] = {}] \in [Processes -> SUBSET (DOMAIN keys)]
        BY DEF ProcessTypes
      <4>3. QED
        BY <2>2, <4>1, <4>2
    <3>5. QED
      BY <1>1, <2>3, <3>1, <3>2, <3>3, <3>4 DEF ProcessTypes
  <2>5. Placed'
    BY <1>1, <1>4, <2>1, <2>2, <2>3 DEF Placed, ProcessTypes, Ready
  <2>6. QED
    BY <1>2, <2>4, <2>5
<1>6. CASE BeginRotate(p)
  <2>1. keys # <<>> /\ Password \in {"weak"} \cup Processes /\ Password # "none"
    BY <1>6, PasswordIsThere DEF BeginRotate, Placed, Ready, TableTypes
  <2>2. /\ pc' = [pc EXCEPT ![p] = "rotating"] /\ pc[p] = "ready"
        /\ current' = [current EXCEPT ![p] = first]
        /\ password' = [password EXCEPT ![p] = Password]
        /\ UNCHANGED <<kid, dek, cache>>
    BY <1>6 DEF BeginRotate, first
  <2>3. ProcessTypes'
    BY <1>1, <1>4, <2>1, <2>2 DEF ProcessTypes, MakingKeys
  <2>4. Placed'
    BY <1>1, <1>4, <2>1, <2>2 DEF Placed, ProcessTypes, Ready
  <2>5. QED
    BY <1>2, <2>3, <2>4
<1>7. CASE EndRotate(p)
  <2>1. keys # <<>> /\ pc[p] = "rotated" /\ current[p] # 0
    BY <1>7 DEF EndRotate, Placed, Ready
  <2>2. /\ pc' = [pc EXCEPT ![p] = "ready"] /\ current' = [current EXCEPT ![p] = 0]
        /\ password' = password
        /\ \/ UNCHANGED <<kid, dek, cache>>
           \/ /\ cache' = [cache EXCEPT ![p] = @ \cup {first}]
              /\ kid' = [kid EXCEPT ![p] = current[p]] /\ dek' = [dek EXCEPT ![p] = first]
    BY <1>4, <1>7, <2>1 DEF EndRotate, first
  <2>3. ProcessTypes'
    <3>1. pc' \in [Processes -> MakingKeys \cup {"down", "loading", "ready"}]
      BY <2>2 DEF ProcessTypes, MakingKeys
    <3>2. kid' \in [Processes -> 0..Len(keys)]
      BY <2>2 DEF ProcessTypes
    <3>4. dek' \in [Processes -> 0..Len(keys)]
      BY <1>4, <2>1, <2>2 DEF ProcessTypes
    <3>5. current' \in [Processes -> 0..Len(keys)]
      BY <1>3, <2>2 DEF ProcessTypes
    <3>3. cache' \in [Processes -> SUBSET (DOMAIN keys)]
      BY <1>4, <2>1, <2>2 DEF ProcessTypes
    <3>6. QED
      BY <1>1, <2>2, <3>1, <3>2, <3>3, <3>4, <3>5 DEF ProcessTypes
  <2>4. Placed'
    BY <1>1, <1>4, <2>1, <2>2 DEF Placed, ProcessTypes, Ready
  <2>5. QED
    BY <1>2, <2>3, <2>4
<1>8. CASE Shred(p)
  <2>1. dek' = [dek EXCEPT ![p] = 0] /\ UNCHANGED <<pc, password, current, kid, cache>>
    BY <1>8 DEF Shred
  <2>2. ProcessTypes' /\ Placed'
    BY <1>1, <1>3, <2>1 DEF ProcessTypes, Placed, MakingKeys
  <2>3. QED
    BY <1>2, <2>2
<1>9. CASE Crash(p)
  <2>1. /\ pc' = [pc EXCEPT ![p] = "down"] /\ password' = [password EXCEPT ![p] = "none"]
        /\ current' = [current EXCEPT ![p] = 0] /\ kid' = [kid EXCEPT ![p] = 0]
        /\ dek' = [dek EXCEPT ![p] = 0] /\ cache' = [cache EXCEPT ![p] = {}]
    BY <1>9 DEF Crash
  <2>2. ProcessTypes'
    BY <1>1, <1>3, <2>1 DEF ProcessTypes, MakingKeys
  <2>3. Placed'
    BY <1>1, <2>1 DEF ProcessTypes, Placed, Ready
  <2>4. QED
    BY <1>2, <2>2, <2>3
<1>10. QED
  BY <1>5, <1>6, <1>7, <1>8, <1>9

\* next is state with its next blob at hand.
Uploads(j, state, chunk, next) ==
  /\ next \in Call /\ next.stage = "storing" /\ next.at = state.at /\ next.of = state.of
  /\ next.ids = state.ids /\ next.id = state.id /\ Len(next.hand) = 1
  /\ next.hand[1].kid = kid[state.at] /\ next.hand[1].kid \in DOMAIN keys
  /\ next.hand[1].dek = dek[state.at] /\ dek[state.at] # 0
  /\ next.hand[1].of = j /\ next.hand[1].chunk = chunk
  /\ chunk = 0 => next.hand[1].list = state.ids

\* What UploadNext leaves is a call with its next blob at hand, or a failed one.
LEMMA UploadNextCall ==
  ASSUME KeyTypes,
         NEW j \in Jobs, NEW state \in Call, state.at \in Processes,
         NEW chunk \in Nat, pc[state.at] = "ready", UploadNext(j, state, chunk)
  PROVE  \E next \in Call : /\ job' = [job EXCEPT ![j] = next]
                            /\ next = Failed \/ Uploads(j, state, chunk, next)
<1> DEFINE list == IF chunk = 0 THEN state.ids ELSE <<>>
           b == Encrypted(state.at, j, chunk, list)
           next == [state EXCEPT !.stage = "storing", !.hand = <<b>>]
<1>1. list \in Seq(Nat)
  BY DEF Call
<1>2. kid[state.at] \in DOMAIN keys /\ kid[state.at] \in Nat /\ dek[state.at] \in Nat
  BY DEF KeyTypes, TableTypes, ProcessTypes, Placed, Ready
<1>3. /\ b \in Blob /\ b.kid = kid[state.at] /\ b.dek = dek[state.at]
      /\ b.of = j /\ b.chunk = chunk /\ b.list = list
  BY <1>1, <1>2 DEF Encrypted, Blob
<1>4. \/ job' = [job EXCEPT ![j] = Failed]
      \/ dek[state.at] # 0 /\ job' = [job EXCEPT ![j] = next]
  BY DEF UploadNext
<1>5. chunk = 0 => list = state.ids
  OBVIOUS
<1> HIDE DEF list, b
<1>6. <<b>> \in Seq(Blob) /\ Len(<<b>>) = 1 /\ <<b>>[1] = b
  BY <1>3
<1>7. /\ next \in Call /\ next.stage = "storing" /\ next.at = state.at /\ next.of = state.of
      /\ next.ids = state.ids /\ next.id = state.id /\ next.hand = <<b>>
  BY <1>6 DEF Call
<1> HIDE DEF next
<1>8. dek[state.at] # 0 => Uploads(j, state, chunk, next)
  BY <1>2, <1>3, <1>5, <1>6, <1>7 DEF Uploads
<1>9. QED
  BY <1>4, <1>7, <1>8, FailedIsCall

\* A sequence with one element more.
LEMMA OneMore ==
  ASSUME NEW S, NEW s \in Seq(S), NEW h \in Seq(S), Len(h) = 1
  PROVE  /\ s \o h \in Seq(S) /\ Len(s \o h) = Len(s) + 1
         /\ (s \o h)[Len(s) + 1] = h[1]
         /\ \A i \in DOMAIN s : (s \o h)[i] = s[i]
<1>1. Len(s) \in Nat /\ DOMAIN s = 1..Len(s)
  OBVIOUS
<1>2. QED
  BY <1>1, ConcatProperties

\* Walrus once it has the blob at hand.
LEMMA Put ==
  ASSUME CallTypes, NEW j \in Jobs, Uploading(j)
  PROVE  LET n == Len(walrus) + 1
             put == walrus \o job[j].hand IN
         /\ n \in Nat \ {0} /\ DOMAIN walrus = 1..(n - 1)
         /\ put \in Seq(Blob) /\ Len(put) = n /\ DOMAIN put = 1..n
         /\ put[n] = job[j].hand[1] /\ job[j].hand[1] \in Blob
         /\ \A i \in DOMAIN walrus : i \in 1..n /\ put[i] = walrus[i]
<1>1. job[j].hand \in Seq(Blob) /\ Len(job[j].hand) = 1 /\ walrus \in Seq(Blob)
  BY DEF CallTypes, Call, Uploading
<1> DEFINE put == walrus \o job[j].hand
<1>2. /\ put \in Seq(Blob) /\ Len(put) = Len(walrus) + 1
      /\ put[Len(walrus) + 1] = job[j].hand[1]
      /\ \A i \in DOMAIN walrus : put[i] = walrus[i]
  BY <1>1, OneMore
<1>3. job[j].hand[1] \in Blob
  BY <1>1
<1> HIDE DEF put
<1>4. /\ Len(walrus) + 1 \in Nat \ {0} /\ DOMAIN walrus = 1..((Len(walrus) + 1) - 1)
      /\ DOMAIN put = 1..(Len(walrus) + 1)
  BY <1>1, <1>2
<1>5. QED
  BY <1>2, <1>3, <1>4 DEF put

\* The call with the id of the blob that was stored among its own.
LEMMA PartAdded ==
  ASSUME CallTypes, NEW j \in Jobs, NEW n \in Nat
  PROVE  LET state == [job[j] EXCEPT !.ids = Append(@, n)] IN
         /\ state \in Call /\ state.at = job[j].at /\ state.of = job[j].of
         /\ state.id = job[j].id /\ state.ids = Append(job[j].ids, n)
<1>1. job[j] \in Call /\ job[j].ids \in Seq(Nat)
  BY DEF CallTypes, Call
<1>2. Append(job[j].ids, n) \in Seq(Nat)
  BY <1>1
<1>3. QED
  BY <1>1, <1>2 DEF Call

\* The steps of store_blob keep the types.
LEMMA StoreTypes ==
  ASSUME NEW j \in Jobs
  PROVE  KeyTypes /\ CallTypes /\ HeadersNamed
           /\ ((\E p \in Processes : BeginStore(j, p)) \/ PutPart(j) \/ PutLast(j))
         => KeyTypes' /\ CallTypes' /\ HeadersNamed'
<1> SUFFICES ASSUME KeyTypes, CallTypes, HeadersNamed,
                    (\E p \in Processes : BeginStore(j, p)) \/ PutPart(j) \/ PutLast(j)
             PROVE  KeyTypes' /\ CallTypes' /\ HeadersNamed'
  OBVIOUS
<1>1. UNCHANGED <<keys, secret, pc, password, current, kid, dek, cache, starts, contested>>
  BY DEF BeginStore, PutPart, PutLast, table, process
<1>2. KeyTypes'
  BY <1>1 DEF KeyTypes, TableTypes, ProcessTypes, Placed, Active
<1>3. CASE \E p \in Processes : BeginStore(j, p)
  <2>1. PICK p \in Processes : BeginStore(j, p)
    BY <1>3
  <2> DEFINE state == [NoJob EXCEPT !.at = p, !.of = j]
  <2>2. state \in Call /\ state.at = p /\ state.of = j /\ state.stage = "idle"
    BY NoJobIsCall DEF Call, NoJob
  <2>3. pc[p] = "ready" /\ UploadNext(j, state, 1) /\ walrus' = walrus /\ manifests' = manifests
    BY <2>1 DEF BeginStore
  <2> HIDE DEF state
  <2>4. PICK next \in Call : /\ job' = [job EXCEPT ![j] = next]
                             /\ next = Failed \/ Uploads(j, state, 1, next)
    BY <2>2, <2>3, UploadNextCall
  <2>5. CallTypes'
    BY <2>2, <2>3, <2>4, FailedIsCall DEF CallTypes, Uploads
  <2>6. HeadersNamed'
    BY <1>1, <2>3, <2>4, FailedIsCall DEF CallTypes, HeadersNamed, Uploads
  <2>7. QED
    BY <1>2, <2>5, <2>6
<1>4. CASE PutPart(j)
  <2> DEFINE state == [job[j] EXCEPT !.ids = Append(@, Len(walrus) + 1)]
             chunk == IF Len(state.ids) < Parts[j] THEN Len(state.ids) + 1 ELSE 0
             n == Len(walrus) + 1
  <2>1. /\ Uploading(j) /\ walrus' = walrus \o job[j].hand /\ manifests' = manifests
        /\ UploadNext(j, state, chunk)
    BY <1>4 DEF PutPart
  <2>2. /\ n \in Nat \ {0} /\ DOMAIN walrus = 1..(n - 1) /\ walrus' \in Seq(Blob)
        /\ DOMAIN walrus' = 1..n /\ walrus'[n] = job[j].hand[1]
        /\ \A i \in DOMAIN walrus : walrus'[i] = walrus[i]
    BY <2>1, Put
  <2>3. /\ state \in Call /\ state.at \in Processes /\ state.of \in Jobs
        /\ pc[state.at] = "ready" /\ job[j].stage = "storing"
    BY <2>1, <2>2, PartAdded DEF Uploading, CallTypes
  <2>4. chunk \in Nat
    BY <2>3 DEF Call
  <2> HIDE DEF state, chunk, n
  <2>5. PICK next \in Call : /\ job' = [job EXCEPT ![j] = next]
                             /\ next = Failed \/ Uploads(j, state, chunk, next)
    BY <2>1, <2>3, <2>4, UploadNextCall
  <2>6. CallTypes'
    BY <2>1, <2>2, <2>3, <2>5, FailedIsCall DEF CallTypes, Uploads
  <2>7. HeadersNamed'
    BY <1>1, <2>2, <2>3, <2>5, FailedIsCall DEF CallTypes, HeadersNamed, Uploads
  <2>8. QED
    BY <1>2, <2>6, <2>7
<1>5. CASE PutLast(j)
  <2> DEFINE n == Len(walrus) + 1
             next == [job[j] EXCEPT !.stage = "ok", !.id = n, !.hand = <<>>, !.ids = <<>>]
  <2>1. /\ Uploading(j) /\ walrus' = walrus \o job[j].hand
        /\ job' = [job EXCEPT ![j] = next]
        /\ \/ manifests' = manifests
           \/ manifests' = [i \in DOMAIN manifests \cup {n} |->
                               IF i = n THEN job[j].ids ELSE manifests[i]]
    BY <1>5 DEF PutLast, SaveManifest
  <2>2. /\ n \in Nat \ {0} /\ DOMAIN walrus = 1..(n - 1) /\ walrus' \in Seq(Blob)
        /\ DOMAIN walrus' = 1..n /\ walrus'[n] = job[j].hand[1]
        /\ \A i \in DOMAIN walrus : walrus'[i] = walrus[i]
    BY <2>1, Put
  <2>3. next \in Call /\ next.stage = "ok" /\ next.of \in Jobs
    <3>1. job[j] \in Call /\ job[j].of \in Jobs /\ <<>> \in Seq(Blob) /\ <<>> \in Seq(Nat)
      BY <2>1 DEF Uploading, CallTypes
    <3>2. QED
      BY <2>2, <3>1 DEF Call
  <2>4. job[j].ids \in Seq(Nat) /\ job[j].stage = "storing"
    BY <2>1 DEF Uploading, CallTypes, Call
  <2> HIDE DEF n, next
  <2>5. /\ DOMAIN manifests' \subseteq DOMAIN walrus'
        /\ manifests' \in [DOMAIN manifests' -> Seq(Nat)]
    BY <2>1, <2>2, <2>4 DEF CallTypes
  <2>6. CallTypes'
    BY <2>1, <2>2, <2>3, <2>5 DEF CallTypes
  <2>7. HeadersNamed'
    BY <1>1, <2>1, <2>2, <2>3, <2>4 DEF CallTypes, HeadersNamed
  <2>8. QED
    BY <1>2, <2>6, <2>7
<1>6. QED
  BY <1>3, <1>4, <1>5

-----------------------------------------------------------------------------
(***************************************************************************)
(* Payloads                                                                *)
(***************************************************************************)
\* ids are the blobs at Walrus with the parts of s from the one after the nth.
Lists(at, s, ids, n) ==
  \A i \in 1..Len(ids) : /\ ids[i] \in DOMAIN at
                         /\ at[ids[i]].of = s
                         /\ at[ids[i]].chunk = n + i

\* A call that stores has uploaded the first parts and has the next at hand, or
\* all of them, and then the manifest that lists them.
Storing(j) ==
  LET b == job[j].hand[1] IN
  /\ job[j].of = j /\ b.of = j
  /\ Lists(walrus, j, job[j].ids, 0)
  /\ \/ b.chunk = Len(job[j].ids) + 1 /\ b.chunk <= Parts[j]
     \/ b.chunk = 0 /\ Parts[j] > 1 /\ Len(job[j].ids) = Parts[j] /\ b.list = job[j].ids

\* What a call has returned names the manifest, or the only part.
Returned(j) ==
  /\ job[j].id \in DOMAIN walrus
  /\ walrus[job[j].id].of = j
  /\ walrus[job[j].id].chunk = IF Parts[j] = 1 THEN 1 ELSE 0

\* A call that looks for the list has the manifest's id.
Listing(j) ==
  /\ Len(job[j].ids) = 1 /\ job[j].ids[1] \in DOMAIN walrus
  /\ walrus[job[j].ids[1]].of = job[j].of /\ walrus[job[j].ids[1]].chunk = 0
  /\ job[j].got = <<>>

\* A call that fetches has the first parts, and the ids of the others.
Fetching(j) ==
  /\ Len(job[j].got) + Len(job[j].ids) = Parts[job[j].of]
  /\ job[j].ids # <<>>
  /\ Lists(walrus, job[j].of, job[j].ids, Len(job[j].got))
  /\ \A i \in 1..Len(job[j].got) : job[j].got[i] = <<job[j].of, i>>

\* A manifest lists all parts of its payload.
ManifestsComplete ==
  \A i \in DOMAIN walrus : walrus[i].chunk = 0 =>
    Len(walrus[i].list) = Parts[walrus[i].of] /\ Lists(walrus, walrus[i].of, walrus[i].list, 0)

\* A row of the table is what the manifest says.
TableFollows ==
  \A i \in DOMAIN manifests : walrus[i].chunk = 0 /\ manifests[i] = walrus[i].list

Agrees(j) ==
  /\ job[j].stage = "storing" => Storing(j)
  /\ job[j].id # 0 => Returned(j)
  /\ job[j].stage = "listing" => Listing(j)
  /\ job[j].stage = "fetching" => Fetching(j)
  /\ job[j].stage = "ok" /\ job[j].of # j => job[j].got = Whole(job[j].of)

CallsAgree == \A j \in Jobs : Agrees(j)

PayloadInv == ManifestsComplete /\ TableFollows /\ CallsAgree

\* The keys, the calls and the payloads, together.
Inv == KeyTypes /\ CallTypes /\ HeadersNamed /\ PayloadInv

\* A blob of Walrus, decrypted by a process.
LEMMA DecryptTypes ==
  ASSUME KeyTypes, CallTypes, HeadersNamed,
         NEW p \in Processes, NEW i \in DOMAIN walrus, Decrypts(p, walrus[i])
  PROVE  KeyTypes' /\ walrus[i] \in Blob /\ walrus' = walrus /\ keys' = keys
<1>1. UNCHANGED <<keys, secret, pc, password, current, kid, dek, starts, walrus, contested>>
  BY DEF Decrypts, table
<1>2. cache' \in [Processes -> SUBSET (DOMAIN keys)]
  BY DEF Decrypts, KeyTypes, ProcessTypes, HeadersNamed
<1>3. KeyTypes'
  BY <1>1, <1>2 DEF KeyTypes, TableTypes, ProcessTypes, Placed, Active
<1>4. QED
  BY <1>1, <1>3 DEF CallTypes

\* The steps of retrieve_blob keep the types: what they read is there.
LEMMA RetrieveTypes ==
  ASSUME NEW j \in Jobs
  PROVE  Inv /\ (\/ \E p \in Processes : \E s \in Stored : BeginRetrieve(j, p, s)
                 \/ FetchManifest(j) \/ Fetch(j) \/ Raise(j))
         => KeyTypes' /\ CallTypes' /\ HeadersNamed'
<1> SUFFICES ASSUME Inv, \/ \E p \in Processes : \E s \in Stored : BeginRetrieve(j, p, s)
                         \/ FetchManifest(j) \/ Fetch(j) \/ Raise(j)
             PROVE  KeyTypes' /\ CallTypes' /\ HeadersNamed'
  OBVIOUS
<1> USE DEF Inv
<1>1. job[j] \in Call /\ walrus \in Seq(Blob) /\ job \in [Jobs -> Call]
  BY DEF CallTypes
<1>2. CASE \E p \in Processes : \E s \in Stored : BeginRetrieve(j, p, s)
  <2>1. PICK p \in Processes, s \in Stored : BeginRetrieve(j, p, s)
    BY <1>2
  <2>2. s \in Jobs /\ job[s].id \in Nat
    BY DEF Stored, CallTypes, Call
  <2>3. UNCHANGED <<keys, secret, pc, password, current, kid, dek, cache, starts,
                    walrus, manifests, contested>>
    BY <2>1 DEF BeginRetrieve, table, process
  <2>4. PICK next : /\ job' = [job EXCEPT ![j] = next] /\ next \in Call
                    /\ next.stage \in {"fetching", "listing"} /\ next.at = p /\ next.of = s
    <3> DEFINE state == [NoJob EXCEPT !.at = p, !.of = s]
    <3>1. state \in Call /\ state.at = p /\ state.of = s
      BY <2>2, NoJobIsCall DEF Call
    <3>2. <<job[s].id>> \in Seq(Nat) /\ \A i \in DOMAIN manifests : manifests[i] \in Seq(Nat)
      BY <2>2 DEF CallTypes
    <3>3. PICK ids \in Seq(Nat), stage \in {"fetching", "listing"} :
            job' = [job EXCEPT ![j] = [state EXCEPT !.stage = stage, !.ids = ids]]
      BY <2>1, <3>2 DEF BeginRetrieve, HasManifest
    <3> HIDE DEF state
    <3> DEFINE next == [state EXCEPT !.stage = stage, !.ids = ids]
    <3>4. next \in Call /\ next.stage = stage /\ next.at = p /\ next.of = s
      BY <3>1 DEF Call
    <3>5. QED
      BY <3>3, <3>4
  <2>5. KeyTypes'
    BY <2>3 DEF KeyTypes, TableTypes, ProcessTypes, Placed, Active
  <2>6. CallTypes' /\ HeadersNamed'
    BY <2>2, <2>3, <2>4 DEF CallTypes, HeadersNamed
  <2>7. QED
    BY <2>5, <2>6
<1>3. CASE FetchManifest(j)
  <2> DEFINE id == job[j].ids[1]
             b == walrus[id]
             next == [job[j] EXCEPT !.stage = "fetching", !.ids = b.list]
  <2>1. /\ job[j].stage = "listing" /\ Decrypts(job[j].at, b)
        /\ job' = [job EXCEPT ![j] = next]
        /\ \/ manifests' = manifests
           \/ manifests' = [i \in DOMAIN manifests \cup {id} |->
                               IF i = id THEN b.list ELSE manifests[i]]
    BY <1>3 DEF FetchManifest, SaveManifest
  <2>2. id \in DOMAIN walrus /\ job[j].at \in Processes /\ job[j].of \in Jobs
    BY <2>1 DEF PayloadInv, CallsAgree, Agrees, Listing, CallTypes
  <2>3. KeyTypes' /\ b \in Blob /\ walrus' = walrus /\ keys' = keys
    BY <2>1, <2>2, DecryptTypes
  <2>4. b.list \in Seq(Nat)
    BY <2>3 DEF Blob
  <2> HIDE DEF id, b
  <2>5. next \in Call /\ next.stage = "fetching" /\ next.at = job[j].at /\ next.of = job[j].of
    BY <1>1, <2>4 DEF Call
  <2> HIDE DEF next
  <2>6. /\ DOMAIN manifests' \subseteq DOMAIN walrus'
        /\ manifests' \in [DOMAIN manifests' -> Seq(Nat)]
    BY <2>1, <2>2, <2>3, <2>4 DEF CallTypes
  <2>7. CallTypes' /\ HeadersNamed'
    BY <2>1, <2>2, <2>3, <2>5, <2>6 DEF CallTypes, HeadersNamed
  <2>8. QED
    BY <2>3, <2>7
<1>4. CASE Fetch(j)
  <2> DEFINE id == Head(job[j].ids)
             b == walrus[id]
             last == Len(job[j].ids) = 1
             next == [job[j] EXCEPT !.got = Append(@, <<b.of, b.chunk>>), !.ids = Tail(@),
                                    !.stage = IF last THEN "ok" ELSE "fetching"]
  <2>1. /\ job[j].stage = "fetching" /\ Decrypts(job[j].at, b)
        /\ job' = [job EXCEPT ![j] = next] /\ manifests' = manifests
    BY <1>4 DEF Fetch
  <2>2. job[j].ids # <<>> /\ job[j].at \in Processes /\ job[j].of \in Jobs
    BY <2>1 DEF PayloadInv, CallsAgree, Agrees, Fetching, CallTypes
  <2>3. /\ job[j].ids \in Seq(Nat) /\ Tail(job[j].ids) \in Seq(Nat)
        /\ id = job[j].ids[1] /\ 1 \in 1..Len(job[j].ids)
    BY <1>1, <2>2 DEF Call
  <2>4. id \in DOMAIN walrus
    BY <2>1, <2>3 DEF PayloadInv, CallsAgree, Agrees, Fetching, Lists
  <2>5. KeyTypes' /\ b \in Blob /\ walrus' = walrus /\ keys' = keys
    BY <2>1, <2>2, <2>4, DecryptTypes
  <2>6. <<b.of, b.chunk>> \in Jobs \X Nat
    BY <2>5 DEF Blob
  <2> HIDE DEF id, b, last
  <2>7. /\ next \in Call /\ next.stage \in {"ok", "fetching"}
        /\ next.at = job[j].at /\ next.of = job[j].of
    <3>1. Append(job[j].got, <<b.of, b.chunk>>) \in Seq(Jobs \X Nat)
      BY <1>1, <2>6 DEF Call
    <3>2. QED
      BY <1>1, <2>3, <3>1 DEF Call
  <2> HIDE DEF next
  <2>8. CallTypes' /\ HeadersNamed'
    BY <2>1, <2>2, <2>5, <2>7 DEF CallTypes, HeadersNamed
  <2>9. QED
    BY <2>5, <2>8
<1>5. CASE Raise(j)
  <2>1. /\ UNCHANGED <<keys, secret, pc, password, current, kid, dek, cache, starts,
                       walrus, manifests, contested>>
        /\ job' = [job EXCEPT ![j] = Failed]
    BY <1>5 DEF Raise, table, process
  <2>2. KeyTypes'
    BY <2>1 DEF KeyTypes, TableTypes, ProcessTypes, Placed, Active
  <2>3. CallTypes' /\ HeadersNamed'
    BY <2>1, FailedIsCall DEF CallTypes, HeadersNamed
  <2>4. QED
    BY <2>2, <2>3
<1>6. QED
  BY <1>2, <1>3, <1>4, <1>5

\* Blobs are added to Walrus and never changed.
Extended ==
  /\ DOMAIN walrus \subseteq DOMAIN walrus'
  /\ \A i \in DOMAIN walrus : walrus'[i] = walrus[i]

\* A list of parts stays good as Walrus grows.
LEMMA ListsStay ==
  ASSUME NEW s, NEW ids, NEW n, Lists(walrus, s, ids, n), Extended
  PROVE  Lists(walrus', s, ids, n)
  BY DEF Lists, Extended

\* What is true of a call stays true while the call does nothing.
LEMMA CallStays ==
  ASSUME NEW j \in Jobs, Agrees(j), job'[j] = job[j], Extended
  PROVE  Agrees(j)'
<1>1. Storing(j) => Storing(j)'
  BY ListsStay DEF Storing
<1>2. Returned(j) => Returned(j)'
  BY DEF Returned, Extended
<1>3. Listing(j) => Listing(j)'
  BY DEF Listing, Extended
<1>4. Fetching(j) => Fetching(j)'
  BY ListsStay DEF Fetching
<1>5. QED
  BY <1>1, <1>2, <1>3, <1>4 DEF Agrees, Whole

\* A call that has failed claims nothing.
LEMMA FailedAgrees ==
  ASSUME NEW j \in Jobs, job'[j] = Failed
  PROVE  Agrees(j)'
  BY FailedIsCall DEF Agrees

\* store_blob lists the parts it has stored, in order, and nothing else.
LEMMA StorePayload ==
  ASSUME NEW j \in Jobs
  PROVE  Inv /\ ((\E p \in Processes : BeginStore(j, p)) \/ PutPart(j) \/ PutLast(j)) => PayloadInv'
<1> SUFFICES ASSUME Inv, (\E p \in Processes : BeginStore(j, p)) \/ PutPart(j) \/ PutLast(j)
             PROVE  PayloadInv'
  OBVIOUS
<1> USE DEF Inv
<1>1. Parts[j] \in Nat \ {0} /\ job \in [Jobs -> Call] /\ Agrees(j)
  BY PartsAssumption DEF CallTypes, PayloadInv, CallsAgree
<1>2. CASE \E p \in Processes : BeginStore(j, p)
  <2>1. PICK p \in Processes : BeginStore(j, p)
    BY <1>2
  <2> DEFINE state == [NoJob EXCEPT !.at = p, !.of = j]
  <2>2. /\ state \in Call /\ state.at = p /\ state.of = j /\ state.id = 0 /\ state.ids = <<>>
    BY NoJobIsCall DEF Call, NoJob
  <2>3. pc[p] = "ready" /\ UploadNext(j, state, 1) /\ walrus' = walrus /\ manifests' = manifests
    BY <2>1 DEF BeginStore
  <2> HIDE DEF state
  <2>4. PICK next \in Call : /\ job' = [job EXCEPT ![j] = next]
                             /\ next = Failed \/ Uploads(j, state, 1, next)
    BY <2>2, <2>3, UploadNextCall
  <2>5. Agrees(j)'
    <3>1. CASE next = Failed
      BY <1>1, <2>4, <3>1, FailedAgrees
    <3>2. CASE Uploads(j, state, 1, next)
      BY <1>1, <2>2, <2>4, <3>2 DEF Agrees, Uploads, Storing, Lists
    <3>3. QED
      BY <2>4, <3>1, <3>2
  <2>6. \A i \in Jobs \ {j} : Agrees(i)'
    BY <1>1, <2>3, <2>4, CallStays DEF Extended, PayloadInv, CallsAgree
  <2>7. QED
    BY <2>3, <2>5, <2>6 DEF PayloadInv, CallsAgree, ManifestsComplete, TableFollows, Lists
<1>3. ASSUME Uploading(j), walrus' = walrus \o job[j].hand
      PROVE  Extended /\ ManifestsComplete'
  <2> DEFINE n == Len(walrus) + 1
  <2>1. /\ n \in Nat \ {0} /\ DOMAIN walrus = 1..(n - 1)
        /\ DOMAIN walrus' = 1..n /\ walrus'[n] = job[j].hand[1]
        /\ \A i \in DOMAIN walrus : i \in 1..n /\ walrus'[i] = walrus[i]
    BY <1>3, Put
  <2> HIDE DEF n
  <2>2. Extended
    BY <2>1 DEF Extended
  <2>3. Storing(j)
    BY <1>1, <1>3 DEF Uploading, Agrees
  <2>4. ASSUME NEW i \in DOMAIN walrus', walrus'[i].chunk = 0
        PROVE  /\ Len(walrus'[i].list) = Parts[walrus'[i].of]
               /\ Lists(walrus', walrus'[i].of, walrus'[i].list, 0)
    <3>1. CASE i = n
      <4>1. /\ walrus'[i].of = j /\ walrus'[i].list = job[j].ids
            /\ Len(job[j].ids) = Parts[j] /\ Lists(walrus, j, job[j].ids, 0)
        BY <1>1, <2>1, <2>3, <2>4, <3>1 DEF Storing, Call
      <4>2. QED
        BY <2>2, <4>1, ListsStay
    <3>2. CASE i \in DOMAIN walrus
      <4>1. /\ walrus'[i] = walrus[i]
            /\ Len(walrus[i].list) = Parts[walrus[i].of] /\ Lists(walrus, walrus[i].of, walrus[i].list, 0)
        BY <2>1, <2>4, <3>2 DEF PayloadInv, ManifestsComplete
      <4>2. QED
        BY <2>2, <4>1, ListsStay
    <3>3. QED
      BY <2>1, <3>1, <3>2
  <2>5. QED
    BY <2>2, <2>4 DEF ManifestsComplete
<1>4. CASE PutPart(j)
  <2> DEFINE n == Len(walrus) + 1
             state == [job[j] EXCEPT !.ids = Append(@, n)]
             chunk == IF Len(state.ids) < Parts[j] THEN Len(state.ids) + 1 ELSE 0
  <2>1. /\ Uploading(j) /\ walrus' = walrus \o job[j].hand /\ manifests' = manifests
        /\ Parts[j] > 1 /\ job[j].hand[1].chunk # 0 /\ UploadNext(j, state, chunk)
    BY <1>4 DEF PutPart
  <2>2. /\ n \in Nat \ {0} /\ DOMAIN walrus = 1..(n - 1)
        /\ DOMAIN walrus' = 1..n /\ walrus'[n] = job[j].hand[1]
        /\ \A i \in DOMAIN walrus : i \in 1..n /\ walrus'[i] = walrus[i]
    BY <2>1, Put
  <2>3. Extended /\ ManifestsComplete'
    BY <1>3, <2>1
  <2>4. /\ state \in Call /\ state.at \in Processes /\ state.of = job[j].of
        /\ pc[state.at] = "ready" /\ job[j].stage = "storing" /\ state.id = job[j].id
        /\ state.ids = Append(job[j].ids, n)
    BY <2>1, <2>2, PartAdded DEF Uploading, CallTypes
  <2>5. Storing(j) /\ job[j].ids \in Seq(Nat)
    BY <1>1, <2>4 DEF Agrees, Call
  <2>6. chunk \in Nat
    BY <2>4 DEF Call
  <2>7. /\ state.ids \in Seq(Nat) /\ Len(state.ids) = Len(job[j].ids) + 1
        /\ \A i \in 1..Len(job[j].ids) : state.ids[i] = job[j].ids[i]
        /\ state.ids[Len(job[j].ids) + 1] = n /\ Len(job[j].ids) \in Nat
    BY <2>2, <2>4, <2>5, AppendProperties
  <2>8. /\ Len(state.ids) <= Parts[j]
        /\ chunk = 0 => Len(state.ids) = Parts[j]
        /\ chunk # 0 => chunk = Len(state.ids) + 1 /\ chunk <= Parts[j]
    BY <1>1, <2>1, <2>5, <2>7 DEF Storing
  <2> HIDE DEF n, state, chunk
  <2>9. /\ job[j].hand[1].of = j /\ job[j].hand[1].chunk = Len(job[j].ids) + 1
         /\ Lists(walrus', j, job[j].ids, 0)
    BY <2>1, <2>3, <2>5, ListsStay DEF Storing
  <2>10. Lists(walrus', j, state.ids, 0)
    <3>1. ASSUME NEW i \in 1..Len(state.ids)
          PROVE  /\ state.ids[i] \in DOMAIN walrus' /\ walrus'[state.ids[i]].of = j
                 /\ walrus'[state.ids[i]].chunk = i
      <4>1. CASE i = Len(job[j].ids) + 1
        <5>1. state.ids[i] = n /\ n \in 1..n
          BY <2>2, <2>7, <4>1
        <5>2. QED
          BY <2>2, <2>9, <4>1, <5>1
      <4>2. CASE i \in 1..Len(job[j].ids)
        <5>1. state.ids[i] = job[j].ids[i]
          BY <2>7, <4>2
        <5>2. QED
          BY <2>7, <2>9, <4>2, <5>1 DEF Lists
      <4>3. QED
        BY <2>7, <4>1, <4>2
    <3>2. QED
      BY <3>1, <2>4 DEF Lists
  <2>11. PICK next \in Call : /\ job' = [job EXCEPT ![j] = next]
                              /\ next = Failed \/ Uploads(j, state, chunk, next)
    BY <2>1, <2>4, <2>6, UploadNextCall
  <2>12. Agrees(j)'
    <3>1. CASE next = Failed
      BY <1>1, <2>11, <3>1, FailedAgrees
    <3>2. CASE Uploads(j, state, chunk, next)
      <4>1. /\ job'[j] = next /\ next.stage = "storing" /\ next.of = j /\ next.ids = state.ids
            /\ next.id = job[j].id /\ next.hand[1].of = j /\ next.hand[1].chunk = chunk
            /\ chunk = 0 => next.hand[1].list = state.ids
        BY <1>1, <2>4, <2>5, <2>11, <3>2 DEF Uploads, Storing
      <4>2. Storing(j)'
        BY <2>1, <2>8, <2>10, <4>1 DEF Storing
      <4>3. next.id # 0 => Returned(j)'
        BY <1>1, <2>3, <4>1 DEF Agrees, Returned, Extended
      <4>4. QED
        BY <4>1, <4>2, <4>3 DEF Agrees
    <3>3. QED
      BY <2>11, <3>1, <3>2
  <2>13. \A i \in Jobs \ {j} : Agrees(i)'
    BY <1>1, <2>3, <2>11, CallStays DEF PayloadInv, CallsAgree
  <2>14. TableFollows'
    BY <2>1, <2>3 DEF TableFollows, PayloadInv, Extended, CallTypes
  <2>15. QED
    BY <2>3, <2>12, <2>13, <2>14 DEF PayloadInv, CallsAgree
<1>5. CASE PutLast(j)
  <2> DEFINE n == Len(walrus) + 1
             next == [job[j] EXCEPT !.stage = "ok", !.id = n, !.hand = <<>>, !.ids = <<>>]
  <2>1. /\ Uploading(j) /\ walrus' = walrus \o job[j].hand
        /\ Parts[j] > 1 => job[j].hand[1].chunk = 0
        /\ job' = [job EXCEPT ![j] = next]
        /\ \/ manifests' = manifests
           \/ /\ Parts[j] > 1
              /\ manifests' = [i \in DOMAIN manifests \cup {n} |->
                                  IF i = n THEN job[j].ids ELSE manifests[i]]
    BY <1>5 DEF PutLast, SaveManifest
  <2>2. /\ n \in Nat \ {0} /\ DOMAIN walrus = 1..(n - 1)
        /\ DOMAIN walrus' = 1..n /\ walrus'[n] = job[j].hand[1]
        /\ \A i \in DOMAIN walrus : i \in 1..n /\ walrus'[i] = walrus[i]
    BY <2>1, Put
  <2>3. Extended /\ ManifestsComplete'
    BY <1>3, <2>1
  <2>4. Storing(j) /\ job[j] \in Call /\ Len(job[j].ids) \in Nat
    BY <1>1, <2>1 DEF Uploading, Agrees, Call
  <2>5. next.stage = "ok" /\ next.of = j /\ next.id = n
    BY <2>4 DEF Call, Storing
  <2> HIDE DEF n, next
  <2>6. /\ walrus'[n].of = j
        /\ walrus'[n].chunk = IF Parts[j] = 1 THEN 1 ELSE 0
        /\ Parts[j] > 1 => walrus'[n].list = job[j].ids
    BY <1>1, <2>1, <2>2, <2>4 DEF Storing
  <2>7. Agrees(j)'
    BY <1>1, <2>1, <2>2, <2>5, <2>6 DEF Agrees, Returned
  <2>8. \A i \in Jobs \ {j} : Agrees(i)'
    BY <1>1, <2>1, <2>3, CallStays DEF PayloadInv, CallsAgree
  <2>9. TableFollows'
    BY <1>1, <2>1, <2>2, <2>6 DEF TableFollows, PayloadInv, CallTypes
  <2>10. QED
    BY <2>3, <2>7, <2>8, <2>9 DEF PayloadInv, CallsAgree
<1>6. QED
  BY <1>2, <1>4, <1>5

\* retrieve_blob takes the parts in the order of the list, from either place.
LEMMA RetrievePayload ==
  ASSUME NEW j \in Jobs
  PROVE  Inv /\ (\/ \E p \in Processes : \E s \in Stored : BeginRetrieve(j, p, s)
                 \/ FetchManifest(j) \/ Fetch(j) \/ Raise(j))
         => PayloadInv'
<1> SUFFICES ASSUME Inv, \/ \E p \in Processes : \E s \in Stored : BeginRetrieve(j, p, s)
                         \/ FetchManifest(j) \/ Fetch(j) \/ Raise(j)
             PROVE  PayloadInv'
  OBVIOUS
<1> USE DEF Inv
<1>1. job \in [Jobs -> Call] /\ Agrees(j) /\ job[j] \in Call
  BY DEF CallTypes, PayloadInv, CallsAgree
<1>2. walrus' = walrus /\ Extended /\ job' = [job EXCEPT ![j] = job'[j]]
  BY <1>1 DEF BeginRetrieve, FetchManifest, Fetch, Raise, Decrypts, Extended
<1>3. ManifestsComplete' /\ \A i \in Jobs \ {j} : Agrees(i)'
  <2>1. ManifestsComplete'
    BY <1>2 DEF PayloadInv, ManifestsComplete
  <2>2. \A i \in Jobs \ {j} : Agrees(i)'
    BY <1>1, <1>2, CallStays DEF PayloadInv, CallsAgree
  <2>3. QED
    BY <2>1, <2>2
<1>4. CASE \E p \in Processes : \E s \in Stored : BeginRetrieve(j, p, s)
  <2>1. PICK p \in Processes, s \in Stored : BeginRetrieve(j, p, s)
    BY <1>4
  <2> DEFINE id == job[s].id
             state == [NoJob EXCEPT !.at = p, !.of = s]
  <2>2. /\ s \in Jobs /\ id \in Nat \ {0} /\ id \in DOMAIN walrus /\ walrus[id].of = s
        /\ walrus[id].chunk = IF Parts[s] = 1 THEN 1 ELSE 0
        /\ Parts[s] \in Nat \ {0}
    BY PartsAssumption DEF Stored, CallTypes, Call, PayloadInv, CallsAgree, Agrees, Returned
  <2>3. /\ state \in Call /\ state.at = p /\ state.of = s /\ state.id = 0 /\ state.got = <<>>
    BY <2>2, NoJobIsCall DEF Call, NoJob
  <2>4. manifests' = manifests
    BY <2>1 DEF BeginRetrieve
  <2>5. \/ /\ Parts[s] = 1
           /\ job' = [job EXCEPT ![j] = [state EXCEPT !.stage = "fetching", !.ids = <<id>>]]
        \/ /\ id \in DOMAIN manifests
           /\ job' = [job EXCEPT ![j] = [state EXCEPT !.stage = "fetching", !.ids = manifests[id]]]
        \/ /\ Parts[s] # 1
           /\ job' = [job EXCEPT ![j] = [state EXCEPT !.stage = "listing", !.ids = <<id>>]]
    BY <2>1 DEF BeginRetrieve, HasManifest
  <2> HIDE DEF id, state
  <2>6. Agrees(j)'
    <3>1. CASE Parts[s] = 1 /\ job' = [job EXCEPT ![j] = [state EXCEPT !.stage = "fetching", !.ids = <<id>>]]
      <4>1. /\ job'[j].stage = "fetching" /\ job'[j].ids = <<id>> /\ job'[j].of = s
            /\ job'[j].id = 0 /\ job'[j].got = <<>>
        BY <1>1, <2>3, <3>1 DEF Call
      <4>2. Lists(walrus', s, <<id>>, 0)
        BY <1>2, <2>2, <3>1 DEF Lists
      <4>3. Len(job'[j].ids) = 1 /\ Len(job'[j].got) = 0
        BY <4>1
      <4>4. \A i \in 1..Len(job'[j].got) : job'[j].got[i] = <<job'[j].of, i>>
        BY <4>1
      <4>5. Fetching(j)'
        <5>1. Len(job'[j].got) + Len(job'[j].ids) = Parts[job'[j].of]
          <6>1. Parts[job'[j].of] = 1
            BY <3>1, <4>1
          <6>2. QED
            BY <4>3, <6>1
        <5>2. job'[j].ids # <<>>
          BY <4>1
        <5>3. Lists(walrus', job'[j].of, job'[j].ids, Len(job'[j].got))
          BY <4>1, <4>2, <4>3
        <5>4. QED
          BY <4>4, <5>1, <5>2, <5>3 DEF Fetching
      <4>6. QED
        BY <4>1, <4>5 DEF Agrees
    <3>2. CASE /\ id \in DOMAIN manifests
               /\ job' = [job EXCEPT ![j] = [state EXCEPT !.stage = "fetching", !.ids = manifests[id]]]
      <4>1. /\ job'[j].stage = "fetching" /\ job'[j].ids = manifests[id] /\ job'[j].of = s
            /\ job'[j].id = 0 /\ job'[j].got = <<>>
        BY <1>1, <2>3, <3>2 DEF Call
      <4>2. Len(manifests[id]) = Parts[s] /\ Lists(walrus', s, manifests[id], 0)
        BY <1>2, <2>2, <3>2 DEF PayloadInv, TableFollows, ManifestsComplete
      <4>3. manifests[id] # <<>>
        BY <2>2, <4>2
      <4>4. Fetching(j)'
        BY <2>2, <4>1, <4>2, <4>3 DEF Fetching
      <4>5. QED
        BY <4>1, <4>4 DEF Agrees
    <3>3. CASE /\ Parts[s] # 1
               /\ job' = [job EXCEPT ![j] = [state EXCEPT !.stage = "listing", !.ids = <<id>>]]
      <4>1. /\ job'[j].stage = "listing" /\ job'[j].ids = <<id>> /\ job'[j].of = s
            /\ job'[j].id = 0 /\ job'[j].got = <<>>
        BY <1>1, <2>3, <3>3 DEF Call
      <4>2. Listing(j)'
        BY <1>2, <2>2, <3>3, <4>1 DEF Listing
      <4>3. QED
        BY <4>1, <4>2 DEF Agrees
    <3>4. QED
      BY <2>5, <3>1, <3>2, <3>3
  <2>7. QED
    BY <1>2, <1>3, <2>4, <2>6 DEF PayloadInv, CallsAgree, TableFollows
<1>5. CASE FetchManifest(j)
  <2> DEFINE id == job[j].ids[1]
             b == walrus[id]
             next == [job[j] EXCEPT !.stage = "fetching", !.ids = b.list]
  <2>1. /\ job[j].stage = "listing" /\ job' = [job EXCEPT ![j] = next]
        /\ \/ manifests' = manifests
           \/ manifests' = [i \in DOMAIN manifests \cup {id} |->
                               IF i = id THEN b.list ELSE manifests[i]]
    BY <1>5 DEF FetchManifest, SaveManifest
  <2>2. /\ id \in DOMAIN walrus /\ b.of = job[j].of /\ b.chunk = 0 /\ job[j].got = <<>>
        /\ b.of \in Jobs
    BY <1>1, <2>1 DEF Agrees, Listing, CallTypes, Blob
  <2>3. /\ Len(b.list) = Parts[b.of] /\ Lists(walrus, b.of, b.list, 0)
        /\ Parts[b.of] \in Nat \ {0}
    BY <2>2, PartsAssumption DEF PayloadInv, ManifestsComplete
  <2>4. TableFollows'
    BY <1>2, <2>1, <2>2 DEF PayloadInv, TableFollows
  <2> HIDE DEF id, b
  <2>5. /\ job'[j].stage = "fetching" /\ job'[j].ids = b.list /\ job'[j].of = b.of
        /\ job'[j].id = job[j].id /\ job'[j].got = <<>>
    BY <1>1, <2>1, <2>2 DEF Call
  <2>6. b.list # <<>>
    BY <2>3
  <2>7. Fetching(j)'
    BY <1>2, <2>3, <2>5, <2>6 DEF Fetching
  <2>8. Agrees(j)'
    BY <1>1, <1>2, <2>5, <2>7 DEF Agrees, Returned
  <2>9. QED
    BY <1>3, <2>4, <2>8 DEF PayloadInv, CallsAgree
<1>6. CASE Fetch(j)
  <2> DEFINE b == walrus[Head(job[j].ids)]
             piece == <<b.of, b.chunk>>
             last == Len(job[j].ids) = 1
             next == [job[j] EXCEPT !.got = Append(@, piece), !.ids = Tail(@),
                                    !.stage = IF last THEN "ok" ELSE "fetching"]
  <2>1. job[j].stage = "fetching" /\ job' = [job EXCEPT ![j] = next] /\ manifests' = manifests
    BY <1>6 DEF Fetch
  <2>2. /\ Fetching(j) /\ job[j].ids \in Seq(Nat) /\ job[j].got \in Seq(Jobs \X Nat)
        /\ job[j].of \in Jobs /\ Parts[job[j].of] \in Nat \ {0}
    BY <1>1, <2>1, PartsAssumption DEF Agrees, Call, CallTypes
  <2> DEFINE g == Len(job[j].got)
             m == Len(job[j].ids)
             of == job[j].of
  <2>3. /\ g \in Nat /\ m \in Nat \ {0} /\ g + m = Parts[of]
        /\ Lists(walrus, of, job[j].ids, g)
        /\ \A i \in 1..g : job[j].got[i] = <<of, i>>
    <3>1. g \in Nat /\ m \in Nat \ {0}
      BY <2>2 DEF Fetching
    <3>2. QED
      BY <2>2, <3>1 DEF Fetching
  <2>4. /\ Tail(job[j].ids) \in Seq(Nat) /\ Len(Tail(job[j].ids)) = m - 1
        /\ \A i \in 1..(m - 1) : Tail(job[j].ids)[i] = job[j].ids[i + 1]
        /\ Head(job[j].ids) = job[j].ids[1]
    BY <2>2, <2>3, HeadTailProperties
  <2>5. b.of = of /\ b.chunk = g + 1 /\ piece = <<of, g + 1>>
    BY <2>3, <2>4 DEF Lists
  <2>6. piece \in Jobs \X Nat
    BY <2>2, <2>3, <2>5
  <2> HIDE DEF piece, b
  <2> DEFINE got == Append(job[j].got, piece)
             ids == Tail(job[j].ids)
  <2>7. /\ got \in Seq(Jobs \X Nat) /\ Len(got) = g + 1
        /\ \A i \in 1..(g + 1) : got[i] = <<of, i>>
    <3>1. /\ got \in Seq(Jobs \X Nat) /\ Len(got) = g + 1 /\ got[g + 1] = piece
          /\ \A i \in 1..g : got[i] = job[j].got[i]
      BY <2>2, <2>6, AppendProperties
    <3>2. QED
      BY <2>3, <2>5, <3>1
  <2>8. Lists(walrus, of, ids, g + 1)
    BY <2>3, <2>4 DEF Lists
  <2>9. /\ job'[j].got = got /\ job'[j].ids = ids /\ job'[j].of = of
        /\ job'[j].id = job[j].id /\ job'[j].stage = IF m = 1 THEN "ok" ELSE "fetching"
    BY <1>1, <2>1 DEF Call
  <2> HIDE DEF got, ids, next
  <2>10. CASE m = 1
    <3>1. got = Whole(of)
      <4>1. g + 1 = Parts[of]
        BY <2>3, <2>10
      <4>2. DOMAIN got = 1..Parts[of] /\ got = [i \in DOMAIN got |-> got[i]]
        BY <2>7, <4>1
      <4>3. \A i \in 1..Parts[of] : got[i] = <<of, i>>
        BY <2>7, <4>1
      <4>4. QED
        BY <4>2, <4>3 DEF Whole
    <3>2. Agrees(j)'
      BY <1>1, <1>2, <2>9, <2>10, <3>1 DEF Agrees, Returned, Whole
    <3>3. QED
      BY <1>2, <1>3, <2>1, <3>2 DEF PayloadInv, CallsAgree, TableFollows
  <2>11. CASE m # 1
    <3>1. ids # <<>> /\ Len(got) + Len(ids) = Parts[of]
      <4>1. Len(ids) = m - 1 /\ m - 1 # 0 /\ Len(<<>>) = 0
        BY <2>3, <2>4, <2>11 DEF ids
      <4>2. Len(got) + Len(ids) = Parts[of]
        <5> DEFINE total == Parts[of]
        <5>1. g \in Nat /\ m \in Nat /\ total \in Nat /\ g + m = total
          BY <2>2, <2>3
        <5> HIDE DEF g, m, total
        <5>2. (g + 1) + (m - 1) = total
          BY <5>1
        <5> USE DEF total
        <5>3. QED
          BY <2>7, <4>1, <5>2
      <4>3. QED
        BY <4>1, <4>2
    <3>2. Fetching(j)'
      BY <1>2, <2>7, <2>8, <2>9, <3>1 DEF Fetching
    <3>3. Agrees(j)'
      BY <1>1, <1>2, <2>9, <2>11, <3>2 DEF Agrees, Returned
    <3>4. QED
      BY <1>2, <1>3, <2>1, <3>3 DEF PayloadInv, CallsAgree, TableFollows
  <2>12. QED
    BY <2>10, <2>11
<1>7. CASE Raise(j)
  <2>1. job' = [job EXCEPT ![j] = Failed] /\ manifests' = manifests
    BY <1>7 DEF Raise
  <2>2. Agrees(j)'
    BY <1>1, <2>1, FailedAgrees
  <2>3. QED
    BY <1>2, <1>3, <2>1, <2>2 DEF PayloadInv, CallsAgree, TableFollows
<1>8. QED
  BY <1>4, <1>5, <1>6, <1>7

\* A step that leaves the blobs and the calls alone, and takes no key away.
LEMMA BlobsStay ==
  ASSUME Inv, UNCHANGED <<walrus, manifests, job>>, DOMAIN keys \subseteq DOMAIN keys'
  PROVE  CallTypes' /\ HeadersNamed' /\ PayloadInv'
<1>1. CallTypes' /\ HeadersNamed'
  BY DEF Inv, CallTypes, HeadersNamed
<1>2. ManifestsComplete' /\ TableFollows'
  BY DEF Inv, PayloadInv, ManifestsComplete, TableFollows
<1>3. Extended
  BY DEF Extended
<1>4. CallsAgree'
  BY <1>3, CallStays DEF Inv, PayloadInv, CallsAgree
<1>5. QED
  BY <1>1, <1>2, <1>4 DEF PayloadInv

\* A crash ends calls, and changes nothing else of theirs.
LEMMA CrashKeeps ==
  ASSUME Inv, NEW p \in Processes, Crash(p)
  PROVE  CallTypes' /\ HeadersNamed' /\ PayloadInv'
<1>1. /\ keys' = keys /\ walrus' = walrus /\ manifests' = manifests
      /\ job' \in [Jobs -> Call]
      /\ \A j \in Jobs : job'[j] = job[j] \/ job'[j] = Failed
  BY FailedIsCall DEF Crash, table, Inv, CallTypes
<1>2. CallTypes' /\ HeadersNamed'
  BY <1>1, FailedIsCall DEF Inv, CallTypes, HeadersNamed
<1>3. ManifestsComplete' /\ TableFollows'
  BY <1>1 DEF Inv, PayloadInv, ManifestsComplete, TableFollows
<1>4. Extended
  BY <1>1 DEF Extended
<1>5. CallsAgree'
  <2> SUFFICES ASSUME NEW j \in Jobs PROVE Agrees(j)'
    BY DEF CallsAgree
  <2>1. CASE job'[j] = job[j]
    BY <1>4, <2>1, CallStays DEF Inv, PayloadInv, CallsAgree
  <2>2. CASE job'[j] = Failed
    BY <2>2, FailedAgrees
  <2>3. QED
    BY <1>1, <2>1, <2>2
<1>6. QED
  BY <1>2, <1>3, <1>5 DEF PayloadInv

\* No step takes a row of the table of keys away.
LEMMA KeysStay ==
  ASSUME NEW p \in Processes, KeyTypes,
         \/ Start(p) \/ FindSecret(p) \/ OpenSecret(p) \/ FillSecret(p)
         \/ InsertKey(p) \/ Load(p) \/ BeginRotate(p) \/ Rotate(p)
         \/ EndRotate(p) \/ Shred(p)
  PROVE  DOMAIN keys \subseteq DOMAIN keys' /\ UNCHANGED <<walrus, manifests, job>>
<1>1. CASE InsertKey(p) \/ Rotate(p)
  <2>1. Made(p)
    BY <1>1, KeyMade
  <2>2. DOMAIN keys \subseteq DOMAIN keys'
    BY <2>1 DEF Made, KeyTypes, TableTypes
  <2>3. QED
    BY <1>1, <2>2 DEF InsertKey, Rotate, blobs
<1>2. CASE ~(InsertKey(p) \/ Rotate(p))
  BY <1>2 DEF Start, FindSecret, OpenSecret, FillSecret, Load, BeginRotate, EndRotate,
              Shred, table, blobs
<1>3. QED
  BY <1>1, <1>2

-----------------------------------------------------------------------------
(***************************************************************************)
(* The invariant is inductive                                              *)
(***************************************************************************)
\* Init establishes it.
LEMMA InvInit == Init => Inv
<1> SUFFICES ASSUME Init PROVE Inv
  OBVIOUS
<1>1. KeyTypes /\ CallTypes
  BY TypesInit
<1>2. HeadersNamed /\ ManifestsComplete /\ TableFollows /\ CallsAgree
  BY DEF Init, NoJob, HeadersNamed, ManifestsComplete, TableFollows, CallsAgree, Agrees
<1>3. QED
  BY <1>1, <1>2 DEF Inv, PayloadInv

\* Every step preserves it.
LEMMA InvInductive == Inv /\ [Next]_vars => Inv'
<1> SUFFICES ASSUME Inv, [Next]_vars PROVE Inv'
  OBVIOUS
<1>1. ASSUME NEW p \in Processes,
             \/ Start(p) \/ FindSecret(p) \/ OpenSecret(p) \/ FillSecret(p)
             \/ InsertKey(p) \/ Load(p) \/ BeginRotate(p) \/ Rotate(p)
             \/ EndRotate(p) \/ Shred(p)
      PROVE  Inv'
  <2>1. KeyTypes'
    BY <1>1, StartTypes, KeyMadeTypes, AdapterTypes DEF Inv
  <2>2. QED
    BY <1>1, <2>1, KeysStay, BlobsStay DEF Inv
<1>2. ASSUME NEW p \in Processes, Crash(p) PROVE Inv'
  BY <1>2, AdapterTypes, CrashKeeps DEF Inv
<1>3. ASSUME NEW j \in Jobs, \/ \E p \in Processes : BeginStore(j, p)
                             \/ PutPart(j) \/ PutLast(j)
      PROVE  Inv'
  BY <1>3, StoreTypes, StorePayload DEF Inv
<1>4. ASSUME NEW j \in Jobs,
             \/ \E p \in Processes : \E s \in Stored : BeginRetrieve(j, p, s)
             \/ FetchManifest(j) \/ Fetch(j) \/ Raise(j)
      PROVE  Inv'
  BY <1>4, RetrieveTypes, RetrievePayload DEF Inv
<1>5. CASE UNCHANGED vars
  <2>1. KeyTypes'
    BY <1>5 DEF Inv, KeyTypes, TableTypes, ProcessTypes, Placed, Active, vars, table, process
  <2>2. QED
    BY <1>5, <2>1, BlobsStay DEF Inv, vars, table, blobs
<1>6. QED
  BY <1>1, <1>2, <1>3, <1>4, <1>5 DEF Next

\* So it holds always.
LEMMA InvHolds == Spec => []Inv
  BY InvInit, InvInductive, PTL DEF Spec

\* Once there is a key there is an active one, whatever the processes do, so
\* that active_key() never raises for want of one (key_store.py:276).
THEOREM TypeCorrect == Spec => []TypeOK
<1>1. Inv => TypeOK
  BY DEF Inv, KeyTypes, TableTypes, ProcessTypes, CallTypes, TypeOK
<1>2. QED
  BY <1>1, InvHolds, PTL

\* retrieve_blob returns what was stored, in order and complete, or fails.
THEOREM PayloadsWhole == Spec => []WholePayload
<1>1. Inv => WholePayload
  <2> SUFFICES ASSUME Inv, NEW j \in Jobs, job[j].stage \in {"fetching", "ok"}, job[j].of # j
               PROVE  /\ IsPrefix(job[j].got, Whole(job[j].of))
                      /\ job[j].stage = "ok" => job[j].got = Whole(job[j].of)
    BY DEF WholePayload
  <2> DEFINE of == job[j].of
             got == job[j].got
  <2>1. /\ of \in Jobs /\ Parts[of] \in Nat \ {0} /\ got \in Seq(Jobs \X Nat)
        /\ job[j].ids \in Seq(Nat)
    BY PartsAssumption DEF Inv, CallTypes, Call
  <2>2. /\ job[j].stage = "ok" => got = Whole(of)
        /\ job[j].stage = "fetching" => Fetching(j)
    BY DEF Inv, PayloadInv, CallsAgree, Agrees
  <2>3. Len(Whole(of)) = Parts[of] /\ \A i \in 1..Parts[of] : Whole(of)[i] = <<of, i>>
    BY <2>1 DEF Whole
  <2>4. Len(got) <= Parts[of] /\ \A i \in 1..Len(got) : got[i] = <<of, i>>
    <3>1. CASE job[j].stage = "ok"
      BY <2>1, <2>2, <2>3, <3>1
    <3>2. CASE job[j].stage = "fetching"
      <4> DEFINE g == Len(got)
                 m == Len(job[j].ids)
                 total == Parts[of]
      <4>1. g \in Nat /\ m \in Nat /\ total \in Nat
        BY <2>1
      <4>2. g + m = total /\ \A i \in 1..g : got[i] = <<of, i>>
        BY <2>2, <3>2 DEF Fetching
      <4> HIDE DEF g, m, total
      <4>3. g <= total
        BY <4>1, <4>2
      <4>4. QED
        BY <4>2, <4>3 DEF g, total
    <3>3. QED
      BY <3>1, <3>2
  <2>5. IsPrefix(got, Whole(of))
    <3> DEFINE start == SubSeq(Whole(of), 1, Len(got))
    <3> DEFINE same == SubSeq(got, 1, Len(got))
    <3>1. \A i \in 1..Len(got) : Whole(of)[i] \in Jobs \X Nat /\ got[i] \in Jobs \X Nat
      <4>1. \A i \in 1..Len(got) : i \in Nat /\ i \in 1..Parts[of]
        BY <2>1, <2>4
      <4>2. \A i \in Nat : <<of, i>> \in Jobs \X Nat
        BY <2>1
      <4>3. \A i \in 1..Len(got) : Whole(of)[i] = <<of, i>> /\ got[i] = <<of, i>>
        BY <2>3, <2>4, <4>1
      <4> HIDE DEF of, got
      <4>4. QED
        BY <4>1, <4>2, <4>3
    <3>2. Len(start) = Len(got) /\ \A i \in 1..Len(got) : start[i] = Whole(of)[i]
      BY <2>1, <2>3, <2>4, <3>1
    <3>3. Len(same) = Len(got) /\ \A i \in 1..Len(got) : same[i] = got[i]
      BY <2>1
    <3>4. start \in Seq(Jobs \X Nat) /\ same \in Seq(Jobs \X Nat)
      <4>1. 1 \in Int /\ Len(got) \in Int
        BY <2>1
      <4>2. QED
        BY <3>1, <4>1, SubSeqProperties
    <3>5. \A i \in 1..Len(got) : start[i] = same[i]
      BY <2>3, <2>4, <3>2, <3>3
    <3> HIDE DEF start, same
    <3>6. start = same
      BY <3>2, <3>3, <3>4, <3>5, SeqEqual
    <3>7. QED
      BY <2>3, <2>4, <3>6 DEF IsPrefix, start, same
  <2>6. QED
    BY <2>2, <2>5
<1>2. QED
  BY <1>1, InvHolds, PTL

-----------------------------------------------------------------------------
(***************************************************************************)
(* The keys, while no two processes have made one at the same time         *)
(***************************************************************************)
First == {"looking", "opening", "filling", "inserting"}

\* One process at most is making a key, and if it is the first key there is no
\* other; it wraps the key with what the secret file will open, and retires the
\* one that is active.
OneMaker ==
  /\ \A p, q \in Processes : pc[p] \in MakingKeys /\ pc[q] \in MakingKeys => p = q
  /\ \A p \in Processes :
       /\ pc[p] \in First => keys = <<>>
       /\ pc[p] \in {"inserting", "rotating"} => password[p] = Password
       /\ pc[p] \in {"rotating", "rotated"} => current[p] \in Active

OneActive ==
  /\ \A i, k \in Active : i = k
  /\ \A i \in DOMAIN keys : keys[i].kek = Password

\* A header names the key that the blob is encrypted with.
HeadersTrue ==
  /\ \A p \in Processes : dek[p] # 0 => kid[p] = dek[p]
  /\ \A i \in DOMAIN walrus : walrus[i].kid = walrus[i].dek
  /\ \A j \in Jobs : job[j].stage = "storing" => job[j].hand[1].kid = job[j].hand[1].dek

KeyInv == ~contested => OneMaker /\ OneActive /\ HeadersTrue

\* contested never becomes FALSE again.
LEMMA ContestedStays ==
  ASSUME Inv, [Next]_vars, ~contested'
  PROVE  ~contested
  BY DEF Next, Start, FindSecret, OpenSecret, FillSecret, InsertKey, Load, BeginRotate,
         Rotate, EndRotate, Shred, Crash, BeginStore, BeginRetrieve, PutPart, PutLast,
         FetchManifest, Fetch, Raise, Decrypts, Contend, vars

\* A step of p that changes no key and no secret, and makes p no maker.
LEMMA MakerStays ==
  ASSUME Inv, OneMaker, OneActive, NEW p \in Processes,
         keys' = keys, secret' = secret,
         \A q \in Processes \ {p} : /\ pc'[q] = pc[q] /\ password'[q] = password[q]
                                    /\ current'[q] = current[q],
         \/ pc'[p] \notin MakingKeys
         \/ pc'[p] = pc[p] /\ password'[p] = password[p] /\ current'[p] = current[p]
  PROVE  OneMaker' /\ OneActive'
<1>1. Active' = Active /\ Password' = Password
  BY DEF Active, Password
<1>2. OneActive'
  BY <1>1 DEF OneActive
<1>3. First \subseteq MakingKeys /\ {"inserting", "rotating", "rotated"} \subseteq MakingKeys
  BY DEF First, MakingKeys
<1>4. OneMaker'
  BY <1>1, <1>3 DEF OneMaker
<1>5. QED
  BY <1>2, <1>4

\* Making the first key, as far as the secret.
LEMMA StartKeys ==
  ASSUME Inv, OneMaker, OneActive, NEW p \in Processes, ~contested',
         Start(p) \/ FindSecret(p) \/ OpenSecret(p) \/ FillSecret(p)
  PROVE  OneMaker' /\ OneActive'
<1> USE DEF Goto
<1>1. /\ keys' = keys /\ Active' = Active
      /\ pc \in [Processes -> MakingKeys \cup {"down", "loading", "ready"}]
  BY DEF Start, FindSecret, OpenSecret, FillSecret, Active, table, Inv, KeyTypes, ProcessTypes
<1>2. CASE Start(p)
  <2>1. CASE Active # {}
    <3>1. pc' = [pc EXCEPT ![p] = "loading"] /\ UNCHANGED <<keys, secret, password, current>>
      BY <1>2, <2>1 DEF Start, table
    <3>2. pc'[p] \notin MakingKeys /\ \A q \in Processes \ {p} : pc'[q] = pc[q]
      BY <1>1, <3>1 DEF MakingKeys
    <3>3. QED
      BY <3>1, <3>2, MakerStays
  <2>2. CASE Active = {}
    <3>1. /\ pc' = [pc EXCEPT ![p] = "looking"] /\ UNCHANGED <<keys, secret, password, current>>
          /\ \A q \in Processes \ {p} : pc[q] \notin MakingKeys
      BY <1>2, <2>2 DEF Start, table, Contend
    <3>2. keys = <<>>
      BY <2>2 DEF Inv, KeyTypes, TableTypes
    <3>3. OneMaker'
      BY <1>1, <3>1, <3>2 DEF OneMaker, First, MakingKeys
    <3>4. OneActive'
      BY <1>1, <3>1 DEF OneActive, Password
    <3>5. QED
      BY <3>3, <3>4
  <2>3. QED
    BY <2>1, <2>2
<1>3. CASE FindSecret(p) \/ OpenSecret(p) \/ FillSecret(p)
  <2>1. pc[p] \in First /\ keys = <<>> /\ \A q \in Processes \ {p} : pc[q] \notin MakingKeys
    BY <1>1, <1>3 DEF FindSecret, OpenSecret, FillSecret, First, MakingKeys, OneMaker
  <2>2. Active = {} /\ DOMAIN keys = {}
    BY <2>1 DEF Active
  <2>3. OneActive'
    BY <1>1, <2>2 DEF OneActive
  <2>4. /\ \A q \in Processes \ {p} : pc'[q] \notin MakingKeys
        /\ pc'[p] \in First /\ pc'[p] \notin {"rotating", "rotated"}
    BY <1>1, <1>3, <2>1 DEF FindSecret, OpenSecret, FillSecret, First
  <2>5. pc'[p] = "inserting" => password'[p] = Password'
    <3>1. CASE FindSecret(p)
      BY <1>1, <3>1 DEF FindSecret, Password, Inv, KeyTypes, ProcessTypes, table
    <3>2. CASE OpenSecret(p)
      BY <1>1, <3>2 DEF OpenSecret
    <3>3. CASE FillSecret(p)
      <4>1. p # "empty"
        BY ProcessesAssumption
      <4>2. QED
        BY <1>1, <3>3, <4>1 DEF FillSecret, Password, Inv, KeyTypes, ProcessTypes
    <3>4. QED
      BY <1>3, <3>1, <3>2, <3>3
  <2>6. First \subseteq MakingKeys /\ {"inserting", "rotating", "rotated"} \subseteq MakingKeys
    BY DEF First, MakingKeys
  <2>7. OneMaker'
    BY <1>1, <2>1, <2>4, <2>5, <2>6 DEF OneMaker
  <2>8. QED
    BY <2>3, <2>7
<1>4. QED
  BY <1>2, <1>3

\* Committing a key: the first, or the one that takes the place of another.
LEMMA MadeKeys ==
  ASSUME Inv, OneMaker, OneActive, NEW p \in Processes, InsertKey(p) \/ Rotate(p)
  PROVE  OneMaker' /\ OneActive'
<1> DEFINE k == Len(keys) + 1
<1>1. Made(p)
  BY KeyMade DEF Inv
<1>2. /\ secret' = secret /\ Password' = Password /\ password[p] = Password
      /\ pc \in [Processes -> MakingKeys \cup {"down", "loading", "ready"}]
      /\ current \in [Processes -> 0..Len(keys)]
  BY DEF InsertKey, Rotate, Password, OneMaker, Inv, KeyTypes, ProcessTypes
<1>3. pc[p] \in MakingKeys /\ \A q \in Processes \ {p} : pc[q] \notin MakingKeys
  BY DEF InsertKey, Rotate, MakingKeys, OneMaker
<1>4. Active' = {k}
  <2>1. k \in Active' /\ DOMAIN keys' = 1..k /\ DOMAIN keys = 1..(k - 1) /\ k \in Nat \ {0}
    BY <1>1 DEF Made, Inv, KeyTypes, TableTypes
  <2>2. \A i \in DOMAIN keys : ~keys'[i].active
    <3>1. CASE InsertKey(p)
      <4>1. keys = <<>>
        BY <3>1 DEF InsertKey, OneMaker, First
      <4>2. QED
        BY <4>1
    <3>2. CASE Rotate(p)
      <4> DEFINE c == current[p]
                 retired == [keys EXCEPT ![c].active = FALSE]
      <4>1. c \in Active /\ c \in DOMAIN keys /\ \A i \in DOMAIN keys : keys[i].active => i = c
        BY <3>2 DEF Rotate, OneMaker, OneActive, Active
      <4>2. /\ retired \in Seq(Key) /\ DOMAIN retired = DOMAIN keys
            /\ \A i \in DOMAIN keys : retired[i].active <=> keys[i].active /\ i # c
        BY <4>1, Retired DEF Inv, KeyTypes
      <4>3. keys' = Append(retired, NewKey(p))
        BY <3>2 DEF Rotate
      <4> HIDE DEF retired, c
      <4>4. \A i \in DOMAIN keys : keys'[i] = retired[i]
        BY <4>2, <4>3
      <4>5. QED
        BY <4>1, <4>2, <4>4
    <3>3. QED
      BY <3>1, <3>2
  <2> HIDE DEF k
  <2>3. \A i \in Active' : i = k
    BY <2>1, <2>2 DEF Active
  <2>4. QED
    BY <2>1, <2>3
<1>5. OneActive'
  <2>1. \A i \in DOMAIN keys' : keys'[i].kek = Password
    <3>1. keys'[k].kek = Password /\ DOMAIN keys' = DOMAIN keys \cup {k}
      BY <1>1, <1>2 DEF Made, Inv, KeyTypes, TableTypes
    <3>2. \A i \in DOMAIN keys : keys'[i].kek = Password
      BY <1>1 DEF Made, OneActive
    <3>3. QED
      BY <3>1, <3>2
  <2>2. QED
    BY <1>2, <1>4, <2>1 DEF OneActive
<1>6. OneMaker'
  <2>1. /\ \A q \in Processes \ {p} : pc'[q] \notin MakingKeys
        /\ \/ pc'[p] = "loading"
           \/ pc'[p] = "rotated" /\ current'[p] = k
    BY <1>2, <1>3, <1>1 DEF InsertKey, Rotate, Goto, Made
  <2>2. First \subseteq MakingKeys /\ {"inserting", "rotating", "rotated"} \subseteq MakingKeys
        /\ "rotated" \notin First /\ "loading" \notin MakingKeys
    BY DEF First, MakingKeys
  <2>3. QED
    BY <1>4, <2>1, <2>2 DEF OneMaker
<1>7. QED
  BY <1>5, <1>6

\* The steps of the adapter that make no key.
LEMMA AdapterKeys ==
  ASSUME Inv, OneMaker, OneActive, NEW p \in Processes, ~contested',
         Load(p) \/ BeginRotate(p) \/ EndRotate(p) \/ Shred(p) \/ Crash(p)
  PROVE  OneMaker' /\ OneActive'
<1>1. /\ keys' = keys /\ secret' = secret
      /\ pc \in [Processes -> MakingKeys \cup {"down", "loading", "ready"}]
      /\ password \in [Processes -> {"none", "weak"} \cup Processes]
      /\ current \in [Processes -> 0..Len(keys)]
  BY DEF Load, BeginRotate, EndRotate, Shred, Crash, table, Inv, KeyTypes, ProcessTypes
<1>2. \A q \in Processes \ {p} : /\ pc'[q] = pc[q] /\ password'[q] = password[q]
                                 /\ current'[q] = current[q]
  BY <1>1 DEF Load, BeginRotate, EndRotate, Shred, Crash, Goto
<1>3. CASE BeginRotate(p)
  <2>1. /\ \A q \in Processes \ {p} : pc[q] \notin MakingKeys
        /\ pc'[p] = "rotating" /\ password'[p] = Password /\ current'[p] = FirstActive
        /\ pc[p] = "ready"
    BY <1>1, <1>3 DEF BeginRotate, Contend, Goto
  <2>2. FirstActive \in Active
    BY <2>1, FirstActiveKey DEF Inv, KeyTypes, Placed, Ready
  <2>3. Active' = Active /\ Password' = Password
    BY <1>1 DEF Active, Password
  <2>4. OneActive'
    BY <1>1, <2>3 DEF OneActive
  <2>5. First \subseteq MakingKeys /\ {"inserting", "rotating", "rotated"} \subseteq MakingKeys
        /\ "rotating" \notin First
    BY DEF First, MakingKeys
  <2>6. OneMaker'
    BY <1>2, <2>1, <2>2, <2>3, <2>5 DEF OneMaker
  <2>7. QED
    BY <2>4, <2>6
<1>4. CASE Load(p) \/ EndRotate(p) \/ Shred(p) \/ Crash(p)
  <2>1. pc'[p] \notin MakingKeys
    BY <1>1, <1>4 DEF Load, EndRotate, Shred, Crash, Goto, MakingKeys
  <2>2. QED
    BY <1>1, <1>2, <2>1, MakerStays
<1>5. QED
  BY <1>3, <1>4

\* The calls, and the steps that make or lose an adapter, leave the keys alone.
LEMMA CallsKeepKeys ==
  ASSUME Inv, OneMaker, OneActive,
         UNCHANGED <<keys, secret, pc, password, current>>
  PROVE  OneMaker' /\ OneActive'
<1>1. Active' = Active /\ Password' = Password
  BY DEF Active, Password
<1>2. QED
  BY <1>1 DEF OneMaker, OneActive

\* What _load_sqlite and rotate_key give the adapter is one key and its id.
LEMMA AdapterHeaders ==
  ASSUME Inv, OneMaker, OneActive, HeadersTrue, NEW p \in Processes,
         \/ Start(p) \/ FindSecret(p) \/ OpenSecret(p) \/ FillSecret(p)
         \/ InsertKey(p) \/ Load(p) \/ BeginRotate(p) \/ Rotate(p)
         \/ EndRotate(p) \/ Shred(p) \/ Crash(p)
  PROVE  HeadersTrue'
<1>1. walrus' = walrus
  BY DEF Start, FindSecret, OpenSecret, FillSecret, InsertKey, Load, BeginRotate, Rotate,
         EndRotate, Shred, Crash, blobs
<1>2. \A j \in Jobs : job'[j] = job[j] \/ job'[j] = Failed
  BY DEF Start, FindSecret, OpenSecret, FillSecret, InsertKey, Load, BeginRotate, Rotate,
         EndRotate, Shred, Crash, blobs
<1>3. /\ kid \in [Processes -> 0..Len(keys)] /\ dek \in [Processes -> 0..Len(keys)]
  BY DEF Inv, KeyTypes, ProcessTypes
<1>4. \A q \in Processes : dek'[q] # 0 => kid'[q] = dek'[q]
  <2>1. CASE Load(p)
    <3>1. keys # <<>>
      BY <2>1 DEF Load, Inv, KeyTypes, Placed
    <3>2. FirstActive # 0 /\ Unwrapped(p, FirstActive) \in {0, FirstActive}
      BY <3>1, FirstActiveKey DEF Inv, Unwrapped
    <3>3. QED
      BY <1>3, <2>1, <3>2 DEF Load, HeadersTrue
  <2>2. CASE EndRotate(p)
    <3>1. keys # <<>> /\ current[p] \in Active
      BY <2>2 DEF EndRotate, Inv, KeyTypes, Placed, Ready, OneMaker
    <3>2. FirstActive = current[p] /\ Unwrapped(p, FirstActive) \in {0, FirstActive}
      BY <3>1, FirstActiveKey DEF Inv, Unwrapped, OneActive
    <3>3. QED
      BY <1>3, <2>2, <3>2 DEF EndRotate, HeadersTrue
  <2>3. CASE Shred(p) \/ Crash(p)
    BY <1>3, <2>3 DEF Shred, Crash, HeadersTrue
  <2>4. CASE ~(Load(p) \/ EndRotate(p) \/ Shred(p) \/ Crash(p))
    BY <2>4 DEF Start, FindSecret, OpenSecret, FillSecret, InsertKey, BeginRotate, Rotate,
                HeadersTrue
  <2>5. QED
    BY <2>1, <2>2, <2>3, <2>4
<1>5. QED
  BY <1>1, <1>2, <1>4, FailedIsCall DEF HeadersTrue

\* A blob is encrypted with the adapter's key, and its header says which.
LEMMA CallHeaders ==
  ASSUME Inv, HeadersTrue, NEW j \in Jobs,
         \/ \E p \in Processes : \/ BeginStore(j, p)
                                 \/ \E s \in Stored : BeginRetrieve(j, p, s)
         \/ PutPart(j) \/ PutLast(j) \/ FetchManifest(j) \/ Fetch(j) \/ Raise(j)
  PROVE  HeadersTrue'
<1>1. job \in [Jobs -> Call] /\ UNCHANGED <<kid, dek>>
  BY DEF Inv, CallTypes, BeginStore, BeginRetrieve, PutPart, PutLast, FetchManifest, Fetch,
         Raise, Decrypts, process
<1>2. CASE \E p \in Processes : BeginStore(j, p)
  <2>1. PICK p \in Processes : BeginStore(j, p)
    BY <1>2
  <2> DEFINE state == [NoJob EXCEPT !.at = p, !.of = j]
  <2>2. state \in Call /\ state.at = p
    BY NoJobIsCall DEF Call
  <2>3. pc[p] = "ready" /\ UploadNext(j, state, 1) /\ walrus' = walrus
    BY <2>1 DEF BeginStore
  <2> HIDE DEF state
  <2>4. PICK next \in Call : /\ job' = [job EXCEPT ![j] = next]
                             /\ next = Failed \/ Uploads(j, state, 1, next)
    BY <2>2, <2>3, UploadNextCall DEF Inv
  <2>5. QED
    BY <1>1, <2>2, <2>3, <2>4, FailedIsCall DEF HeadersTrue, Uploads
<1>3. CASE PutPart(j) \/ PutLast(j)
  <2> DEFINE n == Len(walrus) + 1
  <2>1. Uploading(j) /\ walrus' = walrus \o job[j].hand /\ job[j].stage = "storing"
    BY <1>3 DEF PutPart, PutLast, Uploading
  <2>2. /\ n \in Nat \ {0} /\ DOMAIN walrus = 1..(n - 1) /\ DOMAIN walrus' = 1..n
        /\ walrus'[n] = job[j].hand[1] /\ \A i \in DOMAIN walrus : walrus'[i] = walrus[i]
    BY <2>1, Put DEF Inv
  <2> HIDE DEF n
  <2>3. \A i \in DOMAIN walrus' : walrus'[i].kid = walrus'[i].dek
    <3>1. \A i \in DOMAIN walrus' : i \in DOMAIN walrus \/ i = n
      BY <2>2
    <3>2. walrus'[n].kid = walrus'[n].dek
      BY <2>1, <2>2 DEF HeadersTrue
    <3>3. \A i \in DOMAIN walrus : walrus'[i].kid = walrus'[i].dek
      BY <2>2 DEF HeadersTrue
    <3>4. QED
      BY <3>1, <3>2, <3>3
  <2>4. job'[j].stage = "storing" => job'[j].hand[1].kid = job'[j].hand[1].dek
    <3>1. CASE PutPart(j)
      <4> DEFINE state == [job[j] EXCEPT !.ids = Append(@, Len(walrus) + 1)]
                 chunk == IF Len(state.ids) < Parts[j] THEN Len(state.ids) + 1 ELSE 0
      <4>1. UploadNext(j, state, chunk)
        BY <3>1 DEF PutPart
      <4>2. n \in Nat
        BY <2>2
      <4>3. /\ state \in Call /\ state.at \in Processes /\ pc[state.at] = "ready"
        BY <2>1, <4>2, PartAdded DEF n, Uploading, Inv, CallTypes
      <4>4. chunk \in Nat
        BY <4>3 DEF Call
      <4> HIDE DEF state, chunk
      <4>5. PICK next \in Call : /\ job' = [job EXCEPT ![j] = next]
                                 /\ next = Failed \/ Uploads(j, state, chunk, next)
        BY <4>1, <4>3, <4>4, UploadNextCall DEF Inv
      <4>6. QED
        BY <1>1, <4>3, <4>5, FailedIsCall DEF HeadersTrue, Uploads
    <3>2. CASE PutLast(j)
      BY <1>1, <3>2 DEF PutLast, Call
    <3>3. QED
      BY <1>3, <3>1, <3>2
  <2>5. \A i \in Jobs \ {j} : job'[i] = job[i]
    BY <1>1, <1>3 DEF PutPart, PutLast, UploadNext
  <2>6. QED
    BY <1>1, <2>3, <2>4, <2>5 DEF HeadersTrue
<1>4. CASE \/ \E p \in Processes : \E s \in Stored : BeginRetrieve(j, p, s)
           \/ FetchManifest(j) \/ Fetch(j) \/ Raise(j)
  <2>1. walrus' = walrus /\ \A i \in Jobs \ {j} : job'[i] = job[i]
    BY <1>1, <1>4 DEF BeginRetrieve, FetchManifest, Fetch, Raise, Decrypts
  <2>2. job'[j].stage # "storing"
    <3>1. CASE \E p \in Processes : \E s \in Stored : BeginRetrieve(j, p, s)
      BY <1>1, <3>1 DEF BeginRetrieve, HasManifest, NoJob
    <3>2. CASE FetchManifest(j)
      <4> DEFINE next == [job[j] EXCEPT !.stage = "fetching", !.ids = walrus[job[j].ids[1]].list]
      <4>1. job' = [job EXCEPT ![j] = next]
        BY <3>2 DEF FetchManifest
      <4>2. next.stage = "fetching"
        BY <1>1 DEF Call
      <4> HIDE DEF next
      <4>3. QED
        BY <1>1, <4>1, <4>2
    <3>3. CASE Fetch(j)
      <4> DEFINE b == walrus[Head(job[j].ids)]
                 last == Len(job[j].ids) = 1
                 next == [job[j] EXCEPT !.got = Append(@, <<b.of, b.chunk>>), !.ids = Tail(@),
                                        !.stage = IF last THEN "ok" ELSE "fetching"]
      <4>1. job' = [job EXCEPT ![j] = next]
        BY <3>3 DEF Fetch
      <4>2. next.stage # "storing"
        BY <1>1 DEF Call
      <4> HIDE DEF next
      <4>3. QED
        BY <1>1, <4>1, <4>2
    <3>4. CASE Raise(j)
      BY <1>1, <3>4, FailedIsCall DEF Raise
    <3>5. QED
      BY <1>4, <3>1, <3>2, <3>3, <3>4
  <2>3. QED
    BY <1>1, <2>1, <2>2 DEF HeadersTrue
<1>5. QED
  BY <1>2, <1>3, <1>4

\* Relative to Inv, it is inductive: the first process that makes a key while
\* another does is where it ends.
LEMMA KeyInvInductive == Inv /\ KeyInv /\ [Next]_vars => KeyInv'
<1> SUFFICES ASSUME Inv, KeyInv, [Next]_vars, ~contested'
             PROVE  OneMaker' /\ OneActive' /\ HeadersTrue'
  BY DEF KeyInv
<1>1. OneMaker /\ OneActive /\ HeadersTrue
  BY ContestedStays DEF KeyInv
<1>2. ASSUME NEW p \in Processes,
             \/ Start(p) \/ FindSecret(p) \/ OpenSecret(p) \/ FillSecret(p)
             \/ InsertKey(p) \/ Load(p) \/ BeginRotate(p) \/ Rotate(p)
             \/ EndRotate(p) \/ Shred(p) \/ Crash(p)
      PROVE  OneMaker' /\ OneActive' /\ HeadersTrue'
  BY <1>1, <1>2, StartKeys, MadeKeys, AdapterKeys, AdapterHeaders
<1>3. ASSUME NEW j \in Jobs,
             \/ \E p \in Processes : \/ BeginStore(j, p)
                                     \/ \E s \in Stored : BeginRetrieve(j, p, s)
             \/ PutPart(j) \/ PutLast(j) \/ FetchManifest(j) \/ Fetch(j) \/ Raise(j)
      PROVE  OneMaker' /\ OneActive' /\ HeadersTrue'
  <2>1. UNCHANGED <<keys, secret, pc, password, current>>
    BY <1>3 DEF BeginStore, BeginRetrieve, PutPart, PutLast, FetchManifest, Fetch,
                Raise, Decrypts, table, process
  <2>2. QED
    BY <1>1, <1>3, <2>1, CallsKeepKeys, CallHeaders
<1>4. CASE UNCHANGED vars
  <2>1. UNCHANGED <<keys, secret, pc, password, current, kid, dek, walrus, job>>
    BY <1>4 DEF vars, table, process, blobs
  <2>2. HeadersTrue'
    BY <1>1, <2>1 DEF HeadersTrue
  <2>3. QED
    BY <1>1, <2>1, <2>2, CallsKeepKeys
<1>5. QED
  BY <1>2, <1>3, <1>4 DEF Next

\* Both hold always.
LEMMA KeyInvHolds == Spec => [](Inv /\ KeyInv)
<1>1. Init => Inv /\ KeyInv
  <2> SUFFICES ASSUME Init PROVE KeyInv
    BY InvInit
  <2>1. OneMaker
    BY DEF Init, OneMaker, MakingKeys, First
  <2>2. OneActive /\ HeadersTrue
    BY DEF Init, OneActive, HeadersTrue, Active, NoJob
  <2>3. QED
    BY <2>1, <2>2 DEF KeyInv
<1>2. Inv /\ KeyInv /\ [Next]_vars => (Inv /\ KeyInv)'
  BY InvInductive, KeyInvInductive
<1>3. QED
  BY <1>1, <1>2, PTL DEF Spec

\* A process started now can unwrap every key there ever was, and knows which
\* one to encrypt with, unless two processes were making keys at the same time.
THEOREM KeysAlwaysOpen == Spec => []KeysOpen
<1>1. KeyInv => KeysOpen
  BY DEF KeyInv, OneActive, KeysOpen
<1>2. QED
  BY <1>1, KeyInvHolds, PTL

\* Every blob can be decrypted by every process, under the same condition.
THEOREM BlobsAlwaysResolvable == Spec => []Resolvable
<1>1. Inv /\ KeyInv => Resolvable
  <2> SUFFICES ASSUME Inv, KeyInv, ~contested, NEW i \in DOMAIN walrus
               PROVE  /\ walrus[i].kid = walrus[i].dek
                      /\ \A p \in Processes : pc[p] = "ready" => Readable(p, walrus[i])
    BY DEF Resolvable
  <2>1. OneActive /\ HeadersTrue /\ walrus[i].kid = walrus[i].dek
        /\ walrus[i].kid \in DOMAIN keys
    BY DEF KeyInv, HeadersTrue, Inv, HeadersNamed
  <2>2. \A p \in Processes : Unwrapped(p, walrus[i].kid) = walrus[i].kid
    BY <2>1 DEF OneActive, Unwrapped
  <2>3. QED
    BY <2>1, <2>2 DEF HeadersTrue, Readable, Resolved
<1>2. QED
  BY <1>1, KeyInvHolds, PTL
=============================================================================
