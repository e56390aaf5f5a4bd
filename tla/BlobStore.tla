------------------------------ MODULE BlobStore ------------------------------
(***************************************************************************)
(* Blobs and the keys they are encrypted with: WalrusAdapter over a        *)
(* KeyStore (src/walrusos/adapters/walrus.py, key_store.py) in several     *)
(* processes that share the SQLite file and the secret file next to it.    *)
(*                                                                         *)
(* A payload of more than 4 MiB is uploaded in chunks, then a manifest     *)
(* that lists them; each is encrypted when its upload begins, under the    *)
(* adapter's active key, and carries that key's id in its header.          *)
(*                                                                         *)
(* Only an upload or a download suspends, so within a process a rotation   *)
(* or the start of the key store is never interrupted; another process     *)
(* can come between any two of its accesses to the shared files, and there *)
(* are 600,000 rounds of PBKDF2 to do between reading the active key and   *)
(* committing a new one.                                                   *)
(***************************************************************************)
EXTENDS Integers, Sequences, SequencesExt

CONSTANTS
  Processes,
  Unledgered,  \* those whose _load_sqlite_ledger failed: no table of manifests
  Jobs,        \* calls of store_blob and retrieve_blob
  Parts,       \* the chunks of the payload, if the call is store_blob
  MaxKeys,     \* bound on the keys
  MaxStarts    \* bound on the adapters made

ASSUME ProcessesAssumption ==
  Unledgered \subseteq Processes /\ {"none", "empty"} \cap Processes = {}
ASSUME PartsAssumption == Parts \in [Jobs -> Nat \ {0}]
ASSUME BoundsAssumption == MaxKeys \in Nat /\ MaxStarts \in Nat

VARIABLES
  keys,       \* table key_store, in the order of insertion; key_id and DEK of
              \* a row are both represented by its place
  secret,     \* .machine_secret: "none", "empty", or who wrote it
  pc,         \* where each process is
  password,   \* what it wraps its new key with
  current,    \* the key rotate() is to retire, then the one it made
  kid,        \* _active_kid of its adapter
  dek,        \* _aes_key of its adapter; 0 once shredded
  cache,      \* KeyStore._cache
  starts,     \* adapters made so far
  walrus,     \* the blobs on Walrus, a blob id being a place in it
  manifests,  \* table blob_manifests
  job,        \* each call: how far it is, and its local variables
  contested   \* history: two processes were making keys at the same time

table == <<keys, secret>>
process == <<pc, password, current, kid, dek, cache, starts>>
blobs == <<walrus, manifests, job>>
vars == <<table, process, blobs, contested>>

Key == [kek : Processes \cup {"weak"}, active : BOOLEAN]

\* kid: the header; dek: what it is encrypted with, in fact.  The manifest of
\* a payload is its chunk 0.
Blob == [kid : Nat, dek : Nat, of : Jobs, chunk : Nat, list : Seq(Nat)]

\* at: the process; of: the call that stored the payload; hand: the blob being
\* uploaded; ids: the chunks uploaded, or to be downloaded; got: those
\* downloaded; id: what store_blob returned.
Call ==
  [stage : {"idle", "storing", "listing", "fetching", "ok", "failed"},
   at : Processes \cup {"nowhere"}, of : Jobs \cup {"nothing"},
   hand : Seq(Blob), ids : Seq(Nat), got : Seq(Jobs \X Nat), id : Nat]

NoJob == [stage |-> "idle", at |-> "nowhere", of |-> "nothing", hand |-> <<>>,
          ids |-> <<>>, got |-> <<>>, id |-> 0]

Init ==
  /\ keys = <<>>
  /\ secret = "none"
  /\ pc = [p \in Processes |-> "down"]
  /\ password = [p \in Processes |-> "none"]
  /\ current = [p \in Processes |-> 0]
  /\ kid = [p \in Processes |-> 0]
  /\ dek = [p \in Processes |-> 0]
  /\ cache = [p \in Processes |-> {}]
  /\ starts = 0
  /\ walrus = <<>>
  /\ manifests = [i \in {} |-> <<>>]
  /\ job = [j \in Jobs |-> NoJob]
  /\ contested = FALSE

-----------------------------------------------------------------------------
Active == {i \in DOMAIN keys : keys[i].active}

\* select ... where is_active == 1, first(): the row inserted first.
FirstActive == CHOOSE i \in Active : \A k \in Active : i <= k

\* _get_password, once there is a file: one that is too short raises
\* ValueError, and the hostname takes its place.
Password == IF secret = "empty" THEN "weak" ELSE secret

\* What process p gets for key k, 0 being InvalidTag.
Unwrapped(p, k) == IF k \in cache[p] \/ keys[k].kek = Password THEN k ELSE 0

MakingKeys == {"looking", "opening", "filling", "inserting", "rotating", "rotated"}

Contend(p) ==
  contested' = (contested \/ \E q \in Processes \ {p} : pc[q] \in MakingKeys)

Goto(p, s) == pc' = [pc EXCEPT ![p] = s]

-----------------------------------------------------------------------------
(***************************************************************************)
(* WalrusAdapter(): KeyStore() makes sure there is an active key, then     *)
(* active_key() loads it.                                                  *)
(***************************************************************************)
Start(p) ==
  /\ pc[p] = "down" /\ starts < MaxStarts
  /\ starts' = starts + 1
  /\ IF Active = {} THEN Goto(p, "looking") /\ Contend(p)
                    ELSE Goto(p, "loading") /\ UNCHANGED contested
  /\ UNCHANGED <<table, password, current, kid, dek, cache, blobs>>

\* _get_password in _create_key_record: the file may not be there.
FindSecret(p) ==
  /\ pc[p] = "looking"
  /\ IF secret = "none" THEN Goto(p, "opening") /\ UNCHANGED password
     ELSE Goto(p, "inserting") /\ password' = [password EXCEPT ![p] = Password]
  /\ UNCHANGED <<table, current, kid, dek, cache, starts, blobs, contested>>

\* open(secret_path, "wb") truncates; the bytes arrive when it is closed.
OpenSecret(p) ==
  /\ pc[p] = "opening"
  /\ secret' = "empty"
  /\ Goto(p, "filling")
  /\ UNCHANGED <<keys, password, current, kid, dek, cache, starts, blobs, contested>>

FillSecret(p) ==
  /\ pc[p] = "filling"
  /\ secret' = p
  /\ password' = [password EXCEPT ![p] = p]
  /\ Goto(p, "inserting")
  /\ UNCHANGED <<keys, current, kid, dek, cache, starts, blobs, contested>>

\* The record is committed, and its DEK cached.
NewKey(p) == [kek |-> password[p], active |-> TRUE]

InsertKey(p) ==
  /\ pc[p] = "inserting"
  /\ keys' = Append(keys, NewKey(p))
  /\ cache' = [cache EXCEPT ![p] = @ \cup {Len(keys')}]
  /\ password' = [password EXCEPT ![p] = "none"]
  /\ Goto(p, "loading")
  /\ UNCHANGED <<secret, current, kid, dek, starts, blobs, contested>>

\* active_key() in the constructor; if it raises there is no adapter.
Load(p) ==
  LET k == FirstActive
      d == Unwrapped(p, k) IN
  /\ pc[p] = "loading"
  /\ IF d = 0
     THEN Goto(p, "down") /\ cache' = [cache EXCEPT ![p] = {}] /\ UNCHANGED <<kid, dek>>
     ELSE /\ Goto(p, "ready")
          /\ cache' = [cache EXCEPT ![p] = @ \cup {k}]
          /\ kid' = [kid EXCEPT ![p] = k]
          /\ dek' = [dek EXCEPT ![p] = d]
  /\ UNCHANGED <<table, password, current, starts, blobs, contested>>

-----------------------------------------------------------------------------
(***************************************************************************)
(* rotate_key and shred_key.                                               *)
(***************************************************************************)
\* rotate(): the active key is read and the password for the new one.
BeginRotate(p) ==
  /\ pc[p] = "ready" /\ Len(keys) < MaxKeys
  /\ current' = [current EXCEPT ![p] = FirstActive]
  /\ password' = [password EXCEPT ![p] = Password]
  /\ Goto(p, "rotating")
  /\ Contend(p)
  /\ UNCHANGED <<table, kid, dek, cache, starts, blobs>>

\* Mistake: the key that is retired is the adapter's, not the store's.
RetireOwn(p) ==
  /\ pc[p] = "rotating"
  /\ keys' = Append([keys EXCEPT ![kid[p]].active = FALSE], NewKey(p))
  /\ cache' = [cache EXCEPT ![p] = @ \cup {Len(keys')}]
  /\ current' = [current EXCEPT ![p] = Len(keys')]
  /\ password' = [password EXCEPT ![p] = "none"]
  /\ Goto(p, "rotated")
  /\ UNCHANGED <<secret, kid, dek, starts, blobs, contested>>

\* rotate() commits: the one retired, the other inserted.
Rotate(p) ==
  /\ pc[p] = "rotating"
  /\ keys' = Append([keys EXCEPT ![current[p]].active = FALSE], NewKey(p))
  /\ cache' = [cache EXCEPT ![p] = @ \cup {Len(keys')}]
  /\ current' = [current EXCEPT ![p] = Len(keys')]
  /\ password' = [password EXCEPT ![p] = "none"]
  /\ Goto(p, "rotated")
  /\ UNCHANGED <<secret, kid, dek, starts, blobs, contested>>

\* The adapter takes the new key's id, and the DEK of what active_key()
\* returns then; if that raises it keeps what it had.
EndRotate(p) ==
  LET k == FirstActive
      d == Unwrapped(p, k) IN
  /\ pc[p] = "rotated"
  /\ IF d = 0
     THEN UNCHANGED <<kid, dek, cache>>
     ELSE /\ kid' = [kid EXCEPT ![p] = current[p]]
          /\ dek' = [dek EXCEPT ![p] = d]
          /\ cache' = [cache EXCEPT ![p] = @ \cup {k}]
  /\ current' = [current EXCEPT ![p] = 0]
  /\ Goto(p, "ready")
  /\ UNCHANGED <<table, password, starts, blobs, contested>>

\* shred_key clears the adapter's copy, and no other.
Shred(p) ==
  /\ pc[p] = "ready" /\ dek[p] # 0
  /\ dek' = [dek EXCEPT ![p] = 0]
  /\ UNCHANGED <<table, pc, password, current, kid, cache, starts, blobs, contested>>

Dead == {"idle", "ok", "failed"}

\* A call that has raised, or died with its process.
Failed == [NoJob EXCEPT !.stage = "failed"]

\* A process dies, and with it its adapter and the calls it had under way.
Crash(p) ==
  /\ pc[p] # "down"
  /\ Goto(p, "down")
  /\ kid' = [kid EXCEPT ![p] = 0]
  /\ dek' = [dek EXCEPT ![p] = 0]
  /\ cache' = [cache EXCEPT ![p] = {}]
  /\ password' = [password EXCEPT ![p] = "none"]
  /\ current' = [current EXCEPT ![p] = 0]
  /\ job' = [j \in Jobs |-> IF job[j].at = p /\ job[j].stage \notin Dead
                            THEN Failed ELSE job[j]]
  /\ UNCHANGED <<table, starts, walrus, manifests, contested>>

-----------------------------------------------------------------------------
(***************************************************************************)
(* store_blob.                                                             *)
(***************************************************************************)
\* _encrypt, in process p.
Encrypted(p, j, chunk, list) ==
  [kid |-> kid[p], dek |-> dek[p], of |-> j, chunk |-> chunk, list |-> list]

\* The call goes on to its next upload, or raises because the key is gone.
UploadNext(j, state, chunk) ==
  LET p == state.at IN
  job' = [job EXCEPT ![j] =
            IF dek[p] = 0 THEN Failed
            ELSE [state EXCEPT !.stage = "storing",
                     !.hand = <<Encrypted(p, j, chunk, IF chunk = 0 THEN state.ids ELSE <<>>)>>]]

BeginStore(j, p) ==
  /\ job[j].stage = "idle"
  /\ pc[p] = "ready"
  /\ UploadNext(j, [NoJob EXCEPT !.at = p, !.of = j], 1)
  /\ UNCHANGED <<table, process, walrus, manifests, contested>>

Uploading(j) == job[j].stage = "storing" /\ pc[job[j].at] = "ready"

\* Mistake: the manifest follows the first chunk.
PutPartThenManifest(j) ==
  LET state == [job[j] EXCEPT !.ids = Append(@, Len(walrus) + 1)] IN
  /\ Uploading(j)
  /\ Parts[j] > 1 /\ job[j].hand[1].chunk # 0
  /\ walrus' = walrus \o job[j].hand
  /\ UploadNext(j, state, 0)
  /\ UNCHANGED <<table, process, manifests, contested>>

\* A chunk is stored, and there is another, or the manifest, to follow.
PutPart(j) ==
  LET state == [job[j] EXCEPT !.ids = Append(@, Len(walrus) + 1)]
      n == Len(state.ids) IN
  /\ Uploading(j)
  /\ Parts[j] > 1 /\ job[j].hand[1].chunk # 0
  /\ walrus' = walrus \o job[j].hand
  /\ UploadNext(j, state, IF n < Parts[j] THEN n + 1 ELSE 0)
  /\ UNCHANGED <<table, process, manifests, contested>>

\* save_blob_manifest, if the adapter has the table: a row that is there stays.
SaveManifest(p, id, list) ==
  manifests' = IF p \in Unledgered \/ id \in DOMAIN manifests THEN manifests
               ELSE [i \in DOMAIN manifests \cup {id} |->
                       IF i = id THEN list ELSE manifests[i]]

\* The manifest, or a payload of one part, is stored: its id is returned, and
\* the manifest's list of chunks goes to the table first.
PutLast(j) ==
  LET id == Len(walrus) + 1 IN
  /\ Uploading(j)
  /\ Parts[j] > 1 => job[j].hand[1].chunk = 0
  /\ walrus' = walrus \o job[j].hand
  /\ IF Parts[j] > 1 THEN SaveManifest(job[j].at, id, job[j].ids) ELSE UNCHANGED manifests
  /\ job' = [job EXCEPT ![j].stage = "ok", ![j].id = id, ![j].hand = <<>>, ![j].ids = <<>>]
  /\ UNCHANGED <<table, process, contested>>

-----------------------------------------------------------------------------
(***************************************************************************)
(* retrieve_blob of what call s has stored.                                *)
(***************************************************************************)
Stored == {s \in Jobs : job[s].id # 0}

\* get_blob_manifest finds a list.
HasManifest(p, id) == p \notin Unledgered /\ id \in DOMAIN manifests

BeginRetrieve(j, p, s) ==
  LET id == job[s].id
      state == [NoJob EXCEPT !.at = p, !.of = s] IN
  /\ job[j].stage = "idle"
  /\ pc[p] = "ready"
  /\ job' = [job EXCEPT ![j] =
       IF Parts[s] = 1 THEN [state EXCEPT !.stage = "fetching", !.ids = <<id>>]
       ELSE IF HasManifest(p, id)
            THEN [state EXCEPT !.stage = "fetching", !.ids = manifests[id]]
            ELSE [state EXCEPT !.stage = "listing", !.ids = <<id>>]]
  /\ UNCHANGED <<table, process, walrus, manifests, contested>>

\* Mistake: the adapter's own key, whatever the header says.
ResolvedOwn(p, b) == IF dek[p] # 0 THEN dek[p] ELSE Unwrapped(p, b.kid)

\* _resolve_aead: the adapter's own key if the header names it, or the key
\* store's.
Resolved(p, b) ==
  IF b.kid = kid[p] /\ dek[p] # 0 THEN dek[p] ELSE Unwrapped(p, b.kid)

Readable(p, b) == Resolved(p, b) = b.dek

\* A blob b has been downloaded by p and decrypted.
Decrypts(p, b) ==
  /\ pc[p] = "ready"
  /\ Readable(p, b)
  /\ cache' = [cache EXCEPT ![p] =
                 IF b.kid = kid[p] /\ dek[p] # 0 THEN @ ELSE @ \cup {b.kid}]
  /\ UNCHANGED <<table, pc, password, current, kid, dek, starts, walrus, contested>>

\* The manifest, which the table did not have: its list goes there.
FetchManifest(j) ==
  LET p == job[j].at
      id == job[j].ids[1]
      b == walrus[id] IN
  /\ job[j].stage = "listing"
  /\ Decrypts(p, b)
  /\ SaveManifest(p, id, b.list)
  /\ job' = [job EXCEPT ![j].stage = "fetching", ![j].ids = b.list]

\* The next part.
Fetch(j) ==
  LET b == walrus[Head(job[j].ids)] IN
  /\ job[j].stage = "fetching"
  /\ Decrypts(job[j].at, b)
  /\ job' = [job EXCEPT ![j].got = Append(@, <<b.of, b.chunk>>),
                        ![j].ids = Tail(@),
                        ![j].stage = IF Len(job[j].ids) = 1 THEN "ok" ELSE "fetching"]
  /\ UNCHANGED manifests

\* Walrus gives up after its retries, has not the blob, or what it sends does
\* not decrypt.
Raise(j) ==
  /\ job[j].stage \in {"storing", "listing", "fetching"}
  /\ pc[job[j].at] = "ready"
  /\ job' = [job EXCEPT ![j] = Failed]
  /\ UNCHANGED <<table, process, walrus, manifests, contested>>

Next ==
  \/ \E p \in Processes :
       \/ Start(p) \/ FindSecret(p) \/ OpenSecret(p) \/ FillSecret(p)
       \/ InsertKey(p) \/ Load(p)
       \/ BeginRotate(p) \/ Rotate(p) \/ EndRotate(p)
       \/ Shred(p) \/ Crash(p)
  \/ \E j \in Jobs :
       \/ \E p \in Processes : \/ BeginStore(j, p)
                               \/ \E s \in Stored : BeginRetrieve(j, p, s)
       \/ PutPart(j) \/ PutLast(j)
       \/ FetchManifest(j) \/ Fetch(j) \/ Raise(j)

Spec == Init /\ [][Next]_vars
-----------------------------------------------------------------------------
\* Type invariant.  Once there is a key there is an active one, whatever races
\* or dies, so that active_key() never raises for want of one (key_store.py:276).
TypeOK ==
  /\ keys \in Seq(Key)
  /\ keys # <<>> => Active # {}
  /\ secret \in {"none", "empty"} \cup Processes
  /\ pc \in [Processes -> MakingKeys \cup {"down", "loading", "ready"}]
  /\ password \in [Processes -> {"none", "weak"} \cup Processes]
  /\ current \in [Processes -> 0..Len(keys)]
  /\ kid \in [Processes -> 0..Len(keys)]
  /\ dek \in [Processes -> 0..Len(keys)]
  /\ cache \in [Processes -> SUBSET (DOMAIN keys)]
  /\ starts \in 0..MaxStarts
  /\ walrus \in Seq(Blob)
  /\ DOMAIN manifests \subseteq DOMAIN walrus
  /\ manifests \in [DOMAIN manifests -> Seq(Nat)]
  /\ job \in [Jobs -> Call]
  /\ contested \in BOOLEAN

\* Unless two processes were making keys at the same time there is one active
\* key, and every key there ever was can be unwrapped by a process started now:
\* dying with the secret file half written does not count as a race.
KeysOpen ==
  ~contested /\ keys # <<>> =>
    /\ \A i, k \in Active : i = k
    /\ \A i \in DOMAIN keys : keys[i].kek = Password

\* Under the same condition every blob can be decrypted by every process, with
\* the key its header names: after rotations by it or by others it has not
\* noticed, after a restart, and after shred_key.
Resolvable ==
  ~contested =>
    \A i \in DOMAIN walrus :
      /\ walrus[i].kid = walrus[i].dek
      /\ \A p \in Processes : pc[p] = "ready" => Readable(p, walrus[i])

Whole(s) == [i \in 1..Parts[s] |-> <<s, i>>]

\* What retrieve_blob returns is what was stored, in order and complete, and
\* what it has so far is a beginning of it, by way of the table or of the
\* manifest on Walrus, whatever failed, died or raced in between.
WholePayload ==
  \A j \in Jobs : job[j].stage \in {"fetching", "ok"} /\ job[j].of # j =>
    /\ IsPrefix(job[j].got, Whole(job[j].of))
    /\ job[j].stage = "ok" => job[j].got = Whole(job[j].of)
=============================================================================
