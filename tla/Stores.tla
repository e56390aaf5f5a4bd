-------------------------------- MODULE Stores --------------------------------
(***************************************************************************)
(* The stores that agent frameworks keep on a stream (integrations/): the  *)
(* conversation that openai's and pydantic_ai's stores are told again and  *)
(* again, autogen's and crewai's histories, llamaindex's chats and         *)
(* documents, and langgraph's checkpoints.  All of them append rows to a   *)
(* stream, which is one step here (MemoryStream has its steps), and        *)
(* read the whole of it back.  A behaviour has one store, its share says   *)
(* which, on a stream of its own.                                          *)
(***************************************************************************)
EXTENDS Budget, Sequences, FiniteSets, SequencesExt

CONSTANTS
  Callers,   \* tasks of one process that use the stores
  Chat       \* the conversation, as messages with a role and a content

ASSUME ChatAssumption == Chat \in Seq({Chat[m] : m \in DOMAIN Chat})

VARIABLES
  stored,    \* the stream's rows
  index,     \* whether the document is in the process's vector index
  call,      \* the call each caller is in
  clash,     \* history: what two calls were about at a time, or one left half done
  done       \* history: how far syncs, clears and puts that have returned reached

storeVars == <<stored, index, call, clash, done, left>>

NoCall == [what |-> "none", items |-> <<>>, at |-> 0, upto |-> 0]
Item(type, content) == [type |-> type, content |-> content]
OfType(rows, type) == {i \in DOMAIN rows : rows[i].type = type}
LastIndex(rows, type) == Max({0} \cup OfType(rows, type))
------------------------------------------------------------------------------
(* What the stores read. *)

\* get_thread, and pydantic_ai's get_messages: the turns.
Thread(rows) == OfType(rows, "turn")

\* get_history of autogen, get_all of crewai: what follows the last clear.
History(rows) == {i \in OfType(rows, "message") : i > LastIndex(rows, "clear")}

\* get_messages of llamaindex: a tombstone takes nothing away.
Messages(rows) == OfType(rows, "message")

\* get_document: there, and not deleted since.
Document(rows) == LastIndex(rows, "document") > LastIndex(rows, "deleted")

\* aget_tuple: the first checkpoint from the end, and alist: all of them.
Checkpoint(rows) == LastIndex(rows, "checkpoint")
------------------------------------------------------------------------------
\* The messages that are not there yet: none that one before it equals.
Absent(rows, n) == {m \in 1 .. n : \A i \in Thread(rows) : rows[i].content # Chat[m]}
New(m) == \A k \in 1 .. m - 1 : Chat[k] # Chat[m]

\* The numbers of a set, the least first.
Ascending(S) == [k \in 1 .. Cardinality(S) |-> CHOOSE m \in S : Cardinality({l \in S : l <= m}) = k]

Turns(order) == [k \in DOMAIN order |-> Item("turn", Chat[order[k]])]

\* Mistake: what the call itself appends is not added to what is seen.
MissingTwice(rows, n) == Turns(Ascending(Absent(rows, n)))

\* sync_messages: the messages whose role and content are not there yet.
Missing(rows, n) == Turns(Ascending({m \in Absent(rows, n) : New(m)}))

About(u, what) == what # "none" /\ \E v \in Callers \ {u} : call[v].what = what

\* A call begins: what it appends is what it read at the start.
Call(u, what, upto, items) ==
  /\ call[u] = NoCall /\ Spend("stores")
  /\ call' = [call EXCEPT ![u] = [what |-> what, items |-> items, at |-> 0, upto |-> upto]]
  /\ clash' = IF About(u, what) THEN clash \cup {what} ELSE clash
  /\ UNCHANGED <<stored, index, done>>

Rows(u, what, upto, type) == Call(u, what, upto, <<Item(type, "")>>)

\* sync_messages.
Sync(u) ==
  \E n \in DOMAIN Chat : Call(u, "thread", n, Missing(stored, n))

\* A tombstone, which no store of these reads.
Tombstone(u, found) == found /\ Rows(u, "tombstone", 0, "tombstone")

\* sync_messages, which appends with append_turn; delete_thread.
OpenAI(u) == left.store = "openai" /\ (Sync(u) \/ Tombstone(u, Thread(stored) # {}))

\* sync_messages, which appends with append_message.
PydanticAI(u) == left.store = "pydantic_ai" /\ Sync(u)

\* A history that is added to and cleared.
Say(u) == Rows(u, "message", 0, "message")
Clear(u) == Rows(u, "clear", Len(stored), "clear")

\* on_message, clear.
AutoGen(u) == left.store = "autogen" /\ (Say(u) \/ Clear(u))

\* save, reset.
CrewAI(u) == left.store = "crewai" /\ (Say(u) \/ Clear(u))

\* WalrusChatStore: add_message, delete_messages and delete_last_message.
LlamaChat(u) == left.store = "llama_chat" /\ (Say(u) \/ Tombstone(u, Messages(stored) # {}))

\* WalrusDocumentStore: add_document, delete_document.
LlamaDocuments(u) ==
  /\ left.store = "llama_documents"
  /\ \/ Rows(u, "document", 0, "document")
     \/ Document(stored) /\ Rows(u, "document", 0, "deleted")

\* aput, aput_writes.
LangGraph(u) ==
  /\ left.store = "langgraph"
  /\ Rows(u, "put", Len(stored), "checkpoint") \/ Rows(u, "writes", 0, "writes")
------------------------------------------------------------------------------
AllIn(u) == call[u].at = Len(call[u].items)

\* The next row is appended.
AppendNext(u) ==
  /\ ~AllIn(u)
  /\ stored' = Append(stored, call[u].items[call[u].at + 1])
  /\ call' = [call EXCEPT ![u].at = @ + 1]
  /\ UNCHANGED <<index, clash, done, left>>

\* The append fails, before its row is in or after.
Raise(u) ==
  /\ call[u] # NoCall
  /\ call' = [call EXCEPT ![u] = NoCall]
  /\ clash' = IF call[u].what = "document" /\ AllIn(u) THEN clash \cup {"document"} ELSE clash
  /\ UNCHANGED <<stored, index, done, left>>

\* The rows are in: a document's text goes into the index, or out of it.
Return(u) ==
  LET what == call[u].what
  IN /\ what # "none" /\ AllIn(u)
     /\ call' = [call EXCEPT ![u] = NoCall]
     /\ index' = IF what = "document" THEN call[u].items[1].type = "document" ELSE index
     /\ done' = IF what \in DOMAIN done /\ call[u].upto > done[what]
                  THEN [done EXCEPT ![what] = call[u].upto] ELSE done
     /\ UNCHANGED <<stored, clash, left>>

\* The process is started again, with an empty index.
StoresRestart ==
  /\ stored # <<>> /\ Spend("stores")
  /\ call' = [u \in Callers |-> NoCall]
  /\ index' = FALSE
  /\ UNCHANGED <<stored, clash, done>>
------------------------------------------------------------------------------
StoresInit ==
  /\ stored = <<>>
  /\ index = FALSE
  /\ call = [u \in Callers |-> NoCall]
  /\ clash = {}
  /\ done = [thread |-> 0, clear |-> 0, put |-> 0]

StoresNext ==
  \/ \E u \in Callers :
       \/ OpenAI(u) \/ PydanticAI(u) \/ AutoGen(u) \/ CrewAI(u)
       \/ LlamaChat(u) \/ LlamaDocuments(u) \/ LangGraph(u)
       \/ AppendNext(u) \/ Raise(u) \/ Return(u)
  \/ StoresRestart
------------------------------------------------------------------------------
(* Properties. *)

\* A conversation that is synced again and again, after failures and deaths in
\* the middle of it too, is stored in its order, each message once and all of
\* those a sync that returned was given.  Only syncs that overlap can store
\* one twice or swap two.
SyncedOnce ==
  /\ \A m \in 1 .. done.thread : \E i \in Thread(stored) : stored[i].content = Chat[m]
  /\ "thread" \in clash \/ \A i \in Thread(stored) :
       /\ \A k \in Thread(stored) : stored[k].content = stored[i].content => k = i
       /\ \E m \in DOMAIN Chat :
            /\ New(m) /\ stored[i].content = Chat[m]
            /\ \A l \in 1 .. m - 1 : \E k \in Thread(stored) : k < i /\ stored[k].content = Chat[l]

\* A deleted document is not left in the index, nor one that was never there,
\* unless its calls overlapped or its deletion failed half way.
IndexFollows ==
  index => Document(stored) \/ "document" \in clash \/ \E u \in Callers : call[u].what = "document"

\* A history holds nothing of what was there before a clear that has returned
\* was called, and a graph resumes from a checkpoint that is no older than any
\* whose put has returned.
ReadsWhatReturned ==
  /\ \A i \in History(stored) : i > done.clear
  /\ Checkpoint(stored) >= done.put

StoresSound == SyncedOnce /\ IndexFollows /\ ReadsWhatReturned
==============================================================================
