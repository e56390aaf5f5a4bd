------------------------------ MODULE TaskBoard ------------------------------
(***************************************************************************)
(* Tasks: the rows of SQLiteLedger's table, the task clients of the SDK    *)
(* (sdk/task.py), each of which writes back the whole record it read, the  *)
(* two calls of the dashboard bridge that write rows themselves, and the   *)
(* MCP servers (mcp/server.py), whose tools claim and complete tasks.      *)
(*                                                                         *)
(* assign, add_memory, add_tag and the notes are alike, a field that is    *)
(* written with the rest; here it is the set of clients that added to it.  *)
(***************************************************************************)
EXTENDS Budget, Sequences, FiniteSets, Functions, TLC

CONSTANTS
  Boarders,   \* processes with a task client
  Servers,    \* processes that are MCP servers
  MaxTasks

VARIABLES
  rows,     \* the table: task ids to records
  copy,     \* the record of each process's task client
  child,    \* the subtask that each has saved and not yet listed
  tool,     \* the call each MCP server is in, and the record it has read
  undated   \* history: tasks that were made done by a call that dates nothing

boardVars == <<rows, copy, child, tool, undated, left>>

NoTask == 0
Column == {"pending", "in_progress", "review", "done", "failed"}
Fresh(parent) == [status |-> "pending", dated |-> FALSE, subs |-> {}, added |-> {}, parent |-> parent]
NoCopy == [task |-> NoTask, row |-> Fresh(NoTask)]
NoTool == [call |-> "none", task |-> NoTask, row |-> Fresh(NoTask)]
NewId == Cardinality(DOMAIN rows) + 1

\* save_task: an existing row keeps its parent.
Saved(t, row) ==
  [u \in DOMAIN rows \cup {t} |->
     IF u # t THEN rows[u]
     ELSE IF t \in DOMAIN rows THEN [row EXCEPT !.parent = rows[t].parent] ELSE row]
------------------------------------------------------------------------------
\* WorkspaceClient.create_task.
CreateTask(w) ==
  /\ NewId <= MaxTasks /\ child[w] = NoTask /\ Spend("board")
  /\ rows' = Saved(NewId, Fresh(NoTask))
  /\ copy' = [copy EXCEPT ![w] = [task |-> NewId, row |-> Fresh(NoTask)]]
  /\ UNCHANGED <<child, tool, undated>>

\* WorkspaceClient.task and tasks: the record as it is now.
Open(w) ==
  /\ child[w] = NoTask
  /\ \E t \in DOMAIN rows : copy' = [copy EXCEPT ![w] = [task |-> t, row |-> rows[t]]]
  /\ UNCHANGED <<rows, child, tool, undated, left>>

\* A method of the client changes its record and saves all of it.
Keep(w, row) ==
  /\ copy[w].task # NoTask /\ child[w] = NoTask /\ Spend("board")
  /\ copy' = [copy EXCEPT ![w].row = row]
  /\ rows' = Saved(copy[w].task, row)
  /\ UNCHANGED <<child, tool, undated>>

StartTask(w) ==
  /\ copy[w].row.status = "pending"
  /\ Keep(w, [copy[w].row EXCEPT !.status = "in_progress"])

Submit(w) ==
  /\ copy[w].row.status = "in_progress"
  /\ Keep(w, [copy[w].row EXCEPT !.status = "review"])

Complete(w) == Keep(w, [copy[w].row EXCEPT !.status = "done", !.dated = TRUE])

FailTask(w) == Keep(w, [copy[w].row EXCEPT !.status = "failed"])

Add(w) ==
  /\ w \notin copy[w].row.added
  /\ Keep(w, [copy[w].row EXCEPT !.added = @ \cup {w}])

\* Mistake: the parent lists the subtask first.
ListFirst(w) ==
  /\ copy[w].task # NoTask /\ child[w] = NoTask
  /\ NewId <= MaxTasks /\ Spend("board")
  /\ child' = [child EXCEPT ![w] = NewId]
  /\ UNCHANGED <<rows, copy, tool, undated>>

\* add_subtask: the subtask is saved in one transaction, and listed by its
\* parent in the next, from the client's copy of the parent.
SaveSubtask(w) ==
  /\ copy[w].task # NoTask /\ child[w] = NoTask
  /\ NewId <= MaxTasks /\ Spend("board")
  /\ rows' = Saved(NewId, Fresh(copy[w].task))
  /\ child' = [child EXCEPT ![w] = NewId]
  /\ UNCHANGED <<copy, tool, undated>>

ListSubtask(w) ==
  LET row == [copy[w].row EXCEPT !.subs = @ \cup {child[w]}]
  IN /\ child[w] # NoTask
     /\ copy' = [copy EXCEPT ![w].row = row]
     /\ rows' = Saved(copy[w].task, row)
     /\ child' = [child EXCEPT ![w] = NoTask]
     /\ UNCHANGED <<tool, undated, left>>

\* The process dies, between the two perhaps.
Die(w) ==
  /\ copy[w] # NoCopy /\ Spend("board")
  /\ copy' = [copy EXCEPT ![w] = NoCopy]
  /\ child' = [child EXCEPT ![w] = NoTask]
  /\ UNCHANGED <<rows, tool, undated>>
------------------------------------------------------------------------------
\* The bridge: create_task takes any status and dates nothing.
CreateOnBoard(status) ==
  /\ NewId <= MaxTasks /\ Spend("board")
  /\ rows' = Saved(NewId, [Fresh(NoTask) EXCEPT !.status = status])
  /\ undated' = IF status = "done" THEN undated \cup {NewId} ELSE undated
  /\ UNCHANGED <<copy, child, tool>>

\* update_task_status: one field of the row, and the date when it is first done.
MoveOnBoard(t, status) ==
  /\ t \in DOMAIN rows /\ rows[t].status # status /\ Spend("board")
  /\ rows' = [rows EXCEPT ![t].status = status, ![t].dated = @ \/ status = "done"]
  /\ UNCHANGED <<copy, child, tool, undated>>
------------------------------------------------------------------------------
\* An MCP server.  list_tasks selects the pending tasks and then reads the first
\* one's record: it may have changed.
ListPending(s) ==
  /\ tool[s] = NoTool /\ Spend("board")
  /\ \E t \in DOMAIN rows :
       /\ rows[t].status = "pending"
       /\ tool' = [tool EXCEPT ![s].call = "look", ![s].task = t]
  /\ UNCHANGED <<rows, copy, child, undated>>

\* The record is read: for a claim, or for task_complete, of any task.
ReadTask(s, call, t) ==
  /\ tool' = [tool EXCEPT ![s] = [call |-> call, task |-> t, row |-> rows[t]]]
  /\ UNCHANGED <<rows, copy, child, undated>>

ReadForClaim(s) ==
  /\ tool[s].call = "look"
  /\ ReadTask(s, "claim", tool[s].task)
  /\ UNCHANGED left

ReadForComplete(s) ==
  /\ tool[s] = NoTool /\ Spend("board")
  /\ \E t \in DOMAIN rows : ReadTask(s, "complete", t)

\* What was read is saved in another transaction, in progress or done.
ClaimTask(s) ==
  /\ tool[s].call = "claim"
  /\ rows' = Saved(tool[s].task, [tool[s].row EXCEPT !.status = "in_progress"])
  /\ tool' = [tool EXCEPT ![s] = NoTool]
  /\ UNCHANGED <<copy, child, undated, left>>

CompleteByTool(s) ==
  /\ tool[s].call = "complete"
  /\ rows' = Saved(tool[s].task, [tool[s].row EXCEPT !.status = "done"])
  /\ tool' = [tool EXCEPT ![s] = NoTool]
  /\ undated' = undated \cup {tool[s].task}
  /\ UNCHANGED <<copy, child, left>>
------------------------------------------------------------------------------
BoardInit ==
  /\ rows = <<>>
  /\ copy = [w \in Boarders |-> NoCopy]
  /\ child = [w \in Boarders |-> NoTask]
  /\ tool = [s \in Servers |-> NoTool]
  /\ undated = {}

BoardNext ==
  \/ \E w \in Boarders : \/ CreateTask(w) \/ Open(w) \/ StartTask(w) \/ Submit(w) \/ Complete(w)
                        \/ FailTask(w) \/ Add(w) \/ SaveSubtask(w) \/ ListSubtask(w) \/ Die(w)
  \/ \E status \in {"pending", "done"} : CreateOnBoard(status)
  \/ \E t \in 1 .. MaxTasks, status \in Column : MoveOnBoard(t, status)
  \/ \E s \in Servers : \/ ListPending(s) \/ ReadForClaim(s) \/ ReadForComplete(s)
                        \/ ClaimTask(s) \/ CompleteByTool(s)
------------------------------------------------------------------------------
(* Properties. *)

\* However stale the copies that are written back, and wherever a process
\* dies: a task that is listed as a subtask is in the table and has the parent
\* that lists it, and a task that is done says when, unless the board created
\* it done.
BoardSound ==
  \A t \in DOMAIN rows :
    /\ \A s \in rows[t].subs : s \in DOMAIN rows /\ rows[s].parent = t
    /\ rows[t].status = "done" => rows[t].dated \/ t \in undated

\* The tool's description: it claims the next pending task, to be called to pick
\* up work "without manual coordination" (mcp/server.py:309).
ClaimedOnce ==
  [][\A s \in Servers : ClaimTask(s) => rows[tool[s].task].status = "pending"]_boardVars
==============================================================================
