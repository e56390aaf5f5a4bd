---------------------------- MODULE BridgeProofs ----------------------------
(***************************************************************************)
(* Proofs about Bridge, for any number of task clients, MCP servers and    *)
(* tasks; of agents, of pages that show who is online and of requests; of  *)
(* connections to the event feed, and of the writers of its streams; and   *)
(* of tasks that use a framework's store.                                  *)
(***************************************************************************)
EXTENDS Bridge, MemoryStreamProofs

-----------------------------------------------------------------------------
(***************************************************************************)
(* The task board                                                          *)
(***************************************************************************)

Task == [status : Column, dated : BOOLEAN, subs : SUBSET Nat,
         added : SUBSET Boarders, parent : Nat]

\* The types the argument needs; the table's ids are 1, 2, ... without a gap.
BoardTypes ==
  /\ IsFiniteSet(DOMAIN rows)
  /\ DOMAIN rows = 1 .. Cardinality(DOMAIN rows)
  /\ rows \in [DOMAIN rows -> Task]
  /\ copy \in [Boarders -> [task : Nat, row : Task]]
  /\ child \in [Boarders -> Nat]
  /\ tool \in [Servers -> [call : {"none", "look", "claim", "complete"},
                           task : Nat, row : Task]]

\* What BoardSound asks of a row of task t, of a record that may replace it too:
\* table and made stand for rows and undated.
Sound(table, made, t, row) ==
  /\ t \in DOMAIN table
  /\ \A s \in row.subs : s \in DOMAIN table /\ table[s].parent = t
  /\ row.status = "done" => row.dated \/ t \in made

RowsSound == \A t \in DOMAIN rows : Sound(rows, undated, t, rows[t])

\* A stale copy is as sound as the row it will replace.
CopiesSound ==
  \A w \in Boarders : copy[w].task # NoTask => Sound(rows, undated, copy[w].task, copy[w].row)

\* The subtask that a client has yet to list is a task of its copy's.
ChildrenSaved ==
  \A w \in Boarders : child[w] # NoTask =>
    /\ copy[w].task # NoTask
    /\ child[w] \in DOMAIN rows /\ rows[child[w]].parent = copy[w].task

ToolsSound ==
  \A s \in Servers :
    /\ tool[s].call = "look" => tool[s].task \in DOMAIN rows
    /\ tool[s].call \in {"claim", "complete"} => Sound(rows, undated, tool[s].task, tool[s].row)

BoardInv == BoardTypes /\ RowsSound /\ CopiesSound /\ ChildrenSaved /\ ToolsSound

\* No step removes a row, gives one another parent, or forgets that a task was
\* made done without a date.
Kept(table, made, table2, made2) ==
  /\ DOMAIN table \subseteq DOMAIN table2 /\ made \subseteq made2
  /\ \A t \in DOMAIN table : table2[t].parent = table[t].parent

\* What is sound stays sound while rows are kept.
LEMMA SoundStays ==
  ASSUME NEW table, NEW made, NEW table2, NEW made2, NEW t, NEW row,
         Kept(table, made, table2, made2), Sound(table, made, t, row)
  PROVE  Sound(table2, made2, t, row)
BY DEF Kept, Sound

\* The record of a task that was just created.
LEMMA FreshType ==
  ASSUME NEW parent \in Nat
  PROVE  Fresh(parent) \in Task /\ Fresh(parent).parent = parent
         /\ Fresh(parent).subs = {} /\ Fresh(parent).status = "pending"
BY DEF Fresh, Task, Column

\* Saving a record changes one row, or adds one, and leaves a parent as it is.
LEMMA SavedIs ==
  ASSUME NEW t, NEW row \in Task, rows \in [DOMAIN rows -> Task]
  PROVE  /\ DOMAIN Saved(t, row) = DOMAIN rows \cup {t}
         /\ \A u \in DOMAIN rows : u # t => Saved(t, row)[u] = rows[u]
         /\ /\ Saved(t, row)[t].subs = row.subs
            /\ Saved(t, row)[t].status = row.status
            /\ Saved(t, row)[t].dated = row.dated
         /\ t \notin DOMAIN rows => Saved(t, row)[t] = row
         /\ Saved(t, row) \in [DOMAIN Saved(t, row) -> Task]
         /\ \A u \in DOMAIN rows : Saved(t, row)[u].parent = rows[u].parent
<1> DEFINE new == IF t \in DOMAIN rows THEN [row EXCEPT !.parent = rows[t].parent] ELSE row
<1>1. /\ new \in Task /\ (t \in DOMAIN rows => new.parent = rows[t].parent)
      /\ new.subs = row.subs /\ new.status = row.status /\ new.dated = row.dated
      /\ t \notin DOMAIN rows => new = row
  BY DEF Task
<1>2. Saved(t, row) = [u \in DOMAIN rows \cup {t} |-> IF u # t THEN rows[u] ELSE new]
  BY DEF Saved
<1> HIDE DEF new
<1>3. /\ DOMAIN Saved(t, row) = DOMAIN rows \cup {t}
      /\ \A u \in DOMAIN rows : u # t => Saved(t, row)[u] = rows[u]
      /\ Saved(t, row)[t] = new
  BY <1>2
<1>4. Saved(t, row) \in [DOMAIN Saved(t, row) -> Task]
  BY <1>1, <1>2, <1>3
<1>5. \A u \in DOMAIN rows : Saved(t, row)[u].parent = rows[u].parent
  BY <1>1, <1>3
<1> QED
  BY <1>1, <1>3, <1>4, <1>5

\* The id that the next task gets is nobody's.
LEMMA NewIdIsNew ==
  ASSUME BoardTypes
  PROVE  /\ NewId \in Nat \ {NoTask} /\ NewId \notin DOMAIN rows
         /\ NoTask \notin DOMAIN rows /\ DOMAIN rows \subseteq Nat
         /\ IsFiniteSet(DOMAIN rows \cup {NewId})
         /\ DOMAIN rows \cup {NewId} = 1 .. Cardinality(DOMAIN rows \cup {NewId})
<1>1. Cardinality(DOMAIN rows) \in Nat
  BY FS_CardinalityType DEF BoardTypes
<1>2. /\ NewId \in Nat \ {NoTask} /\ NewId \notin DOMAIN rows
      /\ NoTask \notin DOMAIN rows /\ DOMAIN rows \subseteq Nat
      /\ DOMAIN rows \cup {NewId} = 1 .. NewId
  BY <1>1 DEF BoardTypes, NewId, NoTask
<1>3. /\ IsFiniteSet(DOMAIN rows \cup {NewId})
      /\ Cardinality(DOMAIN rows \cup {NewId}) = NewId
  BY <1>1, <1>2, FS_AddElement DEF BoardTypes, NewId
<1> QED
  BY <1>2, <1>3

\* A step that saves a sound record of task t, which is new or whose row it
\* replaces, keeps the table in order.
LEMMA SavingKeeps ==
  ASSUME BoardTypes, RowsSound, NEW t, NEW row \in Task,
         t \in DOMAIN rows \/ t = NewId,
         rows' = Saved(t, row), undated \subseteq undated',
         \A s \in row.subs : s \in DOMAIN rows /\ rows[s].parent = t,
         row.status = "done" => row.dated \/ t \in undated'
  PROVE  /\ IsFiniteSet(DOMAIN rows') /\ DOMAIN rows' = 1 .. Cardinality(DOMAIN rows')
         /\ rows' \in [DOMAIN rows' -> Task]
         /\ RowsSound' /\ Kept(rows, undated, rows', undated')
         /\ Sound(rows', undated', t, row)
<1>1. rows \in [DOMAIN rows -> Task]
  BY DEF BoardTypes
<1>2. /\ DOMAIN rows' = DOMAIN rows \cup {t}
      /\ \A u \in DOMAIN rows : u # t => rows'[u] = rows[u]
      /\ rows'[t].subs = row.subs /\ rows'[t].status = row.status /\ rows'[t].dated = row.dated
      /\ rows' \in [DOMAIN rows' -> Task]
      /\ \A u \in DOMAIN rows : rows'[u].parent = rows[u].parent
  <2>1. /\ DOMAIN Saved(t, row) = DOMAIN rows \cup {t}
        /\ \A u \in DOMAIN rows : u # t => Saved(t, row)[u] = rows[u]
        /\ /\ Saved(t, row)[t].subs = row.subs
           /\ Saved(t, row)[t].status = row.status
           /\ Saved(t, row)[t].dated = row.dated
        /\ Saved(t, row) \in [DOMAIN Saved(t, row) -> Task]
        /\ \A u \in DOMAIN rows : Saved(t, row)[u].parent = rows[u].parent
    BY <1>1, SavedIs
  <2> QED
    BY <2>1
<1>3. IsFiniteSet(DOMAIN rows') /\ DOMAIN rows' = 1 .. Cardinality(DOMAIN rows')
  <2>1. CASE t \in DOMAIN rows
    <3>1. DOMAIN rows' = DOMAIN rows
      BY <1>2, <2>1
    <3> QED
      BY <3>1 DEF BoardTypes
  <2>2. CASE t = NewId
    BY <1>2, <2>2, NewIdIsNew
  <2> QED
    BY <2>1, <2>2
<1>4. Kept(rows, undated, rows', undated')
  BY <1>2 DEF Kept
<1>5. Sound(rows', undated', t, row)
  BY <1>2 DEF Sound
<1>6. RowsSound'
  <2> SUFFICES ASSUME NEW u \in DOMAIN rows' PROVE Sound(rows', undated', u, rows'[u])
    BY DEF RowsSound
  <2>1. CASE u = t
    BY <1>2, <1>5, <2>1 DEF Sound
  <2>2. CASE u # t
    <3>1. u \in DOMAIN rows /\ rows'[u] = rows[u]
      BY <1>2, <2>2
    <3>2. Sound(rows, undated, u, rows[u])
      BY <3>1 DEF RowsSound
    <3> QED
      BY <1>4, <3>1, <3>2, SoundStays
  <2> QED
    BY <2>1, <2>2
<1> QED
  BY <1>2, <1>3, <1>4, <1>5, <1>6

\* What the others hold stays as sound as it was.
LEMMA OthersStay ==
  ASSUME Kept(rows, undated, rows', undated')
  PROVE  /\ \A w \in Boarders : copy'[w] = copy[w] /\ CopiesSound /\ copy[w].task # NoTask
                => Sound(rows', undated', copy'[w].task, copy'[w].row)
         /\ \A w \in Boarders : copy'[w].task = copy[w].task /\ child'[w] = child[w]
                                /\ ChildrenSaved /\ child[w] # NoTask
                => /\ copy'[w].task # NoTask
                   /\ child'[w] \in DOMAIN rows' /\ rows'[child'[w]].parent = copy'[w].task
         /\ \A s \in Servers : tool'[s] = tool[s] /\ ToolsSound
                => /\ tool'[s].call = "look" => tool'[s].task \in DOMAIN rows'
                   /\ tool'[s].call \in {"claim", "complete"}
                        => Sound(rows', undated', tool'[s].task, tool'[s].row)
<1>1. ASSUME NEW w \in Boarders, copy'[w] = copy[w], CopiesSound, copy[w].task # NoTask
      PROVE  Sound(rows', undated', copy'[w].task, copy'[w].row)
  <2>1. Sound(rows, undated, copy[w].task, copy[w].row)
    BY <1>1 DEF CopiesSound
  <2> QED
    BY <1>1, <2>1, SoundStays
<1>2. ASSUME NEW w \in Boarders, copy'[w].task = copy[w].task, child'[w] = child[w],
             ChildrenSaved, child[w] # NoTask
      PROVE  /\ copy'[w].task # NoTask
             /\ child'[w] \in DOMAIN rows' /\ rows'[child'[w]].parent = copy'[w].task
  BY <1>2 DEF ChildrenSaved, Kept
<1>3. ASSUME NEW s \in Servers, tool'[s] = tool[s], ToolsSound
      PROVE  /\ tool'[s].call = "look" => tool'[s].task \in DOMAIN rows'
             /\ tool'[s].call \in {"claim", "complete"}
                  => Sound(rows', undated', tool'[s].task, tool'[s].row)
  <2>1. CASE tool[s].call = "look"
    BY <1>3, <2>1 DEF ToolsSound, Kept
  <2>2. CASE tool[s].call \in {"claim", "complete"}
    <3>1. Sound(rows, undated, tool[s].task, tool[s].row)
      BY <1>3, <2>2 DEF ToolsSound
    <3> QED
      BY <1>3, <2>2, <3>1, SoundStays
  <2> QED
    BY <1>3, <2>1, <2>2
<1> QED
  BY <1>1, <1>2, <1>3

\* A step of client w: it keeps the table in order, and what w holds after it is sound.
LEMMA ClientStep ==
  ASSUME BoardInv, NEW w \in Boarders,
         Kept(rows, undated, rows', undated'), RowsSound',
         IsFiniteSet(DOMAIN rows'), DOMAIN rows' = 1 .. Cardinality(DOMAIN rows'),
         rows' \in [DOMAIN rows' -> Task],
         NEW one \in [task : Nat, row : Task], copy' = [copy EXCEPT ![w] = one],
         NEW kid \in Nat, child' = [child EXCEPT ![w] = kid],
         one.task # NoTask => Sound(rows', undated', one.task, one.row),
         kid # NoTask => one.task # NoTask /\ kid \in DOMAIN rows' /\ rows'[kid].parent = one.task,
         tool' = tool
  PROVE  BoardInv'
<1>1. BoardTypes'
  BY DEF BoardInv, BoardTypes
<1>2. /\ copy'[w] = one /\ child'[w] = kid
      /\ \A v \in Boarders \ {w} : copy'[v] = copy[v] /\ child'[v] = child[v]
  BY DEF BoardInv, BoardTypes
<1>3. CopiesSound'
  <2> SUFFICES ASSUME NEW v \in Boarders, copy'[v].task # NoTask
               PROVE  Sound(rows', undated', copy'[v].task, copy'[v].row)
    BY DEF CopiesSound
  <2>1. CASE v = w
    BY <1>2, <2>1
  <2>2. CASE v # w
    BY <1>2, <2>2, OthersStay DEF BoardInv
  <2> QED
    BY <2>1, <2>2
<1>4. ChildrenSaved'
  <2> SUFFICES ASSUME NEW v \in Boarders, child'[v] # NoTask
               PROVE  /\ copy'[v].task # NoTask
                      /\ child'[v] \in DOMAIN rows' /\ rows'[child'[v]].parent = copy'[v].task
    BY DEF ChildrenSaved
  <2>1. CASE v = w
    BY <1>2, <2>1
  <2>2. CASE v # w
    BY <1>2, <2>2, OthersStay DEF BoardInv
  <2> QED
    BY <2>1, <2>2
<1>5. ToolsSound'
  BY OthersStay DEF BoardInv, ToolsSound
<1> QED
  BY <1>1, <1>3, <1>4, <1>5 DEF BoardInv

\* A step of server s: it keeps the table in order, and what s has
\* read is sound.
LEMMA ServerStep ==
  ASSUME BoardInv,
         Kept(rows, undated, rows', undated'), RowsSound',
         IsFiniteSet(DOMAIN rows'), DOMAIN rows' = 1 .. Cardinality(DOMAIN rows'),
         rows' \in [DOMAIN rows' -> Task], copy' = copy, child' = child,
         NEW s, NEW one \in [call : {"none", "look", "claim", "complete"}, task : Nat, row : Task],
         tool' = [tool EXCEPT ![s] = one],
         one.call = "look" => one.task \in DOMAIN rows',
         one.call \in {"claim", "complete"} => Sound(rows', undated', one.task, one.row)
  PROVE  BoardInv'
<1>1. BoardTypes'
  BY DEF BoardInv, BoardTypes
<1>2. CopiesSound' /\ ChildrenSaved'
  BY OthersStay DEF BoardInv, CopiesSound, ChildrenSaved
<1>3. ToolsSound'
  <2> SUFFICES ASSUME NEW v \in Servers
               PROVE  /\ tool'[v].call = "look" => tool'[v].task \in DOMAIN rows'
                      /\ tool'[v].call \in {"claim", "complete"}
                           => Sound(rows', undated', tool'[v].task, tool'[v].row)
    BY DEF ToolsSound
  <2>1. CASE v = s
    <3>1. tool'[v] = one
      BY <2>1 DEF BoardInv, BoardTypes
    <3> QED
      BY <3>1
  <2>2. CASE v # s
    <3>1. tool'[v] = tool[v]
      BY <2>2 DEF BoardInv, BoardTypes
    <3> QED
      BY <3>1, OthersStay DEF BoardInv
  <2> QED
    BY <2>1, <2>2
<1> QED
  BY <1>1, <1>2, <1>3 DEF BoardInv

\* A step that nobody holds anything of.
LEMMA NobodysStep ==
  ASSUME BoardInv,
         Kept(rows, undated, rows', undated'), RowsSound',
         IsFiniteSet(DOMAIN rows'), DOMAIN rows' = 1 .. Cardinality(DOMAIN rows'),
         rows' \in [DOMAIN rows' -> Task], copy' = copy, child' = child, tool' = tool
  PROVE  BoardInv'
<1>1. BoardTypes'
  BY DEF BoardInv, BoardTypes
<1>2. CopiesSound' /\ ChildrenSaved' /\ ToolsSound'
  BY OthersStay DEF BoardInv, CopiesSound, ChildrenSaved, ToolsSound
<1> QED
  BY <1>1, <1>2 DEF BoardInv

\* A table that is as it was is in order.
LEMMA SameTable ==
  ASSUME BoardInv, rows' = rows, undated' = undated
  PROVE  /\ Kept(rows, undated, rows', undated') /\ RowsSound'
         /\ IsFiniteSet(DOMAIN rows') /\ DOMAIN rows' = 1 .. Cardinality(DOMAIN rows')
         /\ rows' \in [DOMAIN rows' -> Task]
BY DEF BoardInv, BoardTypes, RowsSound, Kept, Sound

\* A method of the client saves a record that is sound if its copy was.
LEMMA KeepStep ==
  ASSUME BoardInv, NEW w \in Boarders, NEW row \in Task, Keep(w, row),
         copy[w].task # NoTask => Sound(rows, undated, copy[w].task, row)
  PROVE  BoardInv'
<1> DEFINE one == [task |-> copy[w].task, row |-> row]
<1>1. /\ copy[w].task # NoTask /\ child[w] = NoTask
      /\ rows' = Saved(copy[w].task, row)
      /\ child' = child /\ tool' = tool /\ undated' = undated
  BY DEF Keep
<1>2. /\ one \in [task : Nat, row : Task] /\ NoTask \in Nat
      /\ copy' = [copy EXCEPT ![w] = one] /\ child' = [child EXCEPT ![w] = NoTask]
  <2>1. copy' = [copy EXCEPT ![w] = [copy[w] EXCEPT !.row = row]]
    BY DEF Keep
  <2>2. /\ copy[w] \in [task : Nat, row : Task] /\ child \in [Boarders -> Nat]
        /\ NoTask \in Nat
    BY DEF BoardInv, BoardTypes, NoTask
  <2>3. [copy[w] EXCEPT !.row = row] = one /\ one \in [task : Nat, row : Task]
    BY <2>2
  <2>4. child' = [child EXCEPT ![w] = NoTask]
    BY <1>1, <2>2
  <2> QED
    BY <2>1, <2>2, <2>3, <2>4
<1>3. Sound(rows, undated, copy[w].task, row)
  BY <1>1
<1>4. /\ IsFiniteSet(DOMAIN rows') /\ DOMAIN rows' = 1 .. Cardinality(DOMAIN rows')
      /\ rows' \in [DOMAIN rows' -> Task]
      /\ RowsSound' /\ Kept(rows, undated, rows', undated')
      /\ Sound(rows', undated', copy[w].task, row)
  BY <1>1, <1>3, SavingKeeps DEF BoardInv, Sound
<1> QED
  BY <1>1, <1>2, <1>4, ClientStep

\* Every step of the board's keeps the invariant.
LEMMA BoardStep ==
  ASSUME BoardInv, BoardNext
  PROVE  BoardInv'
<1>1. /\ BoardTypes /\ RowsSound /\ CopiesSound /\ ChildrenSaved /\ ToolsSound
      /\ rows \in [DOMAIN rows -> Task] /\ copy \in [Boarders -> [task : Nat, row : Task]]
      /\ child \in [Boarders -> Nat] /\ NoTask \in Nat
      /\ tool \in [Servers -> [call : {"none", "look", "claim", "complete"}, task : Nat, row : Task]]
  BY DEF BoardInv, BoardTypes, NoTask
<1>2. /\ NewId \in Nat \ {NoTask} /\ NewId \notin DOMAIN rows /\ DOMAIN rows \subseteq Nat
      /\ NoTask \notin DOMAIN rows
  BY <1>1, NewIdIsNew
<1>3. /\ NoCopy \in [task : Nat, row : Task] /\ NoCopy.task = NoTask
      /\ NoTool \in [call : {"none", "look", "claim", "complete"}, task : Nat, row : Task]
      /\ NoTool.call = "none"
  BY FreshType DEF NoCopy, NoTool, NoTask
<1>4. ASSUME NEW w \in Boarders, CreateTask(w) PROVE BoardInv'
  <2> DEFINE one == [task |-> NewId, row |-> Fresh(NoTask)]
  <2>1. /\ rows' = Saved(NewId, Fresh(NoTask)) /\ undated' = undated /\ tool' = tool
        /\ copy' = [copy EXCEPT ![w] = one] /\ child' = child /\ child[w] = NoTask
    BY <1>4 DEF CreateTask
  <2>2. /\ Fresh(NoTask) \in Task /\ Fresh(NoTask).subs = {} /\ Fresh(NoTask).status = "pending"
    BY <1>1, FreshType
  <2>3. /\ IsFiniteSet(DOMAIN rows') /\ DOMAIN rows' = 1 .. Cardinality(DOMAIN rows')
        /\ rows' \in [DOMAIN rows' -> Task]
        /\ RowsSound' /\ Kept(rows, undated, rows', undated')
        /\ Sound(rows', undated', NewId, Fresh(NoTask))
    BY <1>1, <2>1, <2>2, SavingKeeps
  <2>4. one \in [task : Nat, row : Task] /\ child' = [child EXCEPT ![w] = NoTask]
    BY <1>1, <1>2, <2>1, <2>2
  <2> QED
    BY <1>1, <2>1, <2>3, <2>4, ClientStep
<1>5. ASSUME NEW w \in Boarders, Open(w) PROVE BoardInv'
  <2>1. PICK t \in DOMAIN rows : copy' = [copy EXCEPT ![w] = [task |-> t, row |-> rows[t]]]
    BY <1>5 DEF Open
  <2>2. /\ rows' = rows /\ child' = child /\ tool' = tool /\ undated' = undated /\ child[w] = NoTask
    BY <1>5 DEF Open
  <2>3. PICK one : one = [task |-> t, row |-> rows[t]]
    OBVIOUS
  <2>4. /\ one \in [task : Nat, row : Task] /\ copy' = [copy EXCEPT ![w] = one]
        /\ child' = [child EXCEPT ![w] = NoTask] /\ NoTask \in Nat
    BY <1>1, <1>2, <2>1, <2>2, <2>3
  <2>5. Sound(rows', undated', one.task, one.row)
    BY <1>1, <2>2, <2>3 DEF RowsSound
  <2>6. /\ Kept(rows, undated, rows', undated') /\ RowsSound'
        /\ IsFiniteSet(DOMAIN rows') /\ DOMAIN rows' = 1 .. Cardinality(DOMAIN rows')
        /\ rows' \in [DOMAIN rows' -> Task]
    BY <1>1, <2>2, SameTable
  <2> QED
    BY <1>1, <2>2, <2>4, <2>5, <2>6, ClientStep
<1>6. ASSUME NEW w \in Boarders, StartTask(w) \/ Submit(w) \/ FailTask(w) \/ Complete(w) \/ Add(w)
      PROVE  BoardInv'
  <2>1. PICK row \in {[copy[w].row EXCEPT !.status = "in_progress"],
                      [copy[w].row EXCEPT !.status = "review"],
                      [copy[w].row EXCEPT !.status = "failed"],
                      [copy[w].row EXCEPT !.status = "done", !.dated = TRUE],
                      [copy[w].row EXCEPT !.added = @ \cup {w}]} : Keep(w, row)
    BY <1>6 DEF StartTask, Submit, FailTask, Complete, Add
  <2>2. copy[w].row \in Task /\ {"in_progress", "review", "failed", "done"} \subseteq Column
    BY <1>1 DEF Column
  <2>3. /\ row \in Task /\ row.subs = copy[w].row.subs
        /\ row.status = "done" =>
             row.dated \/ (row.dated = copy[w].row.dated /\ copy[w].row.status = "done")
    <3> DEFINE old == copy[w].row
    <3>1. old \in Task
      BY <2>2
    <3>2. row \in {[old EXCEPT !.status = "in_progress"], [old EXCEPT !.status = "review"],
                  [old EXCEPT !.status = "failed"], [old EXCEPT !.status = "done", !.dated = TRUE],
                  [old EXCEPT !.added = @ \cup {w}]}
      BY <2>1
    <3> HIDE DEF old
    <3>3. /\ row \in Task /\ row.subs = old.subs
          /\ row.status = "done" => row.dated \/ (row.dated = old.dated /\ old.status = "done")
      <4>1. CASE \E status \in {"in_progress", "review", "failed"} :
                   row = [old EXCEPT !.status = status]
        BY <2>2, <3>1, <4>1 DEF Task
      <4>2. CASE row = [old EXCEPT !.status = "done", !.dated = TRUE]
        BY <2>2, <3>1, <4>2 DEF Task
      <4>3. CASE row = [old EXCEPT !.added = @ \cup {w}]
        BY <3>1, <4>3 DEF Task
      <4> QED
        BY <3>2, <4>1, <4>2, <4>3
    <3> QED
      BY <3>3 DEF old
  <2>4. copy[w].task # NoTask => Sound(rows, undated, copy[w].task, row)
    BY <1>1, <2>3 DEF CopiesSound, Sound
  <2> QED
    BY <2>1, <2>3, <2>4, KeepStep
<1>7. ASSUME NEW w \in Boarders, SaveSubtask(w) PROVE BoardInv'
  <2> DEFINE up == copy[w].task
  <2>1. /\ up # NoTask /\ child[w] = NoTask
        /\ rows' = Saved(NewId, Fresh(up)) /\ child' = [child EXCEPT ![w] = NewId]
        /\ copy' = copy /\ tool' = tool /\ undated' = undated
    BY <1>7 DEF SaveSubtask
  <2>2. /\ up \in Nat /\ copy[w] \in [task : Nat, row : Task] /\ copy' = [copy EXCEPT ![w] = copy[w]]
    BY <1>1, <2>1
  <2>3. /\ Fresh(up) \in Task /\ Fresh(up).subs = {} /\ Fresh(up).status = "pending"
        /\ Fresh(up).parent = up
    BY <2>2, FreshType
  <2>4. /\ IsFiniteSet(DOMAIN rows') /\ DOMAIN rows' = 1 .. Cardinality(DOMAIN rows')
        /\ rows' \in [DOMAIN rows' -> Task]
        /\ RowsSound' /\ Kept(rows, undated, rows', undated')
    BY <1>1, <2>1, <2>3, SavingKeeps
  <2>5. NewId \in DOMAIN rows' /\ rows'[NewId].parent = up
    <3>1. /\ DOMAIN Saved(NewId, Fresh(up)) = DOMAIN rows \cup {NewId}
          /\ Saved(NewId, Fresh(up))[NewId] = Fresh(up)
      BY <1>1, <1>2, <2>3, SavedIs
    <3> QED
      BY <2>1, <2>3, <3>1
  <2>6. Sound(rows', undated', up, copy[w].row)
    BY <1>1, <2>1, <2>4, SoundStays DEF CopiesSound
  <2> QED
    BY <1>2, <2>1, <2>2, <2>4, <2>5, <2>6, ClientStep
<1>8. ASSUME NEW w \in Boarders, ListSubtask(w) PROVE BoardInv'
  <2> DEFINE row == [copy[w].row EXCEPT !.subs = @ \cup {child[w]}]
             one == [task |-> copy[w].task, row |-> row]
  <2>1. /\ child[w] # NoTask /\ rows' = Saved(copy[w].task, row)
        /\ copy' = [copy EXCEPT ![w] = [copy[w] EXCEPT !.row = row]]
        /\ child' = [child EXCEPT ![w] = NoTask] /\ tool' = tool /\ undated' = undated
    BY <1>8 DEF ListSubtask
  <2>2. /\ copy[w] \in [task : Nat, row : Task] /\ child[w] \in Nat /\ "done" \in Column
    BY <1>1 DEF Column
  <2>3. /\ row \in Task /\ row.status = copy[w].row.status /\ row.dated = copy[w].row.dated
        /\ row.subs = copy[w].row.subs \cup {child[w]}
    <3> DEFINE old == copy[w].row
    <3>1. old \in Task /\ row = [old EXCEPT !.subs = @ \cup {child[w]}]
      BY <2>2
    <3> HIDE DEF old, row
    <3>2. /\ row \in Task /\ row.status = old.status /\ row.dated = old.dated
          /\ row.subs = old.subs \cup {child[w]}
      BY <2>2, <3>1 DEF Task
    <3> QED
      BY <3>2 DEF old
  <2> HIDE DEF row
  <2>4. [copy[w] EXCEPT !.row = row] = one /\ one \in [task : Nat, row : Task]
    BY <2>2, <2>3
  <2>5. /\ copy[w].task # NoTask /\ child[w] \in DOMAIN rows
        /\ rows[child[w]].parent = copy[w].task
    BY <1>1, <2>1 DEF ChildrenSaved
  <2>6. /\ copy[w].task \in DOMAIN rows
        /\ \A s \in row.subs : s \in DOMAIN rows /\ rows[s].parent = copy[w].task
        /\ row.status = "done" => row.dated \/ copy[w].task \in undated'
    BY <1>1, <2>1, <2>3, <2>5 DEF CopiesSound, Sound
  <2>7. /\ IsFiniteSet(DOMAIN rows') /\ DOMAIN rows' = 1 .. Cardinality(DOMAIN rows')
        /\ rows' \in [DOMAIN rows' -> Task]
        /\ RowsSound' /\ Kept(rows, undated, rows', undated')
        /\ Sound(rows', undated', copy[w].task, row)
    BY <1>1, <2>1, <2>3, <2>6, SavingKeeps
  <2> QED
    BY <1>1, <2>1, <2>4, <2>7, ClientStep
<1>9. ASSUME NEW w \in Boarders, Die(w) PROVE BoardInv'
  <2>1. /\ rows' = rows /\ tool' = tool /\ undated' = undated
        /\ copy' = [copy EXCEPT ![w] = NoCopy] /\ child' = [child EXCEPT ![w] = NoTask]
    BY <1>9 DEF Die
  <2> QED
    BY <1>1, <1>3, <2>1, SameTable, ClientStep
<1>10. ASSUME NEW status \in {"pending", "done"}, CreateOnBoard(status) PROVE BoardInv'
  <2> DEFINE row == [Fresh(NoTask) EXCEPT !.status = status]
  <2>1. /\ rows' = Saved(NewId, row) /\ copy' = copy /\ child' = child /\ tool' = tool
        /\ undated \subseteq undated' /\ (status = "done" => NewId \in undated')
    BY <1>10 DEF CreateOnBoard
  <2>2. row \in Task /\ row.subs = {} /\ row.status = status
    BY <1>1, FreshType DEF Task, Column
  <2> HIDE DEF row
  <2>3. /\ IsFiniteSet(DOMAIN rows') /\ DOMAIN rows' = 1 .. Cardinality(DOMAIN rows')
        /\ rows' \in [DOMAIN rows' -> Task]
        /\ RowsSound' /\ Kept(rows, undated, rows', undated')
    BY <1>1, <2>1, <2>2, SavingKeeps
  <2> QED
    BY <1>3, <2>1, <2>3, NobodysStep
<1>11. ASSUME NEW t \in 1 .. MaxTasks, NEW status \in Column, MoveOnBoard(t, status) PROVE BoardInv'
  <2> DEFINE row == [rows[t] EXCEPT !.status = status, !.dated = @ \/ status = "done"]
  <2>1. /\ t \in DOMAIN rows /\ rows' = [rows EXCEPT ![t] = row]
        /\ copy' = copy /\ child' = child /\ tool' = tool /\ undated' = undated
    BY <1>11 DEF MoveOnBoard
  <2>2. rows[t] \in Task
    BY <1>1, <2>1
  <2>3. /\ row \in Task /\ row.subs = rows[t].subs /\ row.parent = rows[t].parent
        /\ (row.status = "done" => row.dated)
    BY <2>2 DEF Task
  <2> HIDE DEF row
  <2>4. /\ DOMAIN rows' = DOMAIN rows /\ rows'[t] = row /\ rows' \in [DOMAIN rows' -> Task]
        /\ \A u \in DOMAIN rows : u # t => rows'[u] = rows[u]
    BY <1>1, <2>1, <2>3
  <2>5. Kept(rows, undated, rows', undated')
    BY <2>1, <2>3, <2>4 DEF Kept
  <2>6. RowsSound'
    <3> SUFFICES ASSUME NEW u \in DOMAIN rows PROVE Sound(rows', undated', u, rows'[u])
      BY <2>4 DEF RowsSound
    <3>1. Sound(rows', undated', u, rows[u])
      BY <1>1, <2>5, SoundStays DEF RowsSound
    <3> QED
      BY <2>3, <2>4, <3>1 DEF Sound
  <2>7. IsFiniteSet(DOMAIN rows') /\ DOMAIN rows' = 1 .. Cardinality(DOMAIN rows')
    BY <1>1, <2>4 DEF BoardTypes
  <2> QED
    BY <2>1, <2>4, <2>5, <2>6, <2>7, NobodysStep
<1>12. ASSUME NEW s \in Servers, ListPending(s) PROVE BoardInv'
  <2>1. PICK t \in DOMAIN rows : tool' = [tool EXCEPT ![s].call = "look", ![s].task = t]
    BY <1>12 DEF ListPending
  <2>2. rows' = rows /\ copy' = copy /\ child' = child /\ undated' = undated /\ tool[s] = NoTool
    BY <1>12 DEF ListPending
  <2> DEFINE one == [NoTool EXCEPT !.call = "look", !.task = t]
  <2>3. tool' = [tool EXCEPT ![s] = one]
    BY <1>1, <2>1, <2>2
  <2>4. /\ one \in [call : {"none", "look", "claim", "complete"}, task : Nat, row : Task]
        /\ one.call = "look" /\ one.task = t
    BY <1>2, <1>3
  <2> HIDE DEF one
  <2> QED
    BY <2>2, <2>3, <2>4, SameTable, ServerStep
<1>13. ASSUME NEW s \in Servers, ReadForClaim(s) \/ ReadForComplete(s) PROVE BoardInv'
  <2>1. PICK q \in {"claim", "complete"}, t \in DOMAIN rows : ReadTask(s, q, t)
    BY <1>1, <1>13 DEF ReadForClaim, ReadForComplete, ToolsSound
  <2>2. undated' = undated
    BY <1>13 DEF ReadForClaim, ReadForComplete, ReadTask
  <2> DEFINE one == [call |-> q, task |-> t, row |-> rows[t]]
  <2>3. rows' = rows /\ copy' = copy /\ child' = child /\ tool' = [tool EXCEPT ![s] = one]
    BY <2>1 DEF ReadTask
  <2>4. /\ one \in [call : {"none", "look", "claim", "complete"}, task : Nat, row : Task]
        /\ one.call # "look" /\ Sound(rows', undated', one.task, one.row)
    BY <1>1, <1>2, <2>2, <2>3 DEF RowsSound
  <2> HIDE DEF one
  <2> QED
    BY <2>2, <2>3, <2>4, SameTable, ServerStep
<1>14. ASSUME NEW s \in Servers, ClaimTask(s) \/ CompleteByTool(s) PROVE BoardInv'
  <2> DEFINE t == tool[s].task
  <2>1. PICK status \in {"in_progress", "done"} :
          /\ rows' = Saved(t, [tool[s].row EXCEPT !.status = status])
          /\ tool[s].call \in {"claim", "complete"}
          /\ undated \subseteq undated' /\ (status = "done" => t \in undated')
    BY <1>14 DEF ClaimTask, CompleteByTool
  <2>2. copy' = copy /\ child' = child /\ tool' = [tool EXCEPT ![s] = NoTool]
    BY <1>14 DEF ClaimTask, CompleteByTool
  <2> DEFINE row == [tool[s].row EXCEPT !.status = status]
  <2>3. rows' = Saved(t, row) /\ tool[s].row \in Task /\ status \in Column
    BY <1>1, <2>1 DEF Column
  <2>4. row \in Task /\ row.status = status /\ row.subs = tool[s].row.subs
    BY <2>3 DEF Task
  <2> HIDE DEF row
  <2>5. /\ t \in DOMAIN rows
        /\ \A x \in row.subs : x \in DOMAIN rows /\ rows[x].parent = t
    BY <1>1, <2>1, <2>4 DEF ToolsSound, Sound
  <2>6. /\ IsFiniteSet(DOMAIN rows') /\ DOMAIN rows' = 1 .. Cardinality(DOMAIN rows')
        /\ rows' \in [DOMAIN rows' -> Task]
        /\ RowsSound' /\ Kept(rows, undated, rows', undated')
    BY <1>1, <2>1, <2>3, <2>4, <2>5, SavingKeeps
  <2> QED
    BY <1>3, <2>2, <2>6, ServerStep
<1> QED
  BY <1>4, <1>5, <1>6, <1>7, <1>8, <1>9, <1>10, <1>11, <1>12, <1>13, <1>14 DEF BoardNext

\* What the board and its clients hold is in order at the start.
LEMMA BoardStarts ==
  ASSUME BridgeInit
  PROVE  BoardInv
<1>1. /\ DOMAIN rows = {} /\ copy = [w \in Boarders |-> NoCopy]
      /\ child = [w \in Boarders |-> NoTask] /\ tool = [s \in Servers |-> NoTool]
  BY DEF BridgeInit, BoardInit
<1>2. /\ NoCopy \in [task : Nat, row : Task] /\ NoCopy.task = NoTask /\ NoTask \in Nat
      /\ NoTool \in [call : {"none", "look", "claim", "complete"}, task : Nat, row : Task]
      /\ NoTool.call = "none"
  BY FreshType DEF NoCopy, NoTool, NoTask
<1>3. /\ IsFiniteSet(DOMAIN rows) /\ DOMAIN rows = 1 .. Cardinality(DOMAIN rows)
      /\ rows \in [DOMAIN rows -> Task]
  <2>1. IsFiniteSet({}) /\ Cardinality({}) = 0 /\ 1 .. 0 = {}
    BY FS_EmptySet
  <2>2. rows = [t \in {} |-> NoCopy]
    BY DEF BridgeInit, BoardInit
  <2> QED
    BY <1>1, <2>1, <2>2
<1> QED
  BY <1>1, <1>2, <1>3 DEF BoardInv, BoardTypes, RowsSound, CopiesSound, ChildrenSaved, ToolsSound

\* BoardInv holds of the bridge, whatever its other parts do.
LEMMA BoardInvHolds == BridgeSpec => []BoardInv
<1>1. BridgeInit => BoardInv
  BY BoardStarts
<1>2. BoardInv /\ [BridgeNext]_bridgeVars => BoardInv'
  <2> SUFFICES ASSUME BoardInv, [BridgeNext]_bridgeVars PROVE BoardInv'
    OBVIOUS
  <2>1. CASE BoardNext
    BY <2>1, BoardStep
  <2>2. CASE UNCHANGED tasksOnly
    BY <2>2 DEF tasksOnly, BoardInv, BoardTypes, RowsSound, CopiesSound, ChildrenSaved,
                ToolsSound, Sound
  <2> QED
    BY <2>1, <2>2 DEF BridgeNext, bridgeVars, boardVars, tasksOnly
<1> QED
  BY <1>1, <1>2, PTL DEF BridgeSpec

\* However many clients and servers write back records they read earlier, and
\* wherever one dies: a listed subtask is in the table and has the parent that
\* lists it, and a task that is done says when, unless it was made done by a
\* call that dates nothing (save_task and the board's two writes).
THEOREM BoardStaysSound == BridgeSpec => []BoardSound
<1>1. BoardInv => BoardSound
  BY DEF BoardInv, RowsSound, Sound, BoardSound
<1> QED
  BY <1>1, BoardInvHolds, PTL

-----------------------------------------------------------------------------
(***************************************************************************)
(* Presence                                                                *)
(***************************************************************************)

IsSeq(s) == s \in Seq({s[i] : i \in DOMAIN s})
Distinct(s) == \A i, j \in DOMAIN s : s[i] = s[j] => i = j

\* A request and a page have their fields; a page that is closed asks for no list.
Request(x) ==
  x \in [kind : {"start", "beat", "status", "end"}, client : {x.client}, id : {x.id},
         at : {x.at}, todo : {x.todo}, msg : {x.msg}, awaited : {x.awaited}]
Page(x) ==
  /\ x \in [on : BOOLEAN, view : {x.view}, list : {x.list}, fresh : BOOLEAN, stale : BOOLEAN]
  /\ x.on \/ x.list = NoList

PresenceTypes ==
  /\ IsSeq(calls) /\ \A i \in DOMAIN calls : Request(calls[i])
  /\ IsSeq(subscribers) /\ Distinct(subscribers)
  /\ page = [v \in Viewers |-> page[v]] /\ \A v \in Viewers : Page(page[v])

\* Requests tell subscribers, each of them once, and one request at most may go
\* on; a page that is open is a subscriber.
Queued ==
  /\ \A i \in DOMAIN calls : calls[i].at = "sent" => calls[i].todo = << >>
  /\ \A i \in DOMAIN calls : calls[i].todo \in Seq(ToSet(subscribers)) /\ Distinct(calls[i].todo)
  /\ \A i, k \in DOMAIN calls : Ready(calls[i]) /\ Ready(calls[k]) => i = k
  /\ \A v \in Viewers : page[v].on => v \in ToSet(subscribers)

\* The registry will have an agent whose session is gone only until an end that
\* has to tell all that the start has yet to tell.
JoinsFollowed ==
  \A i \in DOMAIN calls : calls[i].at = "joined" =>
    \/ AgentOfCall(i) \in DOMAIN sessions
    \/ \E k \in DOMAIN calls :
         /\ i < k /\ calls[k].at = "left" /\ AgentOfCall(k) = AgentOfCall(i)
         /\ ToSet(calls[i].todo) \subseteq ToSet(calls[k].todo)

\* What is under way to a page ends with what the store has; where nothing is,
\* the page has it, and so has the list that it is about to show.
UpToDate(v, a, view) == Coming(v, a) # {} \/ Session(view, a) = Session(sessions, a)

PagesSound ==
  \A v \in Viewers : page[v].on => \A a \in Agents :
    /\ Coming(v, a) # {} => LastSays(v, a)
    /\ ~page[v].stale => UpToDate(v, a, page[v].view)
    /\ page[v].list # NoList /\ ~page[v].fresh => UpToDate(v, a, page[v].list[2])

PresenceInv == PresenceTypes /\ Queued /\ JoinsFollowed /\ DiscoveredIsOnline /\ PagesSound

-----------------------------------------------------------------------------
\* Taking an element out of a sequence, and adding one.
LEMMA TakenOut ==
  ASSUME NEW s, IsSeq(s), NEW i \in DOMAIN s
  PROVE  LET t == RemoveAt(s, i)
         IN /\ IsSeq(t) /\ Len(s) \in Nat /\ Len(t) = Len(s) - 1
            /\ DOMAIN s = 1 .. Len(s) /\ DOMAIN t = 1 .. Len(s) - 1
            /\ \A k \in DOMAIN t : t[k] = IF k < i THEN s[k] ELSE s[k + 1]
<1> DEFINE S == {s[k] : k \in DOMAIN s}
           t == RemoveAt(s, i)
<1>1. s \in Seq(S) /\ Len(s) \in Nat /\ DOMAIN s = 1 .. Len(s) /\ i \in 1 .. Len(s)
  BY DEF IsSeq
<1>2. PICK l, m : /\ l = SubSeq(s, 1, i - 1) /\ m = i + 1
  OBVIOUS
<1>3. PICK r : r = SubSeq(s, m, Len(s))
  OBVIOUS
<1>4. t = l \o r
  BY <1>2, <1>3 DEF RemoveAt
<1>5. /\ l \in Seq(S) /\ Len(l) = i - 1
      /\ \A k \in 1 .. i - 1 : l[k] = s[k]
  <2>1. \A k \in 1 .. i - 1 : s[k] \in S
    BY <1>1
  <2>2. /\ l \in Seq(S) /\ Len(l) = IF 1 <= i - 1 THEN i - 1 - 1 + 1 ELSE 0
        /\ \A k \in 1 .. i - 1 - 1 + 1 : l[k] = s[1 + k - 1]
    BY <1>1, <1>2, <2>1, SubSeqProperties
  <2> QED
    BY <1>1, <2>2
<1>6. /\ r \in Seq(S) /\ Len(r) = Len(s) - i
      /\ \A k \in 1 .. Len(s) - i : r[k] = s[i + k]
  <2>1. m \in Int /\ Len(s) \in Int /\ \A k \in m .. Len(s) : s[k] \in S
    BY <1>1, <1>2
  <2>2. /\ r \in Seq(S) /\ Len(r) = IF m <= Len(s) THEN Len(s) - m + 1 ELSE 0
        /\ \A k \in 1 .. Len(s) - m + 1 : r[k] = s[m + k - 1]
    BY <1>3, <2>1, SubSeqProperties
  <2>3. Len(r) = Len(s) - i /\ Len(s) - m + 1 = Len(s) - i
    BY <1>1, <1>2, <2>2
  <2>4. ASSUME NEW k \in 1 .. Len(s) - i PROVE r[k] = s[i + k]
    <3>1. m + k - 1 = i + k
      BY <1>1, <1>2
    <3> QED
      BY <2>2, <2>3, <3>1
  <2> QED
    BY <2>2, <2>3, <2>4
<1> HIDE DEF t
<1>8. t \in Seq(S) /\ Len(t) = Len(s) - 1 /\ DOMAIN t = 1 .. Len(s) - 1
  <2>1. /\ t \in Seq(S) /\ Len(t) = Len(l) + Len(r)
    BY <1>4, <1>5, <1>6, ConcatProperties
  <2> QED
    BY <1>1, <1>5, <1>6, <2>1
<1>9. \A k \in DOMAIN t : t[k] = IF k < i THEN s[k] ELSE s[k + 1]
  <2>1. \A k \in 1 .. Len(l) + Len(r) : t[k] = IF k <= Len(l) THEN l[k] ELSE r[k - Len(l)]
    BY <1>4, <1>5, <1>6, ConcatProperties
  <2>2. ASSUME NEW k \in DOMAIN t, k < i PROVE t[k] = s[k]
    <3>1. k \in 1 .. Len(l) + Len(r) /\ k <= Len(l) /\ k \in 1 .. i - 1
      <4>1. k \in 1 .. Len(s) - 1 /\ Len(s) \in Nat /\ i \in 1 .. Len(s)
        BY <1>1, <1>8
      <4>2. Len(l) = i - 1 /\ Len(r) = Len(s) - i
        BY <1>5, <1>6
      <4> QED
        BY <2>2, <4>1, <4>2
    <3> QED
      BY <1>5, <2>1, <3>1
  <2>3. ASSUME NEW k \in DOMAIN t, ~(k < i) PROVE t[k] = s[k + 1]
    <3>1. k \in 1 .. Len(l) + Len(r) /\ ~(k <= Len(l)) /\ k - Len(l) \in 1 .. Len(s) - i
          /\ i + (k - Len(l)) = k + 1
      <4>1. k \in 1 .. Len(s) - 1 /\ Len(s) \in Nat /\ i \in 1 .. Len(s)
        BY <1>1, <1>8
      <4>2. Len(l) = i - 1 /\ Len(r) = Len(s) - i
        BY <1>5, <1>6
      <4> QED
        BY <2>3, <4>1, <4>2
    <3>2. t[k] = r[k - Len(l)]
      BY <2>1, <3>1
    <3>3. r[k - Len(l)] = s[i + (k - Len(l))]
      BY <1>6, <3>1
    <3> QED
      BY <3>1, <3>2, <3>3
  <2> QED
    BY <2>2, <2>3
<1>7. IsSeq(t)
  <2> DEFINE T == {t[k] : k \in DOMAIN t}
  <2>1. t \in [1 .. Len(s) - 1 -> T] /\ Len(s) - 1 \in Nat
    BY <1>1, <1>8
  <2>2. t \in UNION {[1 .. n -> T] : n \in Nat}
    BY <2>1
  <2> QED
    BY <2>2, SeqDef DEF IsSeq
<1> QED
  BY <1>1, <1>7, <1>8, <1>9 DEF t

LEMMA Added ==
  ASSUME NEW s, IsSeq(s), NEW e
  PROVE  /\ IsSeq(Append(s, e)) /\ Len(s) \in Nat /\ DOMAIN s = 1 .. Len(s)
         /\ Len(Append(s, e)) = Len(s) + 1 /\ DOMAIN Append(s, e) = 1 .. Len(s) + 1
         /\ \A i \in DOMAIN s : Append(s, e)[i] = s[i]
         /\ Append(s, e)[Len(s) + 1] = e
         /\ ToSet(Append(s, e)) = ToSet(s) \cup {e}
<1> DEFINE S == {s[i] : i \in DOMAIN s}
           T == S \cup {e}
           t == Append(s, e)
<1>1. s \in Seq(S) /\ s \in Seq(T)
  BY DEF IsSeq
<1>2. /\ Len(s) \in Nat /\ DOMAIN s = 1 .. Len(s)
      /\ Len(t) = Len(s) + 1 /\ DOMAIN t = 1 .. Len(s) + 1
      /\ \A i \in DOMAIN s : t[i] = s[i]
      /\ t[Len(s) + 1] = e
      /\ t \in Seq(T)
  BY <1>1
<1>3. {t[i] : i \in DOMAIN t} = T
  BY <1>2
<1> QED
  BY <1>2, <1>3 DEF IsSeq, ToSet

-----------------------------------------------------------------------------
LEMMA EmptySet == ToSet(<< >>) = {} /\ DOMAIN << >> = {}
BY DEF ToSet

\* The last of the messages under way to a page says x.
Says(v, a, x) ==
  \E i \in Coming(v, a) : calls[i].msg.id = x /\ \A k \in Coming(v, a) : k <= i

\* Request i is taken out of its place, and perhaps put last.
TakesOut(i) ==
  /\ i \in DOMAIN calls /\ calls[i].todo = << >>
  /\ Len(calls) \in Nat /\ DOMAIN calls = 1 .. Len(calls)
  /\ Len(calls') \in {Len(calls) - 1, Len(calls)} /\ DOMAIN calls' = 1 .. Len(calls')
  /\ \A k \in 1 .. Len(calls) - 1 : calls'[k] = IF k < i THEN calls[k] ELSE calls[k + 1]

\* The other requests keep their order.
LEMMA Shifted ==
  ASSUME NEW i, TakesOut(i)
  PROVE  LET To(j) == IF j < i THEN j ELSE j - 1
         IN /\ \A j \in DOMAIN calls \ {i} : To(j) \in 1 .. Len(calls) - 1 /\ calls'[To(j)] = calls[j]
            /\ \A k \in 1 .. Len(calls) - 1 : \E j \in DOMAIN calls \ {i} : k = To(j)
            /\ \A j, k \in DOMAIN calls \ {i} : j <= k => To(j) <= To(k)
            /\ \A j, k \in DOMAIN calls \ {i} : j < k => To(j) < To(k)
<1> DEFINE To(j) == IF j < i THEN j ELSE j - 1
<1>1. Len(calls) \in Nat /\ i \in 1 .. Len(calls) /\ DOMAIN calls = 1 .. Len(calls)
  BY DEF TakesOut
<1>2. ASSUME NEW j \in DOMAIN calls \ {i}
      PROVE  To(j) \in 1 .. Len(calls) - 1 /\ calls'[To(j)] = calls[j]
  <2>1. CASE j < i
    <3>1. j \in 1 .. Len(calls) - 1
      BY <1>1, <2>1
    <3>2. calls'[j] = calls[j]
      BY <2>1, <3>1 DEF TakesOut
    <3> QED
      BY <2>1, <3>1, <3>2
  <2>2. CASE ~(j < i)
    <3>1. j - 1 \in 1 .. Len(calls) - 1 /\ ~(j - 1 < i) /\ j - 1 + 1 = j
      BY <1>1, <2>2
    <3>2. calls'[j - 1] = calls[j - 1 + 1]
      BY <3>1 DEF TakesOut
    <3> QED
      BY <2>2, <3>1, <3>2
  <2> QED
    BY <2>1, <2>2
<1>3. ASSUME NEW k \in 1 .. Len(calls) - 1
      PROVE  \E j \in DOMAIN calls \ {i} : k = To(j)
  <2>1. CASE k < i
    BY <1>1, <2>1
  <2>2. CASE ~(k < i)
    <3>1. k + 1 \in DOMAIN calls \ {i} /\ k = To(k + 1)
      BY <1>1, <2>2
    <3> QED
      BY <3>1
  <2> QED
    BY <2>1, <2>2
<1>4. /\ \A j, k \in DOMAIN calls \ {i} : j <= k => To(j) <= To(k)
      /\ \A j, k \in DOMAIN calls \ {i} : j < k => To(j) < To(k)
  BY <1>1
<1> QED
  BY <1>2, <1>3, <1>4

\* What is under way to a page does not change when a request that has nobody
\* to tell is taken out.
LEMMA MessagesMove ==
  ASSUME NEW i, TakesOut(i), NEW v, NEW a,
         Len(calls') = Len(calls) => Len(calls) \notin Coming(v, a)'
  PROVE  /\ \A x : Says(v, a, x) => Says(v, a, x)'
         /\ Coming(v, a) = {} <=> Coming(v, a)' = {}
<1> DEFINE To(j) == IF j < i THEN j ELSE j - 1
<1>1. /\ \A j \in DOMAIN calls \ {i} : To(j) \in 1 .. Len(calls) - 1 /\ calls'[To(j)] = calls[j]
      /\ \A k \in 1 .. Len(calls) - 1 : \E j \in DOMAIN calls \ {i} : k = To(j)
      /\ \A j, k \in DOMAIN calls \ {i} : j <= k => To(j) <= To(k)
  BY Shifted
<1> HIDE DEF To
<1>2. i \notin Coming(v, a)
  BY EmptySet DEF Coming, TakesOut
<1>3. ASSUME NEW k \in Coming(v, a)'
      PROVE  \E j \in Coming(v, a) : k = To(j)
  <2>1. k \in 1 .. Len(calls) - 1
    <3>1. k \in 1 .. Len(calls') /\ Len(calls) \in Nat
      BY <1>3 DEF Coming, TakesOut
    <3>2. Len(calls') = Len(calls) => k # Len(calls)
      BY <1>3
    <3>3. Len(calls') \in {Len(calls) - 1, Len(calls)}
      BY DEF TakesOut
    <3> QED
      BY <3>1, <3>2, <3>3
  <2>2. PICK j \in DOMAIN calls \ {i} : k = To(j)
    BY <1>1, <2>1
  <2> QED
    BY <1>1, <1>3, <2>2 DEF Coming
<1>4. ASSUME NEW j \in Coming(v, a)
      PROVE  To(j) \in Coming(v, a)' /\ calls'[To(j)] = calls[j]
  <2>1. j \in DOMAIN calls \ {i}
    BY <1>2 DEF Coming
  <2>2. To(j) \in DOMAIN calls'
    <3>1. To(j) \in 1 .. Len(calls) - 1 /\ Len(calls) \in Nat
      BY <1>1, <2>1 DEF TakesOut
    <3>2. Len(calls') \in {Len(calls) - 1, Len(calls)} /\ DOMAIN calls' = 1 .. Len(calls')
      BY DEF TakesOut
    <3> QED
      BY <3>1, <3>2
  <2> QED
    BY <1>1, <2>1, <2>2 DEF Coming
<1>5. ASSUME NEW x, Says(v, a, x) PROVE Says(v, a, x)'
  <2>1. PICK j \in Coming(v, a) : calls[j].msg.id = x /\ \A k \in Coming(v, a) : k <= j
    BY <1>5 DEF Says
  <2>2. \A k \in Coming(v, a)' : k <= To(j)
    BY <1>1, <1>2, <1>3, <2>1 DEF Coming
  <2> QED
    BY <1>4, <2>1, <2>2 DEF Says
<1> QED
  BY <1>3, <1>4, <1>5

\* What the pages show of an agent stays right when they are told of its session.
LEMMA PagesTold ==
  ASSUME Queued, PagesSound, NEW i, TakesOut(i), NEW b,
         Len(calls') = Len(calls), UNCHANGED <<subscribers, page>>,
         calls'[Len(calls)].at # "sent", calls'[Len(calls)].todo = subscribers,
         calls'[Len(calls)].msg.agent = b, calls'[Len(calls)].msg.id = Session(sessions', b),
         \A a : a # b => Session(sessions', a) = Session(sessions, a)
  PROVE  PagesSound'
<1> DEFINE n == Len(calls)
<1>1. n \in Nat /\ n \in DOMAIN calls' /\ \A k \in DOMAIN calls' : k <= n
  BY DEF TakesOut
<1> HIDE DEF n
<1> SUFFICES ASSUME NEW v \in Viewers, page[v].on, NEW a \in Agents
             PROVE  /\ Coming(v, a)' # {} => LastSays(v, a)'
                    /\ ~page[v].stale => UpToDate(v, a, page[v].view)'
                    /\ page[v].list # NoList /\ ~page[v].fresh => UpToDate(v, a, page[v].list[2])'
  BY DEF PagesSound
<1>2. CASE a = b
  <2>1. v \in ToSet(calls'[n].todo)
    BY DEF Queued, n
  <2>2. n \in Coming(v, a)'
    BY <1>1, <1>2, <2>1 DEF Coming, n
  <2>3. \A k \in Coming(v, a)' : k <= n
    BY <1>1 DEF Coming
  <2>4. LastSays(v, a)'
    BY <1>2, <2>2, <2>3 DEF LastSays, n
  <2> QED
    BY <2>2, <2>4 DEF UpToDate
<1>3. CASE a # b
  <2>1. n \notin Coming(v, a)'
    BY <1>3 DEF Coming, n
  <2>2. /\ \A x : Says(v, a, x) => Says(v, a, x)'
        /\ Coming(v, a) = {} <=> Coming(v, a)' = {}
    BY <2>1, MessagesMove DEF n
  <2>3. Session(sessions', a) = Session(sessions, a)
    BY <1>3
  <2>4. LastSays(v, a) => LastSays(v, a)'
    BY <2>2, <2>3 DEF LastSays, Says
  <2> QED
    BY <2>2, <2>3, <2>4 DEF PagesSound, UpToDate
<1> QED
  BY <1>2, <1>3

\* It stays right when no session changes and nobody is told.
LEMMA PagesUntold ==
  ASSUME PagesSound, NEW i, TakesOut(i), UNCHANGED page,
         Len(calls') = Len(calls) => calls'[Len(calls)].todo = << >>,
         \A a : Session(sessions', a) = Session(sessions, a)
  PROVE  PagesSound'
<1> SUFFICES ASSUME NEW v \in Viewers, page[v].on, NEW a \in Agents
             PROVE  /\ Coming(v, a)' # {} => LastSays(v, a)'
                    /\ ~page[v].stale => UpToDate(v, a, page[v].view)'
                    /\ page[v].list # NoList /\ ~page[v].fresh => UpToDate(v, a, page[v].list[2])'
  BY DEF PagesSound
<1>1. Len(calls') = Len(calls) => Len(calls) \notin Coming(v, a)'
  BY EmptySet DEF Coming
<1>2. /\ \A x : Says(v, a, x) => Says(v, a, x)'
      /\ Coming(v, a) = {} <=> Coming(v, a)' = {}
  BY <1>1, MessagesMove
<1>3. LastSays(v, a) => LastSays(v, a)'
  BY <1>2 DEF LastSays, Says
<1> QED
  BY <1>2, <1>3 DEF PagesSound, UpToDate

\* No request but one may go on.
LEMMA QueueMoves ==
  ASSUME PresenceTypes, Queued, NEW i, TakesOut(i), UNCHANGED <<subscribers, page>>,
         Idle \/ Ready(calls[i]),
         Len(calls') = Len(calls) => /\ calls'[Len(calls)].at # "sent"
                                     /\ calls'[Len(calls)].todo \in {subscribers, << >>}
  PROVE  Queued'
<1> DEFINE To(j) == IF j < i THEN j ELSE j - 1
           n == Len(calls)
<1>1. /\ \A j \in DOMAIN calls \ {i} : To(j) \in 1 .. n - 1 /\ calls'[To(j)] = calls[j]
      /\ \A k \in 1 .. n - 1 : \E j \in DOMAIN calls \ {i} : k = To(j)
  BY Shifted
<1>2. \A k \in DOMAIN calls' : \/ k \in 1 .. n - 1
                               \/ k = n /\ Len(calls') = n
  <2>1. /\ n \in Nat /\ DOMAIN calls' = 1 .. Len(calls') /\ Len(calls') \in {n - 1, n}
    BY DEF TakesOut
  <2>2. ASSUME NEW q \in Nat, NEW m \in {q - 1, q}, NEW k \in 1 .. m
        PROVE  k \in 1 .. q - 1 \/ (k = q /\ m = q)
    BY <2>2
  <2> HIDE DEF n
  <2> QED
    BY <2>1, <2>2
<1> HIDE DEF To, n
<1>3. ASSUME NEW k \in DOMAIN calls'
      PROVE  \/ k = n /\ Len(calls') = n
             \/ \E j \in DOMAIN calls \ {i} : calls'[k] = calls[j]
  BY <1>1, <1>2
<1>4. \A j \in DOMAIN calls \ {i} : ~Ready(calls[j])
  <2>1. i \in DOMAIN calls
    BY DEF TakesOut
  <2> QED
    BY <2>1 DEF Queued, Idle
<1>5. \A k \in DOMAIN calls' : Ready(calls'[k]) => k = n
  BY <1>3, <1>4
<1>6. subscribers \in Seq(ToSet(subscribers)) /\ << >> \in Seq(ToSet(subscribers)) /\ Distinct(<< >>)
  BY EmptySet DEF PresenceTypes, IsSeq, ToSet, Distinct
<1>7. ASSUME NEW k \in DOMAIN calls'
      PROVE  /\ calls'[k].at = "sent" => calls'[k].todo = << >>
             /\ calls'[k].todo \in Seq(ToSet(subscribers)) /\ Distinct(calls'[k].todo)
  <2>1. CASE k = n /\ Len(calls') = n
    BY <1>6, <2>1 DEF PresenceTypes, n
  <2>2. CASE \E j \in DOMAIN calls \ {i} : calls'[k] = calls[j]
    BY <2>2 DEF Queued
  <2> QED
    BY <1>3, <2>1, <2>2
<1>8. \A j, k \in DOMAIN calls' : Ready(calls'[j]) /\ Ready(calls'[k]) => j = k
  BY <1>5
<1>9. subscribers' = subscribers /\ page' = page
  OBVIOUS
<1>10. \A v \in Viewers : page'[v].on => v \in ToSet(subscribers')
  BY <1>9 DEF Queued
<1>11. \A k \in DOMAIN calls' :
         /\ calls'[k].at = "sent" => calls'[k].todo = << >>
         /\ calls'[k].todo \in Seq(ToSet(subscribers')) /\ Distinct(calls'[k].todo)
  BY <1>7, <1>9
<1> QED
  BY <1>8, <1>10, <1>11 DEF Queued

\* A request goes on, as the last, or is answered.
LEMMA GoesOnMoves ==
  ASSUME PresenceTypes, NEW i \in DOMAIN calls, calls[i].todo = << >>, NEW x, GoesOn(i, x)
  PROVE  /\ TakesOut(i) /\ Len(calls') = Len(calls) /\ calls'[Len(calls)] = x
         /\ IsSeq(calls') /\ Len(calls) \in DOMAIN calls'
<1> DEFINE s == RemoveAt(calls, i)
<1>1. /\ IsSeq(s) /\ Len(calls) \in Nat /\ Len(s) = Len(calls) - 1
      /\ DOMAIN calls = 1 .. Len(calls) /\ DOMAIN s = 1 .. Len(calls) - 1
      /\ \A k \in DOMAIN s : s[k] = IF k < i THEN calls[k] ELSE calls[k + 1]
  BY TakenOut DEF PresenceTypes
<1>2. calls' = Append(s, x)
  BY DEF GoesOn
<1> HIDE DEF s
<1>3. /\ IsSeq(calls') /\ Len(calls') = Len(s) + 1 /\ DOMAIN calls' = 1 .. Len(s) + 1
      /\ \A k \in DOMAIN s : calls'[k] = s[k]
      /\ calls'[Len(s) + 1] = x
  BY <1>1, <1>2, Added
<1>4. Len(s) + 1 = Len(calls) /\ i \in 1 .. Len(calls)
  BY <1>1
<1> QED
  BY <1>1, <1>3, <1>4 DEF TakesOut

LEMMA AnswerMoves ==
  ASSUME PresenceTypes, NEW i \in DOMAIN calls, calls[i].todo = << >>, Answer(i)
  PROVE  TakesOut(i) /\ Len(calls') = Len(calls) - 1 /\ IsSeq(calls')
BY TakenOut DEF PresenceTypes, Answer, TakesOut

\* The other requests are as they were.
LEMMA TypesMove ==
  ASSUME PresenceTypes, NEW i, TakesOut(i), IsSeq(calls'), UNCHANGED <<subscribers, page>>,
         Len(calls') = Len(calls) => Request(calls'[Len(calls)])
  PROVE  PresenceTypes'
<1>1. \A k \in 1 .. Len(calls) - 1 : \E j \in DOMAIN calls : calls'[k] = calls[j]
  BY Shifted
<1>2. \A k \in DOMAIN calls' : \/ k \in 1 .. Len(calls) - 1
                               \/ k = Len(calls) /\ Len(calls') = Len(calls)
  <2>1. Len(calls) \in Nat /\ DOMAIN calls' = 1 .. Len(calls') /\ Len(calls') \in {Len(calls) - 1, Len(calls)}
    BY DEF TakesOut
  <2>2. ASSUME NEW q \in Nat, NEW m \in {q - 1, q}, NEW k \in 1 .. m
        PROVE  k \in 1 .. q - 1 \/ (k = q /\ m = q)
    BY <2>2
  <2> QED
    BY <2>1, <2>2
<1>3. \A k \in DOMAIN calls' : Request(calls'[k])
  BY <1>1, <1>2 DEF PresenceTypes
<1> QED
  BY <1>3 DEF PresenceTypes

\* Who is told of a start is told of the end that overtook it.
LEMMA JoinsMove ==
  ASSUME PresenceTypes, JoinsFollowed, NEW i, TakesOut(i),
         \A j \in DOMAIN calls : calls[j].at = "joined" /\ j # i =>
           \/ AgentOfCall(j) \in DOMAIN sessions'
           \/ \E k \in DOMAIN calls \ {i} :
                /\ j < k /\ calls[k].at = "left" /\ AgentOfCall(k) = AgentOfCall(j)
                /\ ToSet(calls[j].todo) \subseteq ToSet(calls[k].todo)
           \/ /\ Len(calls') = Len(calls) /\ calls'[Len(calls)].at = "left"
              /\ AgentOf[calls'[Len(calls)].client] = AgentOfCall(j)
              /\ ToSet(calls[j].todo) \subseteq ToSet(calls'[Len(calls)].todo),
         Len(calls') = Len(calls) /\ calls'[Len(calls)].at = "joined" =>
           AgentOf[calls'[Len(calls)].client] \in DOMAIN sessions'
  PROVE  JoinsFollowed'
<1> DEFINE To(j) == IF j < i THEN j ELSE j - 1
           n == Len(calls)
<1>1. /\ \A j \in DOMAIN calls \ {i} : To(j) \in 1 .. n - 1 /\ calls'[To(j)] = calls[j]
      /\ \A k \in 1 .. n - 1 : \E j \in DOMAIN calls \ {i} : k = To(j)
      /\ \A j, k \in DOMAIN calls \ {i} : j < k => To(j) < To(k)
  BY Shifted
<1> HIDE DEF To
<1>2. \A k \in DOMAIN calls' : \/ k \in 1 .. n - 1
                               \/ k = n /\ Len(calls') = n
  <2>1. n \in Nat /\ DOMAIN calls' = 1 .. Len(calls') /\ Len(calls') \in {n - 1, n}
    BY DEF TakesOut
  <2>2. ASSUME NEW q \in Nat, NEW m \in {q - 1, q}, NEW k \in 1 .. m
        PROVE  k \in 1 .. q - 1 \/ (k = q /\ m = q)
    BY <2>2
  <2> QED
    BY <2>1, <2>2
<1>3. \A k \in 1 .. n - 1 : k \in DOMAIN calls' /\ k < n
  <2>1. n \in Nat /\ DOMAIN calls' = 1 .. Len(calls') /\ Len(calls') \in {n - 1, n}
    BY DEF TakesOut
  <2>2. ASSUME NEW q \in Nat, NEW m \in {q - 1, q}, NEW k \in 1 .. q - 1
        PROVE  k \in 1 .. m /\ k < q
    BY <2>2
  <2> QED
    BY <2>1, <2>2
<1>4. Len(calls') = n => n \in DOMAIN calls'
  BY DEF TakesOut
<1> HIDE DEF n
<1> SUFFICES ASSUME NEW q \in DOMAIN calls', calls'[q].at = "joined"
             PROVE  \/ AgentOf[calls'[q].client] \in DOMAIN sessions'
                    \/ \E k \in DOMAIN calls' :
                         /\ q < k /\ calls'[k].at = "left"
                         /\ AgentOf[calls'[k].client] = AgentOf[calls'[q].client]
                         /\ ToSet(calls'[q].todo) \subseteq ToSet(calls'[k].todo)
  BY DEF JoinsFollowed, AgentOfCall
<1>5. CASE q = n /\ Len(calls') = n
  BY <1>5 DEF n
<1>6. CASE q \in 1 .. n - 1
  <2>1. PICK j \in DOMAIN calls \ {i} : q = To(j)
    BY <1>1, <1>6
  <2>2. calls'[q] = calls[j]
    BY <1>1, <2>1
  <2>3. CASE AgentOfCall(j) \in DOMAIN sessions'
    BY <2>2, <2>3 DEF AgentOfCall
  <2>4. CASE \E k \in DOMAIN calls \ {i} :
                /\ j < k /\ calls[k].at = "left" /\ AgentOfCall(k) = AgentOfCall(j)
                /\ ToSet(calls[j].todo) \subseteq ToSet(calls[k].todo)
    <3>1. PICK k \in DOMAIN calls \ {i} :
                /\ j < k /\ calls[k].at = "left" /\ AgentOfCall(k) = AgentOfCall(j)
                /\ ToSet(calls[j].todo) \subseteq ToSet(calls[k].todo)
      BY <2>4
    <3>2. q < To(k) /\ To(k) \in DOMAIN calls' /\ calls'[To(k)] = calls[k]
      BY <1>1, <1>3, <2>1, <3>1
    <3> QED
      BY <2>2, <3>1, <3>2 DEF AgentOfCall
  <2>5. CASE /\ Len(calls') = Len(calls) /\ calls'[Len(calls)].at = "left"
             /\ AgentOf[calls'[Len(calls)].client] = AgentOfCall(j)
             /\ ToSet(calls[j].todo) \subseteq ToSet(calls'[Len(calls)].todo)
    BY <1>3, <1>4, <1>6, <2>2, <2>5 DEF AgentOfCall, n
  <2> QED
    BY <2>1, <2>2, <2>3, <2>4, <2>5
<1> QED
  BY <1>2, <1>5, <1>6

\* Who can be discovered stays online, or has an end under way.
LEMMA DiscoveredMove ==
  ASSUME NEW i, TakesOut(i),
         \A a \in registry' :
           \/ a \in DOMAIN sessions'
           \/ \E k \in DOMAIN calls \ {i} : calls[k].at = "left" /\ AgentOfCall(k) = a
           \/ /\ Len(calls') = Len(calls) /\ calls'[Len(calls)].at = "left"
              /\ AgentOf[calls'[Len(calls)].client] = a
  PROVE  DiscoveredIsOnline'
<1> DEFINE To(j) == IF j < i THEN j ELSE j - 1
<1>1. \A j \in DOMAIN calls \ {i} : To(j) \in 1 .. Len(calls) - 1 /\ calls'[To(j)] = calls[j]
  BY Shifted
<1> HIDE DEF To
<1>2. \A k \in 1 .. Len(calls) - 1 : k \in DOMAIN calls'
  <2>1. Len(calls) \in Nat /\ DOMAIN calls' = 1 .. Len(calls') /\ Len(calls') \in {Len(calls) - 1, Len(calls)}
    BY DEF TakesOut
  <2>2. ASSUME NEW q \in Nat, NEW m \in {q - 1, q}, NEW k \in 1 .. q - 1
        PROVE  k \in 1 .. m
    BY <2>2
  <2> QED
    BY <2>1, <2>2
<1>3. Len(calls') = Len(calls) => Len(calls) \in DOMAIN calls'
  BY DEF TakesOut
<1> QED
  BY <1>1, <1>2, <1>3 DEF DiscoveredIsOnline, Discovered, AgentOfCall

-----------------------------------------------------------------------------
\* Putting a session into a view and taking one out.
LEMMA SessionsChange ==
  ASSUME NEW f, NEW a, NEW x
  PROVE  /\ DOMAIN With(f, a, x) = DOMAIN f \cup {a} /\ Session(With(f, a, x), a) = x
         /\ \A b : b # a => Session(With(f, a, x), b) = Session(f, b)
         /\ DOMAIN Without(f, a) = DOMAIN f \ {a} /\ Session(Without(f, a), a) = None
         /\ \A b : b # a => Session(Without(f, a), b) = Session(f, b)
         /\ a \notin DOMAIN f => \A b : Session(Without(f, a), b) = Session(f, b)
BY DEF With, Without, Restrict, Session

LEMMA BroadcastIs ==
  ASSUME NEW x, Request(x), NEW at, NEW a, NEW id
  PROVE  LET y == Broadcast(x, at, a, id)
         IN /\ Request(y) /\ y.at = at /\ y.client = x.client /\ y.todo = subscribers
            /\ y.msg.agent = a /\ y.msg.id = id
<1> DEFINE m == [agent |-> a, id |-> id]
           y == Broadcast(x, at, a, id)
<1>1. /\ y.kind = x.kind /\ y.client = x.client /\ y.id = x.id /\ y.at = at
      /\ y.todo = subscribers /\ y.msg = m /\ y.awaited = x.awaited
  BY DEF Broadcast, Request
<1>2. Request(y)
  BY <1>1 DEF Broadcast, Request
<1>3. m.agent = a /\ m.id = id
  OBVIOUS
<1> QED
  BY <1>1, <1>2, <1>3

LEMMA HandleKeeps ==
  ASSUME PresenceInv, NEW i \in DOMAIN calls, Handle(i)
  PROVE  PresenceInv'
<1> DEFINE a == AgentOfCall(i)
           n == Len(calls)
<1>1. /\ PresenceTypes /\ Queued /\ JoinsFollowed /\ DiscoveredIsOnline /\ PagesSound
      /\ Idle /\ calls[i].at = "sent" /\ UNCHANGED <<registry, subscribers, page>>
  BY DEF PresenceInv, Handle
<1>2. calls[i].todo = << >> /\ Request(calls[i])
  BY <1>1 DEF Queued, PresenceTypes
<1>3. \A j \in DOMAIN calls : calls[j].at \in {"joined", "left"} => j # i
  BY <1>1
\* What follows once the request has gone on as x.
<1>4. ASSUME NEW x, GoesOn(i, x), Request(x), x.client = calls[i].client, x.at # "sent",
             x.todo \in {subscribers, << >>}
      PROVE  /\ TakesOut(i) /\ Len(calls') = n /\ calls'[n] = x
             /\ PresenceTypes' /\ Queued'
  <2>1. TakesOut(i) /\ Len(calls') = n /\ calls'[n] = x /\ IsSeq(calls')
    BY <1>1, <1>2, <1>4, GoesOnMoves
  <2>2. PresenceTypes'
    BY <1>1, <1>4, <2>1, TypesMove
  <2>3. Queued'
    BY <1>1, <1>4, <2>1, QueueMoves
  <2> QED
    BY <2>1, <2>2, <2>3
\* A session is made or confirmed.
<1>5. ASSUME NEW at \in {"joined", "recovered", "last"}, NEW id, GoesOn(i, Broadcast(calls[i], at, a, id)),
             Session(sessions', a) = id, DOMAIN sessions' = DOMAIN sessions \cup {a},
             \A b : b # a => Session(sessions', b) = Session(sessions, b)
      PROVE  PresenceInv'
  <2> DEFINE x == Broadcast(calls[i], at, a, id)
  <2>1. /\ Request(x) /\ x.at = at /\ x.client = calls[i].client /\ x.todo = subscribers
        /\ x.msg.agent = a /\ x.msg.id = id
    BY <1>2, BroadcastIs
  <2> HIDE DEF x
  <2>2. /\ TakesOut(i) /\ Len(calls') = n /\ calls'[n] = x /\ PresenceTypes' /\ Queued'
    BY <1>4, <1>5, <2>1 DEF x
  <2>3. PagesSound'
    BY <1>1, <1>5, <2>1, <2>2, PagesTold
  <2>4. JoinsFollowed'
    <3>1. \A j \in DOMAIN calls : calls[j].at = "joined" /\ j # i =>
            \/ AgentOfCall(j) \in DOMAIN sessions'
            \/ \E k \in DOMAIN calls \ {i} :
                 /\ j < k /\ calls[k].at = "left" /\ AgentOfCall(k) = AgentOfCall(j)
                 /\ ToSet(calls[j].todo) \subseteq ToSet(calls[k].todo)
      BY <1>1, <1>3, <1>5 DEF JoinsFollowed
    <3>2. AgentOf[calls'[n].client] \in DOMAIN sessions'
      BY <1>5, <2>1, <2>2 DEF AgentOfCall
    <3> QED
      BY <1>1, <2>2, <3>1, <3>2, JoinsMove
  <2>5. DiscoveredIsOnline'
    <3>1. \A b \in registry' :
            \/ b \in DOMAIN sessions'
            \/ \E k \in DOMAIN calls \ {i} : calls[k].at = "left" /\ AgentOfCall(k) = b
      BY <1>1, <1>3, <1>5 DEF DiscoveredIsOnline, Discovered
    <3> QED
      BY <2>2, <3>1, DiscoveredMove
  <2> QED
    BY <2>2, <2>3, <2>4, <2>5 DEF PresenceInv
<1>6. ASSUME NEW at \in {"joined", "recovered"}, Register(i, at, calls[i].id)
      PROVE  PresenceInv'
  <2>1. sessions' = With(sessions, a, calls[i].id) /\ GoesOn(i, Broadcast(calls[i], at, a, calls[i].id))
    BY <1>6 DEF Register
  <2>2. \A x : /\ DOMAIN With(sessions, a, x) = DOMAIN sessions \cup {a}
               /\ Session(With(sessions, a, x), a) = x
               /\ \A b : b # a => Session(With(sessions, a, x), b) = Session(sessions, b)
    BY DEF With, Session
  <2> QED
    BY <1>5, <2>1, <2>2
<1>7. ASSUME Heartbeat(i)
      PROVE  PresenceInv'
  <2>1. CASE a \in DOMAIN sessions
    BY <1>5, <1>7, <2>1 DEF Heartbeat, Session
  <2>2. CASE a \notin DOMAIN sessions
    BY <1>6, <1>7, <2>2 DEF Heartbeat
  <2> QED
    BY <2>1, <2>2
\* A session ends: whoever is being told of its start will be told of that.
<1>8. ASSUME Unregister(i), a \in DOMAIN sessions
      PROVE  PresenceInv'
  <2> DEFINE x == Broadcast(calls[i], "left", a, None)
  <2>1. /\ Request(x) /\ x.at = "left" /\ x.client = calls[i].client /\ x.todo = subscribers
        /\ x.msg.agent = a /\ x.msg.id = None
    BY <1>2, BroadcastIs
  <2>2. GoesOn(i, x) /\ sessions' = Without(sessions, a)
    BY <1>8 DEF Unregister
  <2> HIDE DEF x
  <2>3. /\ DOMAIN sessions' = DOMAIN sessions \ {a} /\ Session(sessions', a) = None
        /\ \A b : b # a => Session(sessions', b) = Session(sessions, b)
    <3>1. /\ DOMAIN Without(sessions, a) = DOMAIN sessions \ {a} /\ Session(Without(sessions, a), a) = None
          /\ \A b : b # a => Session(Without(sessions, a), b) = Session(sessions, b)
      BY SessionsChange
    <3> QED
      BY <2>2, <3>1
  <2>4. /\ TakesOut(i) /\ Len(calls') = n /\ calls'[n] = x /\ PresenceTypes' /\ Queued'
    BY <1>4, <2>1, <2>2
  <2>5. PagesSound'
    BY <1>1, <2>1, <2>3, <2>4, PagesTold
  <2>6. \A j \in DOMAIN calls : ToSet(calls[j].todo) \subseteq ToSet(subscribers)
    <3>1. ASSUME NEW S, NEW s \in Seq(S) PROVE ToSet(s) \subseteq S
      BY DEF ToSet
    <3> QED
      BY <1>1, <3>1 DEF Queued
  <2>7. JoinsFollowed'
    <3>1. \A j \in DOMAIN calls : calls[j].at = "joined" /\ j # i =>
            \/ AgentOfCall(j) \in DOMAIN sessions'
            \/ \E k \in DOMAIN calls \ {i} :
                 /\ j < k /\ calls[k].at = "left" /\ AgentOfCall(k) = AgentOfCall(j)
                 /\ ToSet(calls[j].todo) \subseteq ToSet(calls[k].todo)
            \/ AgentOfCall(j) = a
      BY <1>1, <1>3, <2>3 DEF JoinsFollowed
    <3>2. AgentOf[calls'[n].client] = a /\ calls'[n].at = "left" /\ calls'[n].todo = subscribers
      BY <2>1, <2>4 DEF AgentOfCall
    <3> QED
      BY <1>1, <2>4, <2>6, <3>1, <3>2, JoinsMove
  <2>8. DiscoveredIsOnline'
    <3>1. \A b \in registry' :
            \/ b \in DOMAIN sessions'
            \/ \E k \in DOMAIN calls \ {i} : calls[k].at = "left" /\ AgentOfCall(k) = b
            \/ b = a
      BY <1>1, <1>3, <2>3 DEF DiscoveredIsOnline, Discovered
    <3>2. AgentOf[calls'[n].client] = a /\ calls'[n].at = "left"
      BY <2>1, <2>4 DEF AgentOfCall
    <3> QED
      BY <2>4, <3>1, <3>2, DiscoveredMove
  <2> QED
    BY <2>4, <2>5, <2>7, <2>8 DEF PresenceInv
\* There is none to end.
<1>9. ASSUME Unregister(i), a \notin DOMAIN sessions
      PROVE  PresenceInv'
  <2> DEFINE x == [calls[i] EXCEPT !.at = "left"]
  <2>1. Request(x) /\ x.at = "left" /\ x.client = calls[i].client /\ x.todo = << >>
    BY <1>2 DEF Request
  <2>2. GoesOn(i, x) /\ sessions' = Without(sessions, a)
    BY <1>9 DEF Unregister
  <2> HIDE DEF x
  <2>3. /\ DOMAIN sessions' = DOMAIN sessions
        /\ \A b : Session(sessions', b) = Session(sessions, b)
    <3>1. /\ DOMAIN Without(sessions, a) = DOMAIN sessions \ {a}
          /\ \A b : Session(Without(sessions, a), b) = Session(sessions, b)
      BY <1>9, SessionsChange
    <3> QED
      BY <1>9, <2>2, <3>1
  <2>4. /\ TakesOut(i) /\ Len(calls') = n /\ calls'[n] = x /\ PresenceTypes' /\ Queued'
    BY <1>4, <2>1, <2>2
  <2>5. PagesSound'
    BY <1>1, <2>1, <2>3, <2>4, PagesUntold
  <2>6. JoinsFollowed'
    <3>1. \A j \in DOMAIN calls : calls[j].at = "joined" /\ j # i =>
            \/ AgentOfCall(j) \in DOMAIN sessions'
            \/ \E k \in DOMAIN calls \ {i} :
                 /\ j < k /\ calls[k].at = "left" /\ AgentOfCall(k) = AgentOfCall(j)
                 /\ ToSet(calls[j].todo) \subseteq ToSet(calls[k].todo)
      BY <1>1, <1>3, <2>3 DEF JoinsFollowed
    <3> QED
      BY <1>1, <2>1, <2>4, <3>1, JoinsMove
  <2>7. DiscoveredIsOnline'
    <3>1. \A b \in registry' :
            \/ b \in DOMAIN sessions'
            \/ \E k \in DOMAIN calls \ {i} : calls[k].at = "left" /\ AgentOfCall(k) = b
      BY <1>1, <1>3, <2>3 DEF DiscoveredIsOnline, Discovered
    <3> QED
      BY <2>4, <3>1, DiscoveredMove
  <2> QED
    BY <2>4, <2>5, <2>6, <2>7 DEF PresenceInv
<1>10. calls[i].kind \in {"start", "beat", "status", "end"}
  BY <1>2 DEF Request
<1>11. Register(i, "joined", calls[i].id) \/ Heartbeat(i) \/ Unregister(i)
  BY <1>10 DEF Handle
<1> QED
  BY <1>6, <1>7, <1>8, <1>9, <1>11

\* The one request that may go on: nobody is still to be told of it, nor of any
\* before it that was overtaken.
LEMMA ContinueKeeps ==
  ASSUME PresenceInv, NEW i \in DOMAIN calls, Continue(i)
  PROVE  PresenceInv'
<1> DEFINE a == AgentOfCall(i)
           n == Len(calls)
<1>1. /\ PresenceTypes /\ Queued /\ JoinsFollowed /\ DiscoveredIsOnline /\ PagesSound
      /\ Ready(calls[i]) /\ UNCHANGED <<sessions, subscribers, page>>
  BY DEF PresenceInv, Continue
<1>2. calls[i].at # "sent" /\ calls[i].todo = << >> /\ Request(calls[i])
  BY <1>1 DEF Ready, PresenceTypes
<1>3. \A j \in DOMAIN calls : calls[j].at = "joined" /\ j # i => ToSet(calls[j].todo) # {}
  <2> SUFFICES ASSUME NEW j \in DOMAIN calls, calls[j].at = "joined", j # i, ToSet(calls[j].todo) = {}
               PROVE  FALSE
    OBVIOUS
  <2>1. calls[j].todo \in Seq(ToSet(subscribers))
    BY <1>1 DEF Queued
  <2>2. ASSUME NEW S, NEW s \in Seq(S), ToSet(s) = {} PROVE s = << >>
    <3>1. DOMAIN s = {}
      BY <2>2 DEF ToSet
    <3>2. Len(s) \in Nat /\ DOMAIN s = 1 .. Len(s)
      BY <2>2
    <3>3. Len(s) = 0
      BY <3>1, <3>2
    <3> QED
      BY <3>3
  <2>3. Ready(calls[j])
    BY <2>1, <2>2 DEF Ready
  <2> QED
    BY <1>1, <2>3 DEF Queued
<1>4. \A j \in DOMAIN calls : calls[j].at = "joined" /\ j # i =>
        \/ AgentOfCall(j) \in DOMAIN sessions'
        \/ \E k \in DOMAIN calls \ {i} :
             /\ j < k /\ calls[k].at = "left" /\ AgentOfCall(k) = AgentOfCall(j)
             /\ ToSet(calls[j].todo) \subseteq ToSet(calls[k].todo)
  BY <1>1, <1>2, <1>3, EmptySet DEF JoinsFollowed
<1>5. ASSUME Answer(i),
             \A b \in registry' :
               \/ b \in DOMAIN sessions
               \/ \E k \in DOMAIN calls \ {i} : calls[k].at = "left" /\ AgentOfCall(k) = b
      PROVE  PresenceInv'
  <2>1. TakesOut(i) /\ Len(calls') = n - 1 /\ IsSeq(calls') /\ n \in Nat
    BY <1>1, <1>2, <1>5, AnswerMoves DEF TakesOut
  <2>2. Len(calls') # n
    BY <2>1
  <2>3. PresenceTypes'
    BY <1>1, <2>1, <2>2, TypesMove
  <2>4. Queued'
    BY <1>1, <2>1, <2>2, QueueMoves
  <2>5. PagesSound'
    BY <1>1, <2>1, <2>2, PagesUntold
  <2>6. JoinsFollowed'
    BY <1>1, <1>4, <2>1, <2>2, JoinsMove
  <2>7. DiscoveredIsOnline'
    BY <1>1, <1>5, <2>1, DiscoveredMove
  <2> QED
    BY <2>3, <2>4, <2>5, <2>6, <2>7 DEF PresenceInv
<1>6. CASE Joined(i)
  <2>1. Answer(i) /\ registry' = registry \cup {a} /\ calls[i].at = "joined"
    BY <1>6 DEF Joined
  <2>2. \/ a \in DOMAIN sessions
        \/ \E k \in DOMAIN calls \ {i} : calls[k].at = "left" /\ AgentOfCall(k) = a
    BY <1>1, <2>1 DEF JoinsFollowed
  <2>3. \A b \in registry :
          \/ b \in DOMAIN sessions
          \/ \E k \in DOMAIN calls \ {i} : calls[k].at = "left" /\ AgentOfCall(k) = b
    BY <1>1, <2>1 DEF DiscoveredIsOnline, Discovered
  <2> QED
    BY <1>5, <2>1, <2>2, <2>3
<1>7. CASE Left(i)
  <2>1. Answer(i) /\ registry' = registry \ {a} /\ calls[i].at = "left"
    BY <1>7 DEF Left
  <2>2. \A b \in registry \ {a} :
          \/ b \in DOMAIN sessions
          \/ \E k \in DOMAIN calls \ {i} : calls[k].at = "left" /\ AgentOfCall(k) = b
    BY <1>1, <2>1 DEF DiscoveredIsOnline, Discovered
  <2> QED
    BY <1>5, <2>1, <2>2
<1>8. ASSUME calls[i].at \in {"last", "recovered"}, registry' = registry
      PROVE  \A b \in registry' :
               \/ b \in DOMAIN sessions
               \/ \E k \in DOMAIN calls \ {i} : calls[k].at = "left" /\ AgentOfCall(k) = b
  <2>1. calls[i].at # "left"
    BY <1>8
  <2> QED
    BY <1>1, <1>8, <2>1 DEF DiscoveredIsOnline, Discovered
<1>9. CASE Beaten(i)
  BY <1>5, <1>8, <1>9 DEF Beaten
<1>10. CASE Recovered(i)
  <2>1. calls[i].at = "recovered" /\ registry' = registry
    BY <1>10 DEF Recovered
  <2>2. CASE a \notin DOMAIN sessions
    BY <1>5, <1>8, <1>10, <2>1, <2>2 DEF Recovered
  <2>3. CASE a \in DOMAIN sessions
    <3> DEFINE x == Broadcast(calls[i], "last", a, sessions[a])
    <3>1. /\ Request(x) /\ x.at = "last" /\ x.client = calls[i].client /\ x.todo = subscribers
          /\ x.msg.agent = a /\ x.msg.id = sessions[a]
      BY <1>2, BroadcastIs
    <3>2. GoesOn(i, x)
      BY <1>10, <2>3 DEF Recovered
    <3> HIDE DEF x
    <3>3. TakesOut(i) /\ Len(calls') = n /\ calls'[n] = x /\ IsSeq(calls')
      BY <1>1, <1>2, <3>2, GoesOnMoves
    <3>4. PresenceTypes'
      BY <1>1, <3>1, <3>3, TypesMove
    <3>5. Queued'
      BY <1>1, <3>1, <3>3, QueueMoves
    <3>6. PagesSound'
      <4>1. Session(sessions', a) = sessions[a] /\ \A b : Session(sessions', b) = Session(sessions, b)
        BY <1>1, <2>3 DEF Session
      <4> QED
        BY <1>1, <3>1, <3>3, <4>1, PagesTold
    <3>7. JoinsFollowed'
      BY <1>1, <1>4, <3>1, <3>3, JoinsMove
    <3>8. DiscoveredIsOnline'
      BY <1>1, <1>8, <2>1, <3>3, DiscoveredMove
    <3> QED
      BY <3>4, <3>5, <3>6, <3>7, <3>8 DEF PresenceInv
  <2> QED
    BY <2>2, <2>3
<1> QED
  BY <1>6, <1>7, <1>9, <1>10 DEF Continue

\* The first of those to be told is told.
LEMMA FirstTold ==
  ASSUME NEW S, NEW s \in Seq(S), s # << >>, Distinct(s)
  PROVE  /\ Head(s) \in ToSet(s) /\ ToSet(Tail(s)) = ToSet(s) \ {Head(s)}
         /\ Tail(s) \in Seq(S) /\ Distinct(Tail(s))
<1>1. /\ Len(s) \in Nat \ {0} /\ DOMAIN s = 1 .. Len(s) /\ Head(s) = s[1]
      /\ Tail(s) \in Seq(S) /\ DOMAIN Tail(s) = 1 .. Len(s) - 1
      /\ \A k \in 1 .. Len(s) - 1 : Tail(s)[k] = s[k + 1]
  BY HeadTailProperties
<1>2. \A k \in 1 .. Len(s) - 1 : k + 1 \in DOMAIN s /\ k + 1 # 1
  BY <1>1
<1>3. ASSUME NEW k \in DOMAIN s, k # 1 PROVE \E m \in DOMAIN Tail(s) : Tail(s)[m] = s[k]
  <2>1. k - 1 \in 1 .. Len(s) - 1 /\ k - 1 + 1 = k
    BY <1>1, <1>3
  <2>2. Tail(s)[k - 1] = s[k - 1 + 1]
    BY <1>1, <2>1
  <2> QED
    BY <1>1, <2>1, <2>2
<1>4. Distinct(Tail(s))
  <2> SUFFICES ASSUME NEW j \in 1 .. Len(s) - 1, NEW k \in 1 .. Len(s) - 1, s[j + 1] = s[k + 1]
               PROVE  j = k
    BY <1>1 DEF Distinct
  <2>1. j + 1 = k + 1
    BY <1>1, <1>2 DEF Distinct
  <2> QED
    BY <2>1
<1>5. 1 \in DOMAIN s
  BY <1>1
<1>6. ToSet(Tail(s)) = ToSet(s) \ {Head(s)}
  <2>1. \A k \in DOMAIN Tail(s) : Tail(s)[k] \in ToSet(s) \ {Head(s)}
    BY <1>1, <1>2, <1>5 DEF Distinct, ToSet
  <2>2. \A k \in DOMAIN s : s[k] # Head(s) => s[k] \in ToSet(Tail(s))
    BY <1>1, <1>3 DEF ToSet
  <2> QED
    BY <2>1, <2>2 DEF ToSet
<1> QED
  BY <1>1, <1>4, <1>5, <1>6 DEF ToSet

\* What a message does to what a page shows.
LEMMA ShownSays ==
  ASSUME NEW f, NEW m, NEW a
  PROVE  Session(Shown(f, m), a) = IF m.agent = a THEN m.id ELSE Session(f, a)
<1>1. CASE m.id = None
  BY <1>1 DEF Shown, Without, Restrict, Session
<1>2. CASE m.id # None
  BY <1>2 DEF Shown, With, Session
<1> QED
  BY <1>1, <1>2

LEMMA DeliverKeeps ==
  ASSUME PresenceInv, NEW i \in DOMAIN calls, Deliver(i)
  PROVE  PresenceInv'
<1>0. PICK v : v = Head(calls[i].todo)
  OBVIOUS
<1>1. /\ PresenceTypes /\ Queued /\ JoinsFollowed /\ DiscoveredIsOnline /\ PagesSound
      /\ Idle /\ UNCHANGED <<sessions, registry, subscribers>>
      /\ calls[i].at # "sent" /\ calls[i].todo # << >> /\ Turn(i)
      /\ calls' = [calls EXCEPT ![i].todo = Tail(@)]
      /\ page' = IF page[v].on
                   THEN [page EXCEPT ![v].view = Shown(@, calls[i].msg), ![v].fresh = TRUE]
                   ELSE page
  BY <1>0 DEF PresenceInv, Deliver, Sending
<1>2. /\ calls[i].todo \in Seq(ToSet(subscribers)) /\ Distinct(calls[i].todo)
  BY <1>1 DEF Queued
<1>3. /\ v \in ToSet(calls[i].todo) /\ ToSet(Tail(calls[i].todo)) = ToSet(calls[i].todo) \ {v}
      /\ Tail(calls[i].todo) \in Seq(ToSet(subscribers)) /\ Distinct(Tail(calls[i].todo))
  BY <1>0, <1>1, <1>2, FirstTold
<1>4. PICK t : t = Tail(calls[i].todo)
  OBVIOUS
<1>5. \A j \in DOMAIN calls : Request(calls[j])
  BY <1>1 DEF PresenceTypes
<1>6. /\ DOMAIN calls' = DOMAIN calls
      /\ \A j \in DOMAIN calls \ {i} : calls'[j] = calls[j]
      /\ calls'[i].at = calls[i].at /\ calls'[i].client = calls[i].client /\ calls'[i].msg = calls[i].msg
      /\ calls'[i].todo = t /\ Request(calls'[i])
  <2>1. calls' = [calls EXCEPT ![i] = [calls[i] EXCEPT !.todo = t]]
    BY <1>1, <1>4
  <2>2. /\ DOMAIN calls' = DOMAIN calls
        /\ \A j \in DOMAIN calls \ {i} : calls'[j] = calls[j]
        /\ calls'[i] = [calls[i] EXCEPT !.todo = t]
    BY <1>1, <2>1 DEF PresenceTypes, IsSeq
  <2>3. Request(calls[i])
    BY <1>5
  <2> QED
    BY <2>2, <2>3 DEF Request
<1>7. IsSeq(calls')
  <2>1. Len(calls) \in Nat /\ DOMAIN calls = 1 .. Len(calls)
    BY <1>1 DEF PresenceTypes, IsSeq
  <2> DEFINE T == {calls'[k] : k \in DOMAIN calls'}
  <2>2. calls' \in [1 .. Len(calls) -> T]
    <3>1. calls' = [k \in DOMAIN calls |-> calls'[k]]
      BY <1>1
    <3> QED
      BY <1>6, <2>1, <3>1
  <2>3. calls' \in UNION {[1 .. n -> T] : n \in Nat}
    BY <2>1, <2>2
  <2> QED
    BY <2>3, SeqDef DEF IsSeq
<1>8. /\ page' = [u \in Viewers |-> page'[u]]
      /\ \A u \in Viewers : Page(page'[u])
      /\ \A u \in Viewers \ {v} : page'[u] = page[u]
      /\ v \in Viewers => /\ page'[v].on = page[v].on /\ page'[v].stale = page[v].stale
                          /\ page[v].on => /\ page'[v].view = Shown(page[v].view, calls[i].msg)
                                           /\ page'[v].fresh
  <2>1. page = [u \in Viewers |-> page[u]] /\ \A u \in Viewers : Page(page[u])
    BY <1>1 DEF PresenceTypes
  <2>2. CASE page[v].on
    <3>1. PICK w : w = Shown(page[v].view, calls[i].msg)
      OBVIOUS
    <3>2. page' = [page EXCEPT ![v] = [page[v] EXCEPT !.view = w, !.fresh = TRUE]]
      BY <1>1, <2>2, <3>1
    <3>3. ASSUME v \in Viewers
          PROVE  LET x == [page[v] EXCEPT !.view = w, !.fresh = TRUE]
                 IN Page(x) /\ x.on = page[v].on /\ x.stale = page[v].stale /\ x.view = w /\ x.fresh
      BY <2>1, <3>3 DEF Page
    <3> QED
      BY <2>1, <3>1, <3>2, <3>3
  <2>3. CASE ~page[v].on
    BY <1>1, <2>1, <2>3
  <2> QED
    BY <2>2, <2>3
<1>9. PresenceTypes'
  BY <1>1, <1>5, <1>6, <1>7, <1>8 DEF PresenceTypes
<1>10. Queued'
  <2>1. \A j, k \in DOMAIN calls' : Ready(calls'[j]) /\ Ready(calls'[k]) => j = k
    BY <1>1, <1>6 DEF Idle
  <2>2. \A j \in DOMAIN calls' :
          /\ calls'[j].at = "sent" => calls'[j].todo = << >>
          /\ calls'[j].todo \in Seq(ToSet(subscribers)) /\ Distinct(calls'[j].todo)
    BY <1>1, <1>3, <1>4, <1>6 DEF Queued
  <2>3. \A u \in Viewers : page'[u].on => page[u].on
    BY <1>8
  <2>4. subscribers' = subscribers
    BY <1>1
  <2>5. \A u \in Viewers : page'[u].on => u \in ToSet(subscribers')
    BY <1>1, <2>3, <2>4 DEF Queued
  <2>6. \A j \in DOMAIN calls' : calls'[j].todo \in Seq(ToSet(subscribers'))
    BY <2>2, <2>4
  <2> HIDE <1>0, <2>4
  <2> QED
    BY <2>1, <2>2, <2>5, <2>6 DEF Queued
<1>11. JoinsFollowed'
  <2>1. \A j \in DOMAIN calls : calls'[j].at = calls[j].at /\ calls'[j].client = calls[j].client
    BY <1>6
  <2>2. \A j \in DOMAIN calls : ToSet(calls'[j].todo) \subseteq ToSet(calls[j].todo)
    BY <1>3, <1>4, <1>6
  <2>3. ASSUME NEW j \in DOMAIN calls, calls[j].at = "joined", NEW k \in DOMAIN calls, j < k,
               ToSet(calls[j].todo) \subseteq ToSet(calls[k].todo)
        PROVE  ToSet(calls'[j].todo) \subseteq ToSet(calls'[k].todo)
    <3>1. CASE k # i
      BY <1>6, <2>2, <2>3, <3>1
    <3>2. CASE k = i
      <4>1. j \in 1 .. i - 1
        <5>1. DOMAIN calls = 1 .. Len(calls) /\ Len(calls) \in Nat
          BY <1>1 DEF PresenceTypes, IsSeq
        <5> QED
          BY <2>3, <3>2, <5>1
      <4>2. v \notin ToSet(calls[j].todo)
        BY <1>0, <1>1, <2>3, <3>2, <4>1, EmptySet DEF Turn, Sending
      <4>3. calls'[j] = calls[j] /\ ToSet(calls'[k].todo) = ToSet(calls[k].todo) \ {v}
        BY <1>3, <1>4, <1>6, <3>2, <2>3
      <4> QED
        BY <2>3, <4>2, <4>3
    <3> QED
      BY <3>1, <3>2
  <2> SUFFICES ASSUME NEW j \in DOMAIN calls, calls'[j].at = "joined", AgentOfCall(j)' \notin DOMAIN sessions
               PROVE  \E k \in DOMAIN calls :
                        /\ j < k /\ calls'[k].at = "left" /\ AgentOfCall(k)' = AgentOfCall(j)'
                        /\ ToSet(calls'[j].todo) \subseteq ToSet(calls'[k].todo)
    BY <1>1, <1>6 DEF JoinsFollowed
  <2>4. calls[j].at = "joined" /\ AgentOfCall(j) \notin DOMAIN sessions
    BY <2>1 DEF AgentOfCall
  <2>5. PICK k \in DOMAIN calls :
          /\ j < k /\ calls[k].at = "left" /\ AgentOfCall(k) = AgentOfCall(j)
          /\ ToSet(calls[j].todo) \subseteq ToSet(calls[k].todo)
    BY <1>1, <2>4 DEF JoinsFollowed
  <2>6. ToSet(calls'[j].todo) \subseteq ToSet(calls'[k].todo)
    BY <2>3, <2>4, <2>5
  <2> QED
    BY <2>1, <2>5, <2>6 DEF AgentOfCall
<1>12. DiscoveredIsOnline'
  <2>1. \A j \in DOMAIN calls : calls'[j].at = calls[j].at /\ AgentOfCall(j)' = AgentOfCall(j)
    BY <1>6 DEF AgentOfCall
  <2> SUFFICES ASSUME NEW a \in registry, a \notin DOMAIN sessions
               PROVE  \E j \in DOMAIN calls' : calls'[j].at = "left" /\ AgentOfCall(j)' = a
    BY <1>1 DEF DiscoveredIsOnline, Discovered
  <2>2. PICK j \in DOMAIN calls : calls[j].at = "left" /\ AgentOfCall(j) = a
    BY <1>1 DEF DiscoveredIsOnline, Discovered
  <2> QED
    BY <1>6, <2>1, <2>2
<1>13. PagesSound'
  <2> SUFFICES ASSUME NEW u \in Viewers, page'[u].on, NEW a \in Agents
               PROVE  /\ Coming(u, a)' # {} => LastSays(u, a)'
                      /\ ~page'[u].stale => UpToDate(u, a, page[u].view)'
                      /\ page'[u].list # NoList /\ ~page'[u].fresh => UpToDate(u, a, page[u].list[2])'
    BY DEF PagesSound
  <2>1. ASSUME u # v \/ calls[i].msg.agent # a
        PROVE  Coming(u, a)' = Coming(u, a) /\ (LastSays(u, a) => LastSays(u, a)')
    <3>1. Coming(u, a)' = Coming(u, a)
      BY <1>3, <1>4, <1>6, <2>1 DEF Coming
    <3>2. \A j \in DOMAIN calls : calls'[j].msg = calls[j].msg
      BY <1>6
    <3>3. \A j \in Coming(u, a) : j \in DOMAIN calls
      BY DEF Coming
    <3> QED
      BY <1>1, <3>1, <3>2, <3>3 DEF LastSays, Session
  <2>2. CASE u # v
    BY <1>1, <1>8, <2>1, <2>2 DEF PagesSound, UpToDate, Session
  <2>3. CASE u = v /\ calls[i].msg.agent # a
    <3>1. Session(page'[v].view, a) = Session(page[v].view, a)
      BY <1>8, <2>3, ShownSays
    <3> QED
      BY <1>1, <1>8, <2>1, <2>3, <3>1 DEF PagesSound, UpToDate, Session
  <2>4. CASE u = v /\ calls[i].msg.agent = a
    <3>1. i \in Coming(v, a)
      BY <1>1, <1>3, <2>4 DEF Coming
    <3>2. Coming(v, a)' = Coming(v, a) \ {i}
      BY <1>3, <1>4, <1>6 DEF Coming
    <3>3. page[v].on /\ page'[v].fresh /\ page'[v].view = Shown(page[v].view, calls[i].msg)
      BY <1>8, <2>4
    <3>4. PICK p \in Coming(v, a) : calls[p].msg.id = Session(sessions, a) /\ \A k \in Coming(v, a) : k <= p
      BY <1>1, <2>4, <3>1, <3>3 DEF PagesSound, LastSays
    <3>5. CASE p # i
      <4>1. p \in Coming(v, a)' /\ calls'[p] = calls[p]
        BY <1>6, <3>2, <3>4, <3>5 DEF Coming
      <4>2. LastSays(v, a)'
        BY <1>1, <3>2, <3>4, <4>1 DEF LastSays, Session
      <4> QED
        BY <2>4, <3>3, <4>1, <4>2 DEF UpToDate
    <3>6. CASE p = i
      <4>1. DOMAIN calls = 1 .. Len(calls) /\ Len(calls) \in Nat
        BY <1>1 DEF PresenceTypes, IsSeq
      <4>2. ASSUME NEW k \in Coming(v, a), k # i PROVE FALSE
        <5>1. k \in 1 .. i - 1
          BY <3>4, <3>6, <4>1, <4>2 DEF Coming
        <5> QED
          BY <1>0, <1>1, <4>2, <5>1, EmptySet DEF Turn, Sending, Coming
      <4>3. Coming(v, a)' = {}
        BY <3>2, <4>2
      <4>4. Session(page'[v].view, a) = calls[i].msg.id
        BY <2>4, <3>3, ShownSays
      <4> QED
        BY <1>1, <2>4, <3>3, <3>4, <3>6, <4>3, <4>4 DEF UpToDate, Session
    <3> QED
      BY <3>5, <3>6
  <2> QED
    BY <2>2, <2>3, <2>4
<1> QED
  BY <1>9, <1>10, <1>11, <1>12, <1>13 DEF PresenceInv

-----------------------------------------------------------------------------
\* The requests are what they were, but for whose answer is awaited, and one may
\* be new.
SameRequests ==
  /\ IsSeq(calls')
  /\ \A j \in DOMAIN calls :
       /\ j \in DOMAIN calls' /\ Request(calls'[j]) /\ calls'[j].at = calls[j].at
       /\ calls'[j].client = calls[j].client /\ calls'[j].todo = calls[j].todo
       /\ calls'[j].msg = calls[j].msg
  /\ \A j \in DOMAIN calls' \ DOMAIN calls :
       Request(calls'[j]) /\ calls'[j].at = "sent" /\ calls'[j].todo = << >>

LEMMA UnawaitedSame ==
  ASSUME PresenceTypes, NEW c
  PROVE  LET q == Unawaited(c)
         IN /\ IsSeq(q) /\ DOMAIN q = DOMAIN calls
            /\ \A j \in DOMAIN calls :
                 /\ Request(q[j]) /\ q[j].at = calls[j].at /\ q[j].client = calls[j].client
                 /\ q[j].todo = calls[j].todo /\ q[j].msg = calls[j].msg
<1> DEFINE q == Unawaited(c)
           T == {q[k] : k \in DOMAIN q}
<1>1. DOMAIN q = DOMAIN calls /\ q = [j \in DOMAIN calls |-> q[j]]
      /\ \A j \in DOMAIN calls :
           q[j] = IF calls[j].client = c THEN [calls[j] EXCEPT !.awaited = FALSE] ELSE calls[j]
  BY DEF Unawaited
<1>2. Len(calls) \in Nat /\ DOMAIN calls = 1 .. Len(calls)
  BY DEF PresenceTypes, IsSeq
<1> HIDE DEF q
<1>3. q \in [1 .. Len(calls) -> T]
  BY <1>1, <1>2
<1>4. q \in UNION {[1 .. n -> T] : n \in Nat}
  BY <1>2, <1>3
<1>5. IsSeq(q)
  BY <1>4, SeqDef DEF IsSeq
<1>6. ASSUME NEW j \in DOMAIN calls
      PROVE  /\ Request(q[j]) /\ q[j].at = calls[j].at /\ q[j].client = calls[j].client
             /\ q[j].todo = calls[j].todo /\ q[j].msg = calls[j].msg
  <2>1. Request(calls[j])
    BY DEF PresenceTypes
  <2>2. CASE calls[j].client = c
    <3>1. q[j] = [calls[j] EXCEPT !.awaited = FALSE]
      BY <1>1, <2>2
    <3> QED
      BY <2>1, <3>1 DEF Request
  <2>3. CASE calls[j].client # c
    BY <1>1, <2>1, <2>3
  <2> QED
    BY <2>2, <2>3
<1> QED
  BY <1>1, <1>5, <1>6 DEF q

LEMMA AskSame ==
  ASSUME PresenceTypes, NEW c, NEW kind \in {"start", "beat", "status", "end"}, NEW id,
         Ask(c, kind, id)
  PROVE  SameRequests
<1> DEFINE x == [kind |-> kind, client |-> c, id |-> id, at |-> "sent",
                 todo |-> << >>, msg |-> << >>, awaited |-> kind # "status"]
<1>1. PICK q : q = IF kind = "status" THEN calls ELSE Unawaited(c)
  OBVIOUS
<1>2. calls' = Append(q, x)
  BY <1>1 DEF Ask
<1>3. Request(x) /\ x.at = "sent" /\ x.todo = << >>
  BY DEF Request
<1> HIDE DEF x
<1>4. /\ IsSeq(q) /\ DOMAIN q = DOMAIN calls
      /\ \A j \in DOMAIN calls :
           /\ Request(q[j]) /\ q[j].at = calls[j].at /\ q[j].client = calls[j].client
           /\ q[j].todo = calls[j].todo /\ q[j].msg = calls[j].msg
  <2>1. CASE kind = "status"
    BY <1>1, <2>1 DEF PresenceTypes
  <2>2. CASE kind # "status"
    BY <1>1, <2>2, UnawaitedSame
  <2> QED
    BY <2>1, <2>2
<1>5. /\ IsSeq(calls') /\ Len(q) \in Nat /\ DOMAIN q = 1 .. Len(q) /\ DOMAIN calls' = 1 .. Len(q) + 1
      /\ \A j \in DOMAIN q : calls'[j] = q[j]
      /\ calls'[Len(q) + 1] = x
  BY <1>2, <1>4, Added
<1>6. DOMAIN calls \subseteq DOMAIN calls' /\ \A j \in DOMAIN calls' \ DOMAIN calls : j = Len(q) + 1
  BY <1>4, <1>5
<1> QED
  BY <1>3, <1>4, <1>5, <1>6 DEF SameRequests

LEMMA QuietKeeps ==
  ASSUME PresenceInv, SameRequests, UNCHANGED <<sessions, registry, subscribers, page>>
  PROVE  PresenceInv'
<1>1. PresenceTypes /\ Queued /\ JoinsFollowed /\ DiscoveredIsOnline /\ PagesSound
  BY DEF PresenceInv
<1>2. PresenceTypes'
  BY <1>1 DEF PresenceTypes, SameRequests
<1>3. Queued'
  <2>1. subscribers' = subscribers /\ page' = page
    OBVIOUS
  <2>2. \A j \in DOMAIN calls' : calls'[j].at = "sent" => calls'[j].todo = << >>
    BY <1>1 DEF Queued, SameRequests
  <2>3. \A j \in DOMAIN calls' : calls'[j].todo \in Seq(ToSet(subscribers)) /\ Distinct(calls'[j].todo)
    <3>1. << >> \in Seq(ToSet(subscribers)) /\ Distinct(<< >>)
      BY EmptySet DEF Distinct
    <3> QED
      BY <1>1, <3>1 DEF Queued, SameRequests
  <2>4. \A j, k \in DOMAIN calls' : Ready(calls'[j]) /\ Ready(calls'[k]) => j = k
    <3>1. \A j \in DOMAIN calls' : Ready(calls'[j]) => j \in DOMAIN calls /\ Ready(calls[j])
      BY DEF Ready, SameRequests
    <3> QED
      BY <1>1, <3>1 DEF Queued
  <2>5. \A v \in Viewers : page'[v].on => v \in ToSet(subscribers')
    BY <1>1, <2>1 DEF Queued
  <2>6. \A j \in DOMAIN calls' : calls'[j].todo \in Seq(ToSet(subscribers')) /\ Distinct(calls'[j].todo)
    BY <2>1, <2>3
  <2> QED
    BY <2>2, <2>4, <2>5, <2>6 DEF Queued
<1>4. \A j \in DOMAIN calls : AgentOfCall(j)' = AgentOfCall(j)
  BY DEF AgentOfCall, SameRequests
<1>5. JoinsFollowed'
  <2> SUFFICES ASSUME NEW j \in DOMAIN calls', calls'[j].at = "joined", AgentOfCall(j)' \notin DOMAIN sessions
               PROVE  \E k \in DOMAIN calls' :
                        /\ j < k /\ calls'[k].at = "left" /\ AgentOfCall(k)' = AgentOfCall(j)'
                        /\ ToSet(calls'[j].todo) \subseteq ToSet(calls'[k].todo)
    BY DEF JoinsFollowed
  <2>1. j \in DOMAIN calls /\ calls[j].at = "joined"
    BY DEF SameRequests
  <2>2. PICK k \in DOMAIN calls :
          /\ j < k /\ calls[k].at = "left" /\ AgentOfCall(k) = AgentOfCall(j)
          /\ ToSet(calls[j].todo) \subseteq ToSet(calls[k].todo)
    BY <1>1, <1>4, <2>1 DEF JoinsFollowed
  <2> QED
    BY <1>4, <2>1, <2>2 DEF SameRequests
<1>6. DiscoveredIsOnline'
  <2> SUFFICES ASSUME NEW a \in registry, a \notin DOMAIN sessions
               PROVE  \E j \in DOMAIN calls' : calls'[j].at = "left" /\ AgentOfCall(j)' = a
    BY DEF DiscoveredIsOnline, Discovered
  <2>1. PICK j \in DOMAIN calls : calls[j].at = "left" /\ AgentOfCall(j) = a
    BY <1>1 DEF DiscoveredIsOnline, Discovered
  <2> QED
    BY <1>4, <2>1 DEF SameRequests
<1>7. PagesSound'
  <2>1. ASSUME NEW v, NEW a
        PROVE  Coming(v, a)' = Coming(v, a) /\ (LastSays(v, a) => LastSays(v, a)')
    <3>1. ASSUME NEW j \in Coming(v, a) PROVE j \in Coming(v, a)'
      BY <3>1 DEF Coming, SameRequests
    <3>2. ASSUME NEW j \in Coming(v, a)' PROVE j \in Coming(v, a)
      BY <3>2, EmptySet DEF Coming, SameRequests
    <3>3. Coming(v, a)' = Coming(v, a)
      BY <3>1, <3>2
    <3>4. \A j \in Coming(v, a) : calls'[j].msg = calls[j].msg
      BY DEF Coming, SameRequests
    <3> QED
      BY <3>3, <3>4 DEF LastSays, Session
  <2> QED
    BY <1>1, <2>1 DEF PagesSound, UpToDate, Session
<1> QED
  BY <1>2, <1>3, <1>5, <1>6, <1>7 DEF PresenceInv

-----------------------------------------------------------------------------
\* A step of one page: the requests and the store stay as they are.
LEMMA PageKeeps ==
  ASSUME PresenceInv, UNCHANGED <<sessions, registry, subscribers, calls>>,
         NEW v, NEW x, page' = [page EXCEPT ![v] = x],
         v \in Viewers =>
           /\ Page(x) /\ (x.on => page[v].on)
           /\ x.on => \A a \in Agents :
                /\ ~x.stale => UpToDate(v, a, x.view)
                /\ x.list # NoList /\ ~x.fresh => UpToDate(v, a, x.list[2])
  PROVE  PresenceInv'
<1>1. PresenceTypes /\ Queued /\ JoinsFollowed /\ DiscoveredIsOnline /\ PagesSound
  BY DEF PresenceInv
<1>2. \A u \in Viewers : page'[u] = IF u = v THEN x ELSE page[u]
  BY <1>1 DEF PresenceTypes
<1>3. PresenceTypes'
  BY <1>1, <1>2 DEF PresenceTypes
<1>4. Queued'
  BY <1>1, <1>2 DEF Queued, Ready
<1>5. JoinsFollowed' /\ DiscoveredIsOnline'
  BY <1>1 DEF JoinsFollowed, DiscoveredIsOnline, Discovered, AgentOfCall
<1>6. PagesSound'
  <2>1. \A u, a : Coming(u, a)' = Coming(u, a) /\ (LastSays(u, a) => LastSays(u, a)')
    BY DEF Coming, LastSays, Session
  <2> SUFFICES ASSUME NEW u \in Viewers, page'[u].on, NEW a \in Agents
               PROVE  /\ Coming(u, a)' # {} => LastSays(u, a)'
                      /\ ~page'[u].stale => UpToDate(u, a, page'[u].view)
                      /\ page'[u].list # NoList /\ ~page'[u].fresh => UpToDate(u, a, page'[u].list[2])
    BY <2>1 DEF PagesSound, UpToDate, Session
  <2>2. page[u].on /\ (Coming(u, a) # {} => LastSays(u, a))
    BY <1>1, <1>2 DEF PagesSound
  <2>3. CASE u = v
    BY <1>2, <2>1, <2>2, <2>3
  <2>4. CASE u # v
    BY <1>1, <1>2, <2>1, <2>2, <2>4 DEF PagesSound
  <2> QED
    BY <2>3, <2>4
<1> QED
  BY <1>3, <1>4, <1>5, <1>6 DEF PresenceInv

LEMMA CloseKeeps ==
  ASSUME PresenceInv, NEW v, Close(v)
  PROVE  PresenceInv'
<1>1. PICK x : x = [page[v] EXCEPT !.on = FALSE, !.list = NoList]
  OBVIOUS
<1>2. page' = [page EXCEPT ![v] = x]
  BY <1>1 DEF Close
<1>3. ASSUME v \in Viewers PROVE Page(x) /\ ~x.on
  <2>1. Page(page[v])
    BY <1>3 DEF PresenceInv, PresenceTypes
  <2> QED
    BY <1>1, <2>1 DEF Page
<1> QED
  BY <1>2, <1>3, PageKeeps DEF Close

\* The list that is read is what the store has.
LEMMA ListKeeps ==
  ASSUME PresenceInv, NEW v, List(v)
  PROVE  PresenceInv'
<1>1. PICK x : x = [page[v] EXCEPT !.list = <<TRUE, sessions>>, !.fresh = FALSE]
  OBVIOUS
<1>2. page' = [page EXCEPT ![v] = x]
  BY <1>1 DEF List
<1>3. ASSUME v \in Viewers
      PROVE  /\ Page(x) /\ x.on /\ page[v].on /\ x.list[2] = sessions
             /\ x.view = page[v].view /\ x.stale = page[v].stale
  <2>1. Page(page[v]) /\ page[v].on
    BY <1>3 DEF PresenceInv, PresenceTypes, List
  <2> QED
    BY <1>1, <2>1 DEF Page
<1>4. ASSUME v \in Viewers, NEW a \in Agents
      PROVE  /\ ~x.stale => UpToDate(v, a, x.view)
             /\ UpToDate(v, a, x.list[2])
  BY <1>3, <1>4 DEF PresenceInv, PagesSound, UpToDate
<1> QED
  BY <1>2, <1>3, <1>4, PageKeeps DEF List

\* A list over which no message was newer is as right as when it was read.
LEMMA ShowListKeeps ==
  ASSUME PresenceInv, NEW v, ShowList(v)
  PROVE  PresenceInv'
<1>1. PICK x : x = [page[v] EXCEPT !.list = NoList, !.view = page[v].list[2],
                                   !.stale = page[v].stale \/ page[v].fresh]
  OBVIOUS
<1>2. page' = [page EXCEPT ![v] = x]
  BY <1>1 DEF ShowList
<1>3. ASSUME v \in Viewers
      PROVE  /\ Page(x) /\ page[v].on /\ page[v].list # NoList /\ x.list = NoList
             /\ x.view = page[v].list[2] /\ (~x.stale => ~page[v].fresh)
  <2>1. Page(page[v]) /\ page[v].list # NoList
    BY <1>3 DEF PresenceInv, PresenceTypes, ShowList
  <2> QED
    BY <1>1, <2>1 DEF Page
<1>4. ASSUME v \in Viewers, NEW a \in Agents
      PROVE  ~x.stale => UpToDate(v, a, x.view)
  BY <1>3, <1>4 DEF PresenceInv, PagesSound
<1>5. v \in Viewers =>
        /\ Page(x) /\ (x.on => page[v].on)
        /\ x.on => \A a \in Agents :
             /\ ~x.stale => UpToDate(v, a, x.view)
             /\ x.list # NoList /\ ~x.fresh => UpToDate(v, a, x.list[2])
  BY <1>3, <1>4
<1>6. UNCHANGED <<sessions, registry, subscribers, calls>>
  BY DEF ShowList
<1> QED
  BY <1>2, <1>5, <1>6, PageKeeps

\* Nothing is on its way to a page that connects.
LEMMA ConnectKeeps ==
  ASSUME PresenceInv, NEW v, Connect(v)
  PROVE  PresenceInv'
<1>1. /\ PresenceTypes /\ Queued /\ JoinsFollowed /\ DiscoveredIsOnline /\ PagesSound
      /\ v \notin ToSet(subscribers) /\ subscribers' = Append(subscribers, v)
      /\ UNCHANGED <<sessions, registry, calls>>
  BY DEF PresenceInv, Connect
<1>2. PICK x : x = [page[v] EXCEPT !.on = TRUE, !.view = sessions, !.stale = FALSE]
  OBVIOUS
<1>3. \A u \in Viewers : page'[u] = IF u = v THEN x ELSE page[u]
  BY <1>1, <1>2 DEF Connect, PresenceTypes
<1>4. ASSUME v \in Viewers
      PROVE  Page(x) /\ ~page[v].on /\ x.list = NoList /\ x.view = sessions
  <2>1. Page(page[v]) /\ ~page[v].on
    BY <1>1, <1>4 DEF PresenceTypes, Queued
  <2> QED
    BY <1>2, <2>1 DEF Page
<1>5. /\ IsSeq(subscribers') /\ ToSet(subscribers') = ToSet(subscribers) \cup {v}
      /\ Distinct(subscribers')
  <2>1. IsSeq(subscribers) /\ Distinct(subscribers)
    BY <1>1 DEF PresenceTypes
  <2>2. /\ IsSeq(subscribers') /\ ToSet(subscribers') = ToSet(subscribers) \cup {v}
        /\ Len(subscribers) \in Nat /\ DOMAIN subscribers = 1 .. Len(subscribers)
        /\ DOMAIN subscribers' = 1 .. Len(subscribers) + 1
        /\ \A j \in DOMAIN subscribers : subscribers'[j] = subscribers[j]
        /\ subscribers'[Len(subscribers) + 1] = v
    BY <1>1, <2>1, Added
  <2>3. \A j \in DOMAIN subscribers : subscribers[j] # v
    BY <1>1 DEF ToSet
  <2>4. \A j \in DOMAIN subscribers' : j \in DOMAIN subscribers \/ j = Len(subscribers) + 1
    BY <2>2
  <2> QED
    BY <2>1, <2>2, <2>3, <2>4 DEF Distinct
<1>6. PresenceTypes'
  <2>1. page' = [u \in Viewers |-> page'[u]]
    BY <1>1 DEF Connect, PresenceTypes
  <2> QED
    BY <1>1, <1>3, <1>4, <1>5, <2>1 DEF PresenceTypes
<1>7. Queued'
  <2>1. \A j \in DOMAIN calls : calls[j].todo \in Seq(ToSet(subscribers'))
    <3>1. ASSUME NEW s \in Seq(ToSet(subscribers)) PROVE s \in Seq(ToSet(subscribers'))
      BY <1>5
    <3> QED
      BY <1>1, <3>1 DEF Queued
  <2>2. \A u \in Viewers : page'[u].on => u \in ToSet(subscribers')
    BY <1>1, <1>3, <1>5 DEF Queued
  <2>3. calls' = calls
    BY <1>1
  <2>4. \A j, k \in DOMAIN calls' : Ready(calls'[j]) /\ Ready(calls'[k]) => j = k
    BY <1>1, <2>3 DEF Queued
  <2>5. \A j \in DOMAIN calls' :
          /\ calls'[j].at = "sent" => calls'[j].todo = << >>
          /\ calls'[j].todo \in Seq(ToSet(subscribers')) /\ Distinct(calls'[j].todo)
    BY <1>1, <2>1, <2>3 DEF Queued
  <2> QED
    BY <2>2, <2>4, <2>5 DEF Queued
<1>8. JoinsFollowed' /\ DiscoveredIsOnline'
  BY <1>1 DEF JoinsFollowed, DiscoveredIsOnline, Discovered, AgentOfCall
<1>9. PagesSound'
  <2>1. \A u, a : Coming(u, a)' = Coming(u, a) /\ (LastSays(u, a) => LastSays(u, a)')
    BY <1>1 DEF Coming, LastSays, Session
  <2>2. \A a : Coming(v, a) = {}
    <3>1. ASSUME NEW s \in Seq(ToSet(subscribers)) PROVE ToSet(s) \subseteq ToSet(subscribers)
      BY DEF ToSet
    <3> QED
      BY <1>1, <3>1 DEF Coming, Queued
  <2> SUFFICES ASSUME NEW u \in Viewers, page'[u].on, NEW a \in Agents
               PROVE  /\ Coming(u, a)' # {} => LastSays(u, a)'
                      /\ ~page'[u].stale => UpToDate(u, a, page'[u].view)
                      /\ page'[u].list # NoList /\ ~page'[u].fresh => UpToDate(u, a, page'[u].list[2])
    BY <1>1, <2>1 DEF PagesSound, UpToDate, Session
  <2>3. CASE u = v
    BY <1>3, <1>4, <2>1, <2>2, <2>3 DEF UpToDate
  <2>4. CASE u # v
    BY <1>1, <1>3, <2>1, <2>4 DEF PagesSound
  <2> QED
    BY <2>3, <2>4
<1> QED
  BY <1>6, <1>7, <1>8, <1>9 DEF PresenceInv

\* A restart forgets all, and closes every page.
LEMMA RestartKeeps ==
  ASSUME PresenceInv, Restart
  PROVE  PresenceInv'
<1>1. calls' = << >> /\ registry' = {} /\ subscribers' = << >>
  BY DEF Restart
<1>2. /\ page' = [v \in Viewers |-> page'[v]]
      /\ \A v \in Viewers : Page(page'[v]) /\ ~page'[v].on
  <2>1. ASSUME NEW v \in Viewers PROVE Page(page'[v]) /\ ~page'[v].on
    <3>1. Page(page[v])
      BY DEF PresenceInv, PresenceTypes
    <3>2. page'[v] = [page[v] EXCEPT !.on = FALSE, !.list = NoList]
      BY DEF Restart
    <3> QED
      BY <3>1, <3>2 DEF Page
  <2>2. page' = [v \in Viewers |-> [page[v] EXCEPT !.on = FALSE, !.list = NoList]]
    BY DEF Restart
  <2> QED
    BY <2>1, <2>2
<1>3. IsSeq(<< >>) /\ Distinct(<< >>)
  BY EmptySet DEF IsSeq, Distinct
<1>4. PresenceTypes' /\ Queued' /\ JoinsFollowed' /\ DiscoveredIsOnline' /\ PagesSound'
  BY <1>1, <1>2, <1>3, EmptySet
  DEF PresenceTypes, Queued, JoinsFollowed, DiscoveredIsOnline, Discovered, PagesSound
<1> QED
  BY <1>4 DEF PresenceInv

LEMMA PresenceStep ==
  ASSUME PresenceInv, PresenceNext
  PROVE  PresenceInv'
<1>0. PresenceTypes
  BY DEF PresenceInv
<1>1. ASSUME NEW c \in left.clients,
             GoOnline(c) \/ EnsureSession(c) \/ GiveUp(c) \/ Beat(c) \/ ServerBeat(c)
               \/ GoOffline(c) \/ Shutdown(c) \/ SetStatus(c) \/ Report(c)
      PROVE  PresenceInv'
  <2>1. UNCHANGED <<sessions, registry, subscribers, page>>
    BY <1>1 DEF GoOnline, EnsureSession, AskSession, GiveUp, Beat, ServerBeat, KeepAlive,
                GoOffline, Shutdown, EndSession, SetStatus, Report, Tell
  <2>2. CASE GiveUp(c)
    <3>1. calls' = Unawaited(c)
      BY <2>2 DEF GiveUp
    <3>2. SameRequests
      BY <1>0, <3>1, UnawaitedSame DEF SameRequests
    <3> QED
      BY <2>1, <3>2, QuietKeeps
  <2>3. CASE ~GiveUp(c)
    <3>1. PICK kind, id : kind \in {"start", "beat", "status", "end"} /\ Ask(c, kind, id)
      BY <1>1, <2>3 DEF GoOnline, EnsureSession, AskSession, Beat, ServerBeat, KeepAlive,
                        GoOffline, Shutdown, EndSession, SetStatus, Report, Tell
    <3>2. SameRequests
      BY <1>0, <3>1, AskSame
    <3> QED
      BY <2>1, <3>2, QuietKeeps
  <2> QED
    BY <2>2, <2>3
<1>2. ASSUME NEW i \in DOMAIN calls, Handle(i) \/ Continue(i) \/ Deliver(i)
      PROVE  PresenceInv'
  BY <1>2, HandleKeeps, ContinueKeeps, DeliverKeeps
<1>3. ASSUME NEW v, Connect(v) \/ Close(v) \/ List(v) \/ ShowList(v)
      PROVE  PresenceInv'
  BY <1>3, ConnectKeeps, CloseKeeps, ListKeeps, ShowListKeeps
<1> QED
  BY <1>1, <1>2, <1>3, RestartKeeps DEF PresenceNext

LEMMA PresenceStutters ==
  ASSUME PresenceInv, UNCHANGED presenceVars
  PROVE  PresenceInv'
<1>1. PresenceTypes' /\ Queued'
  BY DEF presenceVars, PresenceInv, PresenceTypes, Queued, Ready
<1>2. JoinsFollowed' /\ DiscoveredIsOnline'
  BY DEF presenceVars, PresenceInv, JoinsFollowed, DiscoveredIsOnline, Discovered, AgentOfCall
<1>3. PagesSound'
  <2>1. \A u, a : Coming(u, a)' = Coming(u, a) /\ (LastSays(u, a) => LastSays(u, a)')
    BY DEF presenceVars, Coming, LastSays, Session
  <2> QED
    BY <2>1 DEF presenceVars, PresenceInv, PagesSound, UpToDate, Session
<1> QED
  BY <1>1, <1>2, <1>3 DEF PresenceInv

\* At the start nothing is there.
LEMMA PresenceStarts ==
  ASSUME PresenceInit
  PROVE  PresenceInv
<1>1. IsSeq(<< >>) /\ Distinct(<< >>)
  BY EmptySet DEF IsSeq, Distinct
<1>2. \A v \in Viewers : Page(page[v]) /\ ~page[v].on
  BY DEF PresenceInit, Page
<1>3. PresenceTypes
  BY <1>1, <1>2, EmptySet DEF PresenceInit, PresenceTypes
<1>4. Queued /\ JoinsFollowed /\ DiscoveredIsOnline /\ PagesSound
  BY <1>2, EmptySet
  DEF PresenceInit, Queued, JoinsFollowed, DiscoveredIsOnline, Discovered, PagesSound
<1> QED
  BY <1>3, <1>4 DEF PresenceInv

\* Every page that is connected shows who is online, or will by what is on its way
\* to it, and an agent that can be discovered is online, but while its end is being
\* told (PresenceStore and the registry of walrusos_bridge.py): whatever requests
\* of whatever agents overlap, are answered too late or lost in a restart.
THEOREM PresenceStaysSound == BridgeSpec => []PresenceSound
<1>1. BridgeInit => PresenceInv
  BY PresenceStarts DEF BridgeInit
<1>2. PresenceInv /\ [BridgeNext]_bridgeVars => PresenceInv'
  <2> SUFFICES ASSUME PresenceInv, [BridgeNext]_bridgeVars
               PROVE  PresenceInv'
    OBVIOUS
  <2>1. PresenceNext \/ UNCHANGED presenceVars
    BY DEF BridgeNext, bridgeVars
  <2> QED
    BY <2>1, PresenceStep, PresenceStutters
<1>3. PresenceInv => PresenceSound
  BY DEF PresenceInv, PagesSound, UpToDate, PresenceSound, PageCatchesUp
<1> QED
  BY <1>1, <1>2, <1>3, PTL DEF BridgeSpec

-----------------------------------------------------------------------------
(***************************************************************************)
(* The event feed                                                          *)
(***************************************************************************)

Poll == [counters : [Streams -> Nat] \cup {<< >>}, at : Streams \cup {"none"}, out : Seq(Event)]

\* A connection has its fields.
Connection(x) == x \in [last : [Streams -> Nat], poll : Poll, sent : {x.sent}]

FeedTypes ==
  /\ feed = [w \in Watchers |-> feed[w]] /\ \A w \in Watchers : Connection(feed[w])
  /\ top \in [Streams -> Nat]

\* No row and no counter is above the highest epoch that was.
TopSound ==
  \A s \in Streams : counter[s] <= top[s] /\ \A i \in DOMAIN events[s] : events[s][i].epoch <= top[s]

\* What was news was written.
NewsWritten == \A id \in news : id[1] \in Jobs /\ id[2] \in 1 .. job[id[1]].written

\* Connection x has sent a row that was news, or is about to, or it is above bound.
Shows(x, s, bound, out) ==
  \A i \in DOMAIN events[s] : events[s][i].id \in news =>
    \/ events[s][i].id \in x.sent
    \/ events[s][i].epoch > bound
    \/ \E n \in DOMAIN out : out[n].id = events[s][i].id

\* A connection has seen no epoch that was not, and neither has its poll; once
\* it has sent what it read, it has seen what its poll says.
ConnectionSound(x) ==
  \A s \in Streams :
    /\ x.last[s] <= top[s]
    /\ s \in DOMAIN x.poll.counters => x.poll.counters[s] <= top[s]
    /\ Shows(x, s, x.last[s], << >>)
    /\ x.poll.at = s /\ s # "none" =>
         s \in DOMAIN x.poll.counters /\ Shows(x, s, x.poll.counters[s], x.poll.out)

FeedInv ==
  /\ StreamInv /\ FeedTypes /\ TopSound /\ NewsWritten
  /\ \A w \in Watchers : ConnectionSound(feed[w])

-----------------------------------------------------------------------------
\* What a stream's rows are after a step.
LEMMA RowsAfter ==
  ASSUME StreamInv, NEW s \in Streams, Grows(s)
  PROVE  \/ events'[s] = << >>
         \/ events'[s] = events[s]
         \/ \E j \in Jobs, row \in Event, n \in Nat :
              /\ DOMAIN events[s] = 1 .. n /\ DOMAIN events'[s] = 1 .. n + 1
              /\ \A k \in 1 .. n : events'[s][k] = events[s][k]
              /\ events'[s][n + 1] = row /\ Len(events'[s]) = n + 1
              /\ row.id = <<j, job[j].written + 1>>
<1>1. PICK held : held = events[s] /\ held \in Seq(Event)
  BY DEF StreamInv, TypeOK
<1>2. ASSUME NEW j \in Jobs, NEW row \in Event, events'[s] = Append(events[s], row),
             row.id = <<j, job[j].written + 1>>
      PROVE  \E n \in Nat :
              /\ DOMAIN events[s] = 1 .. n /\ DOMAIN events'[s] = 1 .. n + 1
              /\ \A k \in 1 .. n : events'[s][k] = events[s][k]
              /\ events'[s][n + 1] = row /\ Len(events'[s]) = n + 1
  <2>1. PICK more : more = events'[s] /\ more = Append(held, row)
    BY <1>1, <1>2
  <2>2. /\ Len(held) \in Nat /\ DOMAIN held = 1 .. Len(held) /\ DOMAIN more = 1 .. Len(held) + 1
        /\ more[Len(held) + 1] = row /\ \A k \in 1 .. Len(held) : more[k] = held[k]
        /\ Len(more) = Len(held) + 1
    BY <1>1, <2>1
  <2> QED
    BY <1>1, <2>1, <2>2
<1> QED
  BY <1>2 DEF Grows

\* The last row of a stream.
LEMMA LastRow ==
  ASSUME NEW s \in Seq(Event), s # << >>
  PROVE  Len(s) \in DOMAIN s /\ Last(s) = s[Len(s)] /\ Last(s) \in Event
BY DEF Last

\* A row that is news after a step was before, or is above all epochs that were.
LEMMA NewsAbove ==
  ASSUME FeedInv, MemoryGrows, NEW s \in Streams, NEW i \in DOMAIN events'[s], events'[s][i].id \in news'
  PROVE  \/ i \in DOMAIN events[s] /\ events'[s][i] = events[s][i] /\ events[s][i].id \in news
         \/ events'[s][i].epoch > top[s]
<1> DEFINE grown == {t \in Streams : events'[t] # << >> /\ Last(events'[t]).epoch > top[t]}
<1>1. /\ StreamInv /\ StreamInv' /\ FeedTypes /\ TopSound /\ NewsWritten
      /\ \A t \in Streams : Grows(t)
  BY NextKeeps, NextMoves DEF FeedInv, MemoryGrows, Moves
<1>2. news' = news \cup {Last(events'[t]).id : t \in grown}
  BY DEF MemoryGrows
<1>3. /\ events \in [Streams -> Seq(Event)] /\ events' \in [Streams -> Seq(Event)]
      /\ TypeOK /\ JobsSound /\ RowsHome /\ RowsHome'
  BY <1>1 DEF StreamInv, TypeOK
<1>4. \A t \in Streams : \A k \in DOMAIN events[t] : \A j \in Jobs : events[t][k].id # <<j, job[j].written + 1>>
  <2> SUFFICES ASSUME NEW t \in Streams, NEW k \in DOMAIN events[t], NEW j \in Jobs,
                      events[t][k].id = <<j, job[j].written + 1>>
               PROVE  FALSE
    OBVIOUS
  <2>1. job[j].written + 1 <= job[j].written /\ job[j].written \in Nat
    BY <1>3, Written, JobTypes
  <2> QED
    BY <2>1
<1>5. \A j \in Jobs : <<j, job[j].written + 1>> \notin news
  <2> SUFFICES ASSUME NEW j \in Jobs, <<j, job[j].written + 1>> \in news PROVE FALSE
    OBVIOUS
  <2>1. job[j].written + 1 \in 1 .. job[j].written /\ job[j].written \in Nat
    BY <1>1, <1>3, JobTypes DEF NewsWritten
  <2> QED
    BY <2>1
\* The last row of a stream that has grown is new.
<1>6. ASSUME NEW t \in grown
      PROVE  \E j \in Jobs, row \in Event, n \in Nat :
              /\ DOMAIN events[t] = 1 .. n /\ DOMAIN events'[t] = 1 .. n + 1
              /\ events'[t][n + 1] = row /\ Last(events'[t]) = row
              /\ row.id = <<j, job[j].written + 1>> /\ row.epoch > top[t]
  <2>1. /\ t \in Streams /\ events'[t] # << >> /\ Last(events'[t]).epoch > top[t]
        /\ Len(events'[t]) \in DOMAIN events'[t] /\ Last(events'[t]) = events'[t][Len(events'[t])]
    BY <1>3, LastRow
  <2>2. events'[t] # events[t]
    <3> SUFFICES ASSUME events'[t] = events[t] PROVE FALSE
      OBVIOUS
    <3>1. Last(events'[t]).epoch <= top[t]
      BY <1>1, <2>1 DEF TopSound
    <3>2. Last(events'[t]).epoch \in Nat /\ top[t] \in Nat
      <4>1. Last(events'[t]) \in Event /\ \A r \in Event : r.epoch \in Nat
        BY <1>3, <2>1, LastRow DEF Event
      <4> QED
        BY <1>1, <2>1, <4>1 DEF FeedTypes
    <3> QED
      BY <2>1, <3>1, <3>2
  <2>3. PICK j \in Jobs, row \in Event, n \in Nat :
          /\ DOMAIN events[t] = 1 .. n /\ DOMAIN events'[t] = 1 .. n + 1
          /\ events'[t][n + 1] = row /\ Len(events'[t]) = n + 1
          /\ row.id = <<j, job[j].written + 1>>
    BY <1>1, <2>1, <2>2, RowsAfter
  <2>4. Last(events'[t]) = row
    BY <2>1, <2>3
  <2> QED
    BY <2>1, <2>3, <2>4
<1>7. CASE i \in DOMAIN events[s] /\ events'[s][i] = events[s][i]
  <2>1. events[s][i].id \notin {Last(events'[t]).id : t \in grown}
    BY <1>4, <1>6, <1>7
  <2> QED
    BY <1>2, <1>7, <2>1
<1>8. CASE ~(i \in DOMAIN events[s] /\ events'[s][i] = events[s][i])
  <2>1. events'[s] # << >> /\ events'[s] # events[s]
    BY <1>8
  <2>2. PICK j \in Jobs, row \in Event, n \in Nat :
          /\ DOMAIN events[s] = 1 .. n /\ DOMAIN events'[s] = 1 .. n + 1
          /\ \A k \in 1 .. n : events'[s][k] = events[s][k]
          /\ events'[s][n + 1] = row
          /\ row.id = <<j, job[j].written + 1>>
    BY <1>1, <2>1, RowsAfter
  <2>3. i = n + 1 /\ events'[s][i] = row
    BY <1>8, <2>2
  <2>4. PICK t \in grown : Last(events'[t]).id = row.id
    BY <1>2, <1>5, <2>2, <2>3
  <2>5. PICK m \in Nat : /\ DOMAIN events'[t] = 1 .. m + 1 /\ events'[t][m + 1] = Last(events'[t])
                         /\ DOMAIN events[t] = 1 .. m /\ Last(events'[t]).epoch > top[t]
    BY <1>6
  <2>6. t = s
    <3>1. job'[j].stream = s
      BY <1>3, <2>2, <2>3 DEF RowsHome
    <3>2. job'[j].stream = t
      BY <1>3, <2>2, <2>4, <2>5 DEF RowsHome
    <3> QED
      BY <3>1, <3>2
  <2>7. m = n
    <3>1. 1 .. m = 1 .. n
      BY <2>2, <2>5, <2>6
    <3> QED
      BY <3>1
  <2> QED
    BY <2>3, <2>5, <2>6, <2>7
<1> QED
  BY <1>7, <1>8

\* A write to the streams: rows come and go, and what is news is above all that
\* the connections have seen.
LEMMA MemoryKeepsFeed ==
  ASSUME FeedInv, MemoryGrows
  PROVE  FeedInv'
<1> DEFINE grown == {t \in Streams : events'[t] # << >> /\ Last(events'[t]).epoch > top[t]}
<1>1. /\ StreamInv' /\ JobsKept /\ FeedTypes /\ TopSound /\ NewsWritten
      /\ \A w \in Watchers : ConnectionSound(feed[w])
      /\ \A t \in Streams : Grows(t)
  BY NextKeeps, NextMoves DEF FeedInv, MemoryGrows, Moves
<1>2. /\ feed' = feed
      /\ top' = [s \in Streams |-> IF s \in grown THEN Last(events'[s]).epoch ELSE top[s]]
      /\ news' = news \cup {Last(events'[s]).id : s \in grown}
  BY DEF MemoryGrows
<1>3. TypeOK' /\ RowsHome' /\ StreamInv /\ \A j \in Jobs : job'[j] \in Job
  BY <1>1 DEF StreamInv, TypeOK, FeedInv
<1>4. events' \in [Streams -> Seq(Event)] /\ \A row \in Event : row.epoch \in Nat /\ row.id \in EventId
  BY <1>3 DEF TypeOK, Event
<1>5. ASSUME NEW s \in Streams
      PROVE  /\ top'[s] \in Nat /\ top[s] \in Nat /\ top[s] <= top'[s]
             /\ s \in grown => top'[s] = Last(events'[s]).epoch
             /\ events'[s] # << >> => /\ Len(events'[s]) \in DOMAIN events'[s]
                                      /\ Last(events'[s]) = events'[s][Len(events'[s])]
                                      /\ Last(events'[s]) \in Event
                                      /\ Last(events'[s]).epoch <= top'[s]
  <2>1. top[s] \in Nat
    BY <1>1 DEF FeedTypes
  <2>2. events'[s] # << >> => /\ Len(events'[s]) \in DOMAIN events'[s]
                              /\ Last(events'[s]) = events'[s][Len(events'[s])]
                              /\ Last(events'[s]) \in Event /\ Last(events'[s]).epoch \in Nat
    BY <1>4, LastRow
  <2>3. top'[s] = IF s \in grown THEN Last(events'[s]).epoch ELSE top[s]
    BY <1>2
  <2>4. s \in grown <=> events'[s] # << >> /\ Last(events'[s]).epoch > top[s]
    OBVIOUS
  <2> HIDE DEF grown
  <2> QED
    BY <2>1, <2>2, <2>3, <2>4
<1>6. FeedTypes'
  <2>1. top' \in [Streams -> Nat]
    BY <1>2, <1>5
  <2> QED
    BY <1>1, <1>2, <2>1 DEF FeedTypes
<1>7. TopSound'
  <2> SUFFICES ASSUME NEW s \in Streams
               PROVE  counter'[s] <= top'[s] /\ \A i \in DOMAIN events'[s] : events'[s][i].epoch <= top'[s]
    BY DEF TopSound
  <2>1. counter'[s] = IF events'[s] = << >> THEN 0 ELSE Last(events'[s]).epoch
    BY <1>3 DEF TypeOK
  <2>2. counter'[s] <= top'[s]
    BY <1>5, <2>1
  <2>3. ASSUME NEW i \in DOMAIN events'[s] PROVE events'[s][i].epoch <= top'[s]
    <3>1. \A k \in DOMAIN events[s] : events[s][k].epoch <= top'[s]
      <4>1. \A k \in DOMAIN events[s] : events[s][k].epoch \in Nat /\ events[s][k].epoch <= top[s]
        BY <1>1, <1>3, RowTypes DEF TopSound, StreamInv, TypeOK
      <4> QED
        BY <1>5, <4>1
    <3>2. events'[s] # << >>
      BY <2>3
    <3>3. CASE events'[s] = events[s]
      BY <2>3, <3>1, <3>3
    <3>4. CASE events'[s] # events[s]
      <4>1. PICK n \in Nat :
              /\ DOMAIN events[s] = 1 .. n /\ DOMAIN events'[s] = 1 .. n + 1
              /\ \A k \in 1 .. n : events'[s][k] = events[s][k]
              /\ Len(events'[s]) = n + 1
        BY <1>1, <1>3, <3>2, <3>4, RowsAfter
      <4>2. i \in 1 .. n \/ i = n + 1
        BY <2>3, <4>1
      <4> QED
        BY <1>5, <3>1, <3>2, <4>1, <4>2
    <3> QED
      BY <3>3, <3>4
  <2> QED
    BY <2>2, <2>3
<1>8. NewsWritten'
  <2> SUFFICES ASSUME NEW id \in news' PROVE id[1] \in Jobs /\ id[2] \in 1 .. job'[id[1]].written
    BY DEF NewsWritten
  <2>1. CASE id \in news
    <3>1. id[1] \in Jobs /\ id[2] \in 1 .. job[id[1]].written
      BY <1>1, <2>1 DEF NewsWritten
    <3>2. job'[id[1]].written >= job[id[1]].written /\ job[id[1]].written \in Nat
          /\ job'[id[1]].written \in Nat
      <4>1. \A j \in Jobs : job[j].written \in Nat
        BY <1>3, JobTypes DEF StreamInv
      <4>2. \A j \in Jobs : job'[j].written \in Nat
        BY <1>3 DEF Job
      <4> QED
        BY <1>1, <3>1, <4>1, <4>2 DEF JobsKept
    <3> QED
      BY <3>1, <3>2
  <2>2. CASE id \notin news
    <3>1. PICK s \in grown : id = Last(events'[s]).id
      BY <1>2, <2>2
    <3>2. PICK i \in DOMAIN events'[s] : id = events'[s][i].id /\ events'[s][i] \in Event
      BY <1>5, <3>1
    <3>3. id[1] \in Jobs
      BY <1>4, <3>2 DEF EventId
    <3> QED
      BY <1>3, <3>2, <3>3 DEF RowsHome
  <2> QED
    BY <2>1, <2>2
<1>9. ASSUME NEW w \in Watchers, NEW x, x = feed[w] PROVE ConnectionSound(x)'
  <2> SUFFICES ASSUME NEW s \in Streams
               PROVE  /\ x.last[s] <= top'[s]
                      /\ s \in DOMAIN x.poll.counters => x.poll.counters[s] <= top'[s]
                      /\ Shows(x, s, x.last[s], << >>)'
                      /\ x.poll.at = s /\ s # "none" =>
                           /\ s \in DOMAIN x.poll.counters
                           /\ Shows(x, s, x.poll.counters[s], x.poll.out)'
    BY DEF ConnectionSound
  <2>1. /\ x.last[s] <= top[s]
        /\ s \in DOMAIN x.poll.counters => x.poll.counters[s] <= top[s]
        /\ Shows(x, s, x.last[s], << >>)
        /\ x.poll.at = s /\ s # "none" =>
             s \in DOMAIN x.poll.counters /\ Shows(x, s, x.poll.counters[s], x.poll.out)
    BY <1>1, <1>9 DEF ConnectionSound
  <2>2. /\ x.last[s] \in Nat
        /\ s \in DOMAIN x.poll.counters => x.poll.counters[s] \in Nat
    <3>1. Connection(x)
      BY <1>1, <1>9 DEF FeedTypes
    <3> QED
      BY <3>1 DEF Connection, Poll
  <2>3. ASSUME NEW bound \in Nat, bound <= top[s], NEW out, Shows(x, s, bound, out)
        PROVE  Shows(x, s, bound, out)'
    <3> SUFFICES ASSUME NEW i \in DOMAIN events'[s], events'[s][i].id \in news'
                 PROVE  \/ events'[s][i].id \in x.sent
                        \/ events'[s][i].epoch > bound
                        \/ \E n \in DOMAIN out : out[n].id = events'[s][i].id
      BY DEF Shows
    <3>1. CASE i \in DOMAIN events[s] /\ events'[s][i] = events[s][i] /\ events[s][i].id \in news
      BY <2>3, <3>1 DEF Shows
    <3>2. CASE events'[s][i].epoch > top[s]
      <4>1. events'[s][i].epoch \in Nat /\ top[s] \in Nat
        BY <1>4, <1>5
      <4> QED
        BY <2>3, <3>2, <4>1
    <3> QED
      BY <3>1, <3>2, NewsAbove
  <2> QED
    BY <1>5, <2>1, <2>2, <2>3
<1>10. (\A w \in Watchers : ConnectionSound(feed[w]))'
  BY <1>2, <1>9 DEF ConnectionSound, Shows
<1> QED
  BY <1>1, <1>6, <1>7, <1>8, <1>10 DEF FeedInv

-----------------------------------------------------------------------------
\* A step of one connection: the streams stay as they are.
LEMMA ConnectionKeeps ==
  ASSUME FeedInv, OnlyFeed, NEW w \in Watchers, NEW x, feed' = [feed EXCEPT ![w] = x],
         Connection(x), ConnectionSound(x)
  PROVE  FeedInv'
<1>1. /\ StreamInv /\ FeedTypes /\ TopSound /\ NewsWritten /\ \A u \in Watchers : ConnectionSound(feed[u])
      /\ UNCHANGED vars /\ top' = top /\ news' = news
  BY DEF FeedInv, OnlyFeed
<1>2. StreamInv'
  BY <1>1, NothingKeeps
<1>3. events' = events /\ counter' = counter /\ job' = job
  BY <1>1 DEF vars
<1>4. \A u \in Watchers : feed'[u] = IF u = w THEN x ELSE feed[u]
  BY <1>1 DEF FeedTypes
<1>5. FeedTypes'
  BY <1>1, <1>4 DEF FeedTypes
<1>6. TopSound' /\ NewsWritten'
  BY <1>1, <1>3 DEF TopSound, NewsWritten
<1>7. (\A u \in Watchers : ConnectionSound(feed[u]))'
  BY <1>1, <1>3, <1>4 DEF ConnectionSound, Shows
<1> QED
  BY <1>2, <1>5, <1>6, <1>7 DEF FeedInv

\* What a poll reads of a stream has every row that the connection has not seen.
LEMMA AboveHas ==
  ASSUME NEW w, NEW s, events[s] \in Seq(Event), feed[w].last[s] \in Nat
  PROVE  /\ Above(w, s) \in Seq(Event)
         /\ \A i \in DOMAIN events[s] : events[s][i].epoch > feed[w].last[s] =>
              \E n \in DOMAIN Above(w, s) : Above(w, s)[n] = events[s][i]
<1> DEFINE seen == {i \in DOMAIN events[s] : events[s][i].epoch <= feed[w].last[s]}
<1>1. /\ Len(events[s]) \in Nat /\ DOMAIN events[s] = 1 .. Len(events[s])
      /\ \A i \in DOMAIN events[s] : events[s][i].epoch \in Nat
  BY RowTypes
<1>2. IsFiniteSet(DOMAIN events[s])
  BY <1>1, FS_Interval
<1>3. IsFiniteSet(seen) /\ Cardinality(seen) \in Nat
  BY <1>2, FS_Subset, FS_CardinalityType
<1>4. PICK k, m : k = Cardinality(seen) /\ m = Len(events[s])
  OBVIOUS
<1>5. PICK out : out = SubSeq(Timeline(s), k + 1, m)
  OBVIOUS
<1>6. out = Above(w, s)
  BY <1>4, <1>5 DEF Above
<1>7. \A n \in 1 .. m : Timeline(s)[n] \in Event
  BY <1>1, <1>4, TimelineRows
<1>8. /\ out \in Seq(Event) /\ Len(out) = IF k + 1 <= m THEN m - (k + 1) + 1 ELSE 0
      /\ \A n \in 1 .. m - (k + 1) + 1 : out[n] = Timeline(s)[k + 1 + n - 1]
  <2> HIDE DEF seen
  <2>1. k + 1 \in Int /\ m \in Int /\ \A n \in k + 1 .. m : Timeline(s)[n] \in Event
    <3>1. k \in Nat /\ m \in Nat
      BY <1>1, <1>3, <1>4
    <3>2. \A n \in k + 1 .. m : n \in 1 .. m
      BY <3>1
    <3> QED
      BY <1>7, <3>1, <3>2
  <2> QED
    BY <1>5, <2>1, SubSeqProperties
<1>9. ASSUME NEW i \in DOMAIN events[s], events[s][i].epoch > feed[w].last[s]
      PROVE  \E n \in DOMAIN out : out[n] = events[s][i]
  <2>1. Place(s, i) \in 1 .. m /\ Timeline(s)[Place(s, i)] = events[s][i]
    BY <1>1, <1>4, TimelineRows
  <2>2. k < Place(s, i)
    <3>1. seen \subseteq UpTo(s, i) /\ i \in UpTo(s, i) \ seen
      BY <1>1, <1>9 DEF UpTo
    <3>2. IsFiniteSet(UpTo(s, i))
      BY <1>2, FS_Subset DEF UpTo
    <3>3. /\ Cardinality(seen) <= Cardinality(UpTo(s, i))
          /\ Cardinality(UpTo(s, i)) = Cardinality(seen) => UpTo(s, i) = seen
      BY <3>1, <3>2, FS_Subset
    <3>4. Cardinality(UpTo(s, i)) = Place(s, i)
      BY DEF UpTo, Place
    <3>5. Cardinality(seen) # Place(s, i)
      BY <3>1, <3>3, <3>4
    <3> HIDE DEF seen
    <3> QED
      BY <1>3, <1>4, <2>1, <3>3, <3>4, <3>5
  <2>3. PICK n : n = Place(s, i) - k
    OBVIOUS
  <2>4. /\ n \in 1 .. m - (k + 1) + 1 /\ k + 1 + n - 1 = Place(s, i) /\ k + 1 <= m
        /\ m - (k + 1) + 1 \in Nat
    BY <1>1, <1>3, <1>4, <2>1, <2>2, <2>3
  <2>5. n \in DOMAIN out /\ out[n] = events[s][i]
    <3>1. DOMAIN out = 1 .. Len(out)
      BY <1>8
    <3> QED
      BY <1>8, <2>1, <2>4, <3>1
  <2> QED
    BY <2>5
<1> QED
  BY <1>6, <1>8, <1>9

LEMMA LookKeeps ==
  ASSUME FeedInv, NEW w \in Watchers, Look(w)
  PROVE  FeedInv'
<1>1. /\ Connection(feed[w]) /\ ConnectionSound(feed[w]) /\ OnlyFeed
      /\ \A s \in Streams : events[s] \in Seq(Event)
  BY DEF FeedInv, FeedTypes, StreamInv, TypeOK, Look
<1>2. PICK poll : poll = feed[w].poll
  OBVIOUS
<1>3. PICK s, out :
        /\ s \in DOMAIN poll.counters /\ out = Above(w, s)
        /\ feed' = [feed EXCEPT ![w].poll = [poll EXCEPT !.at = s, !.out = out]]
  BY <1>2 DEF Look, Polling
<1>4. /\ poll \in Poll /\ feed[w].last \in [Streams -> Nat] /\ s \in Streams
      /\ poll.counters \in [Streams -> Nat]
  BY <1>1, <1>2, <1>3 DEF Connection, Poll
<1>5. /\ out \in Seq(Event)
      /\ \A i \in DOMAIN events[s] : events[s][i].epoch > feed[w].last[s] =>
           \E n \in DOMAIN out : out[n] = events[s][i]
  BY <1>1, <1>3, <1>4, AboveHas
<1>6. PICK read : read = [poll EXCEPT !.at = s, !.out = out]
  OBVIOUS
<1>7. read \in Poll /\ read.counters = poll.counters /\ read.at = s /\ read.out = out
  BY <1>4, <1>5, <1>6 DEF Poll
<1>8. PICK x : x = [feed[w] EXCEPT !.poll = read]
  OBVIOUS
<1>9. feed' = [feed EXCEPT ![w] = x]
  BY <1>3, <1>6, <1>8
<1>10. Connection(x) /\ x.last = feed[w].last /\ x.sent = feed[w].sent /\ x.poll = read
  BY <1>1, <1>7, <1>8 DEF Connection
<1>11. ConnectionSound(x)
  <2>1. ASSUME NEW i \in DOMAIN events[s], events[s][i].id \in news
        PROVE  \/ events[s][i].id \in x.sent
               \/ \E n \in DOMAIN out : out[n].id = events[s][i].id
    BY <1>1, <1>4, <1>5, <1>10, <2>1 DEF ConnectionSound, Shows
  <2>2. Shows(x, s, poll.counters[s], out)
    BY <2>1 DEF Shows
  <2> QED
    <3>1. \A t \in Streams : Shows(x, t, x.last[t], << >>)
      BY <1>1, <1>10 DEF ConnectionSound, Shows
    <3>2. \A t \in Streams :
            /\ x.last[t] <= top[t]
            /\ t \in DOMAIN x.poll.counters => x.poll.counters[t] <= top[t]
      BY <1>1, <1>2, <1>7, <1>10 DEF ConnectionSound
    <3> QED
      BY <1>3, <1>7, <1>10, <2>2, <3>1, <3>2 DEF ConnectionSound
<1> QED
  BY <1>1, <1>9, <1>10, <1>11, ConnectionKeeps

LEMMA SendKeeps ==
  ASSUME FeedInv, NEW w \in Watchers, Send(w)
  PROVE  FeedInv'
<1>1. Connection(feed[w]) /\ ConnectionSound(feed[w]) /\ OnlyFeed
  BY DEF FeedInv, FeedTypes, Send
<1>2. PICK poll, out : poll = feed[w].poll /\ out = poll.out
  OBVIOUS
<1>3. poll \in Poll /\ out \in Seq(Event) /\ out # << >>
  BY <1>1, <1>2 DEF Connection, Poll, Send
<1>4. PICK id, rest : id = Head(out).id /\ rest = Tail(out)
  OBVIOUS
<1>5. rest \in Seq(Event) /\ \A n \in DOMAIN out : out[n].id = id \/ \E k \in DOMAIN rest : rest[k] = out[n]
  <2>1. /\ rest \in Seq(Event) /\ Len(rest) = Len(out) - 1 /\ DOMAIN rest = 1 .. Len(out) - 1
        /\ \A k \in 1 .. Len(out) - 1 : rest[k] = out[k + 1]
        /\ Len(out) \in Nat /\ DOMAIN out = 1 .. Len(out) /\ Head(out) = out[1]
    BY <1>3, <1>4
  <2>2. ASSUME NEW n \in DOMAIN out, n # 1 PROVE \E k \in DOMAIN rest : rest[k] = out[n]
    <3>1. n - 1 \in 1 .. Len(out) - 1 /\ n - 1 + 1 = n
      BY <2>1, <2>2
    <3> QED
      BY <2>1, <3>1
  <2> QED
    BY <1>4, <2>1, <2>2
<1>6. PICK x : x = [feed[w] EXCEPT !.poll = [poll EXCEPT !.out = rest], !.sent = feed[w].sent \cup {id}]
  OBVIOUS
<1>7. feed' = [feed EXCEPT ![w] = x]
  BY <1>2, <1>4, <1>6 DEF Send
<1>8. /\ Connection(x) /\ x.last = feed[w].last /\ x.sent = feed[w].sent \cup {id}
      /\ x.poll.counters = poll.counters /\ x.poll.at = poll.at /\ x.poll.out = rest
  <2>1. PICK read : read = [poll EXCEPT !.out = rest]
    OBVIOUS
  <2>2. read \in Poll /\ read.counters = poll.counters /\ read.at = poll.at /\ read.out = rest
    BY <1>3, <1>5, <2>1 DEF Poll
  <2> QED
    BY <1>1, <1>6, <2>1, <2>2 DEF Connection
<1>9. ConnectionSound(x)
  <2>1. ASSUME NEW s, NEW bound, Shows(feed[w], s, bound, out) PROVE Shows(x, s, bound, rest)
    BY <1>5, <1>8, <2>1 DEF Shows
  <2>2. ASSUME NEW s, NEW bound, Shows(feed[w], s, bound, << >>) PROVE Shows(x, s, bound, << >>)
    BY <1>8, <2>2 DEF Shows
  <2> QED
    BY <1>1, <1>2, <1>8, <2>1, <2>2 DEF ConnectionSound
<1> QED
  BY <1>1, <1>7, <1>8, <1>9, ConnectionKeeps

LEMMA AdvanceKeeps ==
  ASSUME FeedInv, NEW w \in Watchers, Advance(w)
  PROVE  FeedInv'
<1>1. Connection(feed[w]) /\ ConnectionSound(feed[w]) /\ OnlyFeed
  BY DEF FeedInv, FeedTypes, Advance
<1>2. PICK poll, s : poll = feed[w].poll /\ s = poll.at
  OBVIOUS
<1>3. /\ poll \in Poll /\ s # "none" /\ s \in Streams /\ poll.out = << >>
      /\ feed[w].last \in [Streams -> Nat]
  BY <1>1, <1>2 DEF Connection, Poll, Advance
<1>4. /\ s \in DOMAIN poll.counters /\ poll.counters[s] \in Nat /\ poll.counters[s] <= top[s]
      /\ Shows(feed[w], s, poll.counters[s], << >>)
  <2>1. s \in DOMAIN poll.counters /\ poll.counters[s] <= top[s]
    BY <1>1, <1>2, <1>3 DEF ConnectionSound
  <2>2. poll.counters[s] \in Nat
    BY <1>3, <2>1 DEF Poll
  <2>3. Shows(feed[w], s, poll.counters[s], poll.out)
    BY <1>1, <1>2, <1>3 DEF ConnectionSound
  <2> QED
    BY <1>3, <2>1, <2>2, <2>3
<1>5. PICK last, rest : /\ last = [feed[w].last EXCEPT ![s] = poll.counters[s]]
                        /\ rest = [poll EXCEPT !.at = "none"]
  OBVIOUS
<1>6. /\ last \in [Streams -> Nat]
      /\ \A t \in Streams : last[t] = IF t = s THEN poll.counters[s] ELSE feed[w].last[t]
      /\ rest \in Poll /\ rest.at = "none" /\ rest.counters = poll.counters
  BY <1>3, <1>4, <1>5 DEF Poll
<1>7. PICK x : x = [feed[w] EXCEPT !.last = last, !.poll = rest]
  OBVIOUS
<1>8. feed' = [feed EXCEPT ![w] = x]
  BY <1>2, <1>5, <1>7 DEF Advance, CounterRead
<1>9. Connection(x) /\ x.last = last /\ x.poll = rest /\ x.sent = feed[w].sent
  BY <1>1, <1>6, <1>7 DEF Connection
<1>10. ConnectionSound(x)
  <2>1. \A t, bound : Shows(feed[w], t, bound, << >>) => Shows(x, t, bound, << >>)
    BY <1>9 DEF Shows
  <2> QED
    BY <1>1, <1>2, <1>4, <1>6, <1>9, <2>1 DEF ConnectionSound
<1> QED
  BY <1>1, <1>8, <1>9, <1>10, ConnectionKeeps

\* A poll begins with the counters, and ends.
LEMMA PollKeeps ==
  ASSUME FeedInv, NEW w \in Watchers, StartPoll(w) \/ EndPoll(w)
  PROVE  FeedInv'
<1>1. Connection(feed[w]) /\ ConnectionSound(feed[w]) /\ OnlyFeed
  BY DEF FeedInv, FeedTypes, StartPoll, EndPoll
<1>2. counter \in [Streams -> Nat] /\ \A s \in Streams : counter[s] <= top[s]
  BY DEF FeedInv, StreamInv, TypeOK, TopSound
<1>3. PICK poll : /\ poll \in {NoPoll, [NoPoll EXCEPT !.counters = [s \in Streams |-> counter[s]]]}
                  /\ feed' = [feed EXCEPT ![w].poll = poll]
  BY DEF StartPoll, EndPoll, Polling
<1>4. /\ poll \in Poll /\ poll.at = "none"
      /\ \A s \in DOMAIN poll.counters : poll.counters[s] = counter[s]
  <2>1. NoPoll \in Poll /\ NoPoll.at = "none" /\ DOMAIN NoPoll.counters = {}
    BY DEF NoPoll, Poll
  <2>2. CASE poll = NoPoll
    BY <2>1, <2>2
  <2>3. CASE poll = [NoPoll EXCEPT !.counters = [s \in Streams |-> counter[s]]]
    <3>1. PICK c : c = [s \in Streams |-> counter[s]]
      OBVIOUS
    <3>2. c \in [Streams -> Nat] /\ \A s \in DOMAIN c : c[s] = counter[s]
      BY <1>2, <3>1
    <3>3. poll = [NoPoll EXCEPT !.counters = c]
      BY <2>3, <3>1
    <3>4. poll = [counters |-> c, at |-> "none", out |-> << >>]
      BY <3>3 DEF NoPoll
    <3>5. poll \in Poll
      <4>1. c \in [Streams -> Nat] \cup {<< >>} /\ << >> \in Seq(Event)
        BY <3>2
      <4> QED
        BY <3>4, <4>1, Zenon DEF Poll
    <3> QED
      BY <3>2, <3>4, <3>5
  <2> QED
    BY <1>3, <2>2, <2>3
<1>5. PICK x : x = [feed[w] EXCEPT !.poll = poll]
  OBVIOUS
<1>6. feed' = [feed EXCEPT ![w] = x]
  BY <1>3, <1>5
<1>7. Connection(x) /\ x.last = feed[w].last /\ x.poll = poll /\ x.sent = feed[w].sent
  BY <1>1, <1>4, <1>5 DEF Connection
<1>8. ConnectionSound(x)
  <2>1. \A t, bound : Shows(feed[w], t, bound, << >>) => Shows(x, t, bound, << >>)
    BY <1>7 DEF Shows
  <2> QED
    BY <1>1, <1>2, <1>4, <1>7, <2>1 DEF ConnectionSound
<1> QED
  BY <1>1, <1>6, <1>7, <1>8, ConnectionKeeps

LEMMA FeedStutters ==
  ASSUME FeedInv, UNCHANGED feedVars
  PROVE  FeedInv'
<1>1. /\ StreamInv /\ FeedTypes /\ TopSound /\ NewsWritten /\ \A u \in Watchers : ConnectionSound(feed[u])
      /\ UNCHANGED vars /\ top' = top /\ news' = news /\ feed' = feed
  BY DEF FeedInv, feedVars
<1>2. StreamInv'
  BY <1>1, NothingKeeps
<1>3. events' = events /\ counter' = counter /\ job' = job
  BY <1>1 DEF vars
<1>4. FeedTypes' /\ TopSound' /\ NewsWritten'
  BY <1>1, <1>3 DEF FeedTypes, TopSound, NewsWritten
<1>5. (\A u \in Watchers : ConnectionSound(feed[u]))'
  BY <1>1, <1>3 DEF ConnectionSound, Shows
<1> QED
  BY <1>2, <1>4, <1>5 DEF FeedInv

LEMMA FeedStarts ==
  ASSUME FeedInit
  PROVE  FeedInv
<1>1. StreamInv
  BY StreamInvHolds DEF FeedInit
<1>2. /\ \A s \in Streams : events[s] = << >> /\ counter[s] = 0 /\ top[s] = 0
      /\ \A w \in Watchers : /\ feed[w] = [last |-> [s \in Streams |-> 0], poll |-> NoPoll, sent |-> {}]
      /\ news = {}
  BY DEF FeedInit, Init
<1>3. NoPoll \in Poll /\ NoPoll.at = "none" /\ DOMAIN NoPoll.counters = {}
  BY DEF NoPoll, Poll
<1>4. FeedTypes
  BY <1>2, <1>3 DEF FeedInit, FeedTypes, Connection
<1>5. TopSound /\ NewsWritten
  BY <1>2 DEF TopSound, NewsWritten
<1>6. \A w \in Watchers : ConnectionSound(feed[w])
  BY <1>2, <1>3 DEF ConnectionSound, Shows
<1> QED
  BY <1>1, <1>4, <1>5, <1>6 DEF FeedInv

\* A connection to /ws/events sends, sooner or later, every event numbered above
\* those before it: none is passed over, whatever is written while it polls,
\* however the SDK's rows put the counter back, when a stream is deleted and
\* when a poll fails half way (events_ws of walrusos_bridge.py).
THEOREM FeedAlwaysShowsNewest == BridgeSpec => []FeedShowsNewest
<1>1. BridgeInit => FeedInv
  BY FeedStarts DEF BridgeInit
<1>2. FeedInv /\ [BridgeNext]_bridgeVars => FeedInv'
  <2> SUFFICES ASSUME FeedInv, [BridgeNext]_bridgeVars
               PROVE  FeedInv'
    OBVIOUS
  <2>1. FeedNext \/ UNCHANGED feedVars
    BY DEF BridgeNext, bridgeVars
  <2>2. CASE FeedNext
    BY <2>2, MemoryKeepsFeed, PollKeeps, LookKeeps, SendKeeps, AdvanceKeeps DEF FeedNext
  <2> QED
    BY <2>1, <2>2, FeedStutters
<1>3. FeedInv => FeedShowsNewest
  <2> SUFFICES ASSUME FeedInv, NEW w \in Watchers, NEW s \in Streams, NEW i \in DOMAIN events[s],
                      events[s][i].id \in news
               PROVE  events[s][i].id \in feed[w].sent \/ events[s][i].epoch > feed[w].last[s]
    BY DEF FeedShowsNewest
  <2> QED
    BY DEF FeedInv, ConnectionSound, Shows
<1> QED
  BY <1>1, <1>2, <1>3, PTL DEF BridgeSpec

-----------------------------------------------------------------------------
(***************************************************************************)
(* The frameworks' stores                                                  *)
(***************************************************************************)

RowType == {"turn", "message", "clear", "tombstone", "document", "deleted", "checkpoint", "writes"}
StoredRow == [type : RowType, content : {Chat[m] : m \in DOMAIN Chat} \cup {""}]

\* What a call that appends one row appends.
Appends == [message |-> {"message"}, clear |-> {"clear"}, tombstone |-> {"tombstone"},
            document |-> {"document", "deleted"}, put |-> {"checkpoint"}, writes |-> {"writes"}]

CallKind == {"none", "thread", "message", "clear", "tombstone", "document", "put", "writes"}

\* What a call of a store may be, whatever the others do.
StoreCall(x) ==
  /\ x \in [what : CallKind, items : Seq(StoredRow), at : Nat, upto : Nat]
  /\ x.at <= Len(x.items)
  /\ \/ x = NoCall
     \/ /\ x.what = "thread" /\ x.upto \in DOMAIN Chat
        /\ \A k \in DOMAIN x.items : x.items[k].type = "turn"
     \/ /\ x.what \in DOMAIN Appends
        /\ Len(x.items) = 1 /\ x.items[1].type \in Appends[x.what]

StoreTypes ==
  /\ stored \in Seq(StoredRow)
  /\ index \in BOOLEAN
  /\ done \in [thread : Nat, clear : Nat, put : Nat]
  /\ call \in [Callers -> {call[u] : u \in Callers}]
  /\ \A u \in Callers : StoreCall(call[u])

\* Two calls about one thing are a clash.
OneCaller ==
  \A u, v \in Callers :
    call[u].what = call[v].what /\ call[u].what \notin {"none"} \cup clash => u = v

\* A message is stored in st.
Told(st, m) == \E i \in Thread(st) : st[i].content = Chat[m]

\* A call x has appended, or is still to append, what its sync was given.
SyncSound(x) ==
  x.what = "thread" => \A m \in 1 .. x.upto :
    Told(stored, m) \/ \E k \in x.at + 1 .. Len(x.items) : x.items[k].content = Chat[m]

\* What is stored of the conversation is a beginning of it, in its order.
TurnsSound(st) ==
  \A i \in Thread(st) :
    /\ \A k \in Thread(st) : st[k].content = st[i].content => k = i
    /\ \E m \in DOMAIN Chat :
         /\ New(m) /\ st[i].content = Chat[m]
         /\ \A l \in 1 .. m - 1 : \E k \in Thread(st) : k < i /\ st[k].content = Chat[l]

\* And so it will be when a call has appended its items from a on.
Ahead(a, items) ==
  \A k \in a .. Len(items) :
    /\ \A i \in Thread(stored) : stored[i].content # items[k].content
    /\ \A l \in a .. Len(items) : items[l].content = items[k].content => l = k
    /\ \E m \in DOMAIN Chat :
         /\ New(m) /\ items[k].content = Chat[m]
         /\ \A l \in 1 .. m - 1 :
              Told(stored, l) \/ \E j \in a .. k - 1 : items[j].content = Chat[l]

AheadSound(x) == x.what = "thread" => Ahead(x.at + 1, x.items)

SyncsSound ==
  /\ \A m \in 1 .. done.thread : Told(stored, m)
  /\ \A u \in Callers : SyncSound(call[u])
  /\ "thread" \notin clash => TurnsSound(stored) /\ \A u \in Callers : AheadSound(call[u])

\* A call's document is in the stream, and not in the index yet or still.
Between(x) == x.what = "document" /\ x.at = 1

DocumentsSound ==
  "document" \notin clash =>
    /\ index => Document(stored) \/ \E u \in Callers : Between(call[u])
    /\ \A u \in Callers :
         Between(call[u]) /\ call[u].items[1].type = "document" => Document(stored)

\* A call x that marks how far the stream was has its mark behind that.
MarkSound(x, what, type) ==
  x.what = what => x.upto <= Len(stored) /\ (x.at = 1 => x.upto <= LastIndex(stored, type))

MarksSound ==
  /\ done.clear <= LastIndex(stored, "clear") /\ done.put <= LastIndex(stored, "checkpoint")
  /\ \A u \in Callers :
       MarkSound(call[u], "clear", "clear") /\ MarkSound(call[u], "put", "checkpoint")

StoresInv == StoreTypes /\ OneCaller /\ SyncsSound /\ DocumentsSound /\ MarksSound

-----------------------------------------------------------------------------
\* The last row of a type is the greatest of them.
LEMMA LastRowOf ==
  ASSUME NEW st \in Seq(StoredRow), NEW type
  PROVE  /\ LastIndex(st, type) \in {0} \cup OfType(st, type)
         /\ LastIndex(st, type) \in Nat /\ LastIndex(st, type) <= Len(st)
         /\ \A i \in OfType(st, type) : i <= LastIndex(st, type)
<1>1. /\ {0} \cup OfType(st, type) \subseteq 0 .. Len(st) /\ {0} \cup OfType(st, type) # {}
      /\ Len(st) \in Nat
  BY DEF OfType
<1>2. /\ LastIndex(st, type) \in {0} \cup OfType(st, type)
      /\ \A y \in {0} \cup OfType(st, type) : y <= LastIndex(st, type)
  BY <1>1, Greatest DEF LastIndex
<1> QED
  <2> HIDE DEF LastIndex
  <2> QED
    BY <1>1, <1>2

\* A row that is appended is the last of its type, and nothing else changes.
LEMMA RowAppended ==
  ASSUME NEW st \in Seq(StoredRow), NEW r \in StoredRow, NEW type
  PROVE  /\ Append(st, r) \in Seq(StoredRow) /\ Len(Append(st, r)) = Len(st) + 1
         /\ Append(st, r)[Len(st) + 1] = r
         /\ \A i \in 1 .. Len(st) : Append(st, r)[i] = st[i]
         /\ OfType(st, type) \subseteq 1 .. Len(st)
         /\ OfType(Append(st, r), type) =
              OfType(st, type) \cup (IF r.type = type THEN {Len(st) + 1} ELSE {})
         /\ r.type = type => LastIndex(Append(st, r), type) = Len(st) + 1
         /\ r.type # type => LastIndex(Append(st, r), type) = LastIndex(st, type)
<1>1. PICK s2 : s2 = Append(st, r)
  OBVIOUS
<1>2. /\ s2 \in Seq(StoredRow) /\ Len(s2) = Len(st) + 1 /\ s2[Len(st) + 1] = r
      /\ \A i \in 1 .. Len(st) : s2[i] = st[i]
      /\ Len(st) \in Nat /\ DOMAIN st = 1 .. Len(st) /\ DOMAIN s2 = 1 .. Len(st) + 1
  BY <1>1
<1>3. OfType(s2, type) = OfType(st, type) \cup (IF r.type = type THEN {Len(st) + 1} ELSE {})
  <2>1. ASSUME NEW i \in 1 .. Len(st) + 1
        PROVE  i \in OfType(s2, type) <=> i \in OfType(st, type) \/ (r.type = type /\ i = Len(st) + 1)
    <3>1. CASE i = Len(st) + 1
      <4>1. i \notin DOMAIN st /\ i \in DOMAIN s2 /\ s2[i] = r
        BY <1>2, <3>1
      <4> QED
        BY <3>1, <4>1 DEF OfType
    <3>2. CASE i # Len(st) + 1
      <4>1. i \in DOMAIN st /\ i \in DOMAIN s2 /\ s2[i] = st[i]
        BY <1>2, <3>2
      <4> QED
        BY <3>2, <4>1 DEF OfType
    <3> QED
      BY <3>1, <3>2
  <2>2. OfType(s2, type) \subseteq 1 .. Len(st) + 1 /\ OfType(st, type) \subseteq 1 .. Len(st)
    BY <1>2 DEF OfType
  <2>3. Len(st) + 1 \in 1 .. Len(st) + 1 /\ 1 .. Len(st) \subseteq 1 .. Len(st) + 1
    BY <1>2
  <2>4. CASE r.type = type
    BY <2>1, <2>2, <2>3, <2>4
  <2>5. CASE r.type # type
    BY <2>1, <2>2, <2>3, <2>5
  <2> QED
    BY <2>4, <2>5
<1>4. OfType(st, type) \subseteq 1 .. Len(st)
  BY <1>2 DEF OfType
<1>5. ASSUME r.type = type PROVE LastIndex(s2, type) = Len(st) + 1
  <2>1. Len(st) + 1 \in OfType(s2, type)
    BY <1>3, <1>5
  <2>2. LastIndex(s2, type) <= Len(st) + 1 /\ Len(st) + 1 <= LastIndex(s2, type) /\ LastIndex(s2, type) \in Nat
    BY <1>2, <2>1, LastRowOf
  <2> QED
    BY <1>2, <2>2
<1>6. ASSUME r.type # type PROVE LastIndex(s2, type) = LastIndex(st, type)
  BY <1>3, <1>6 DEF LastIndex
<1> QED
  BY <1>1, <1>2, <1>3, <1>4, <1>5, <1>6

-----------------------------------------------------------------------------
\* Ascending lists a set of numbers, each once, the lesser before the greater.
LEMMA Ordered ==
  ASSUME NEW n \in Nat, NEW S, S \subseteq 1 .. n
  PROVE  /\ Cardinality(S) \in Nat /\ DOMAIN Ascending(S) = 1 .. Cardinality(S)
         /\ \A k \in 1 .. Cardinality(S) : Ascending(S)[k] \in S
         /\ \A k, l \in 1 .. Cardinality(S) : k < l => Ascending(S)[k] < Ascending(S)[l]
         /\ \A m \in S : \E k \in 1 .. Cardinality(S) : Ascending(S)[k] = m
<1> DEFINE L == Cardinality(S)
           D == 1 .. L
           Upto(m) == {l \in S : l <= m}
           f == [m \in S |-> Cardinality(Upto(m))]
<1>1. IsFiniteSet(S) /\ L \in Nat /\ S \subseteq Nat
  <2>1. IsFiniteSet(1 .. n) /\ S \subseteq Nat
    BY FS_Interval
  <2> QED
    BY <2>1, FS_Subset, FS_CardinalityType
<1>2. IsFiniteSet(D) /\ Cardinality(D) = L
  BY <1>1, FS_Interval
<1>3. ASSUME NEW m \in S
      PROVE  IsFiniteSet(Upto(m)) /\ f[m] \in D
  <2>1. Upto(m) \subseteq S /\ m \in Upto(m)
    BY <1>1
  <2>2. IsFiniteSet(Upto(m)) /\ Cardinality(Upto(m)) \in Nat /\ Cardinality(Upto(m)) <= L
    BY <1>1, <2>1, FS_Subset, FS_CardinalityType
  <2>3. Cardinality(Upto(m)) # 0
    BY <2>1, <2>2, FS_EmptySet
  <2> QED
    BY <1>1, <2>2, <2>3
<1>4. ASSUME NEW m \in S, NEW l \in S, m < l PROVE f[m] < f[l]
  <2>1. Upto(m) \subseteq Upto(l) /\ l \notin Upto(m) /\ l \in Upto(l)
    <3>1. m \in Nat /\ l \in Nat /\ \A x \in S : x \in Nat
      BY <1>1
    <3>2. \A x \in S : x <= m => x <= l
      BY <1>4, <3>1
    <3>3. l <= l /\ ~ (l <= m)
      BY <1>4, <3>1
    <3> QED
      BY <3>2, <3>3
  <2>2. Cardinality(Upto(m)) <= Cardinality(Upto(l)) /\ Cardinality(Upto(m)) # Cardinality(Upto(l))
    BY <1>3, <2>1, FS_Subset
  <2>3. f[m] \in Nat /\ f[l] \in Nat /\ f[m] = Cardinality(Upto(m)) /\ f[l] = Cardinality(Upto(l))
    BY <1>1, <1>3
  <2> QED
    BY <2>2, <2>3
<1>5. ASSUME NEW m \in S, NEW l \in S, f[m] = f[l] PROVE m = l
  <2>1. f[m] \in Nat /\ f[l] \in Nat /\ m \in Nat /\ l \in Nat
    BY <1>1, <1>3
  <2> HIDE DEF f
  <2>2. ~ (m < l) /\ ~ (l < m)
    BY <1>4, <1>5, <2>1
  <2> QED
    BY <2>1, <2>2
<1>6. \A k \in D : \E m \in S : f[m] = k
  <2>1. f \in Injection(S, D)
    BY <1>3, <1>5 DEF Injection, IsInjective
  <2>2. f \in Surjection(S, D)
    BY <1>1, <1>2, <2>1, FS_Injection
  <2> QED
    BY <2>2 DEF Surjection
<1>7. \A k \in D : Ascending(S)[k] \in S /\ f[Ascending(S)[k]] = k
  <2> SUFFICES ASSUME NEW k \in D PROVE Ascending(S)[k] \in S /\ f[Ascending(S)[k]] = k
    OBVIOUS
  <2>1. PICK m \in S : Cardinality(Upto(m)) = k
    BY <1>6
  <2>2. Ascending(S)[k] = CHOOSE l \in S : Cardinality(Upto(l)) = k
    BY DEF Ascending
  <2>3. Ascending(S)[k] \in S /\ Cardinality(Upto(Ascending(S)[k])) = k
    BY <2>1, <2>2
  <2> QED
    BY <2>3
<1>8. DOMAIN Ascending(S) = D
  BY DEF Ascending
<1>9. ASSUME NEW k \in D, NEW l \in D, k < l PROVE Ascending(S)[k] < Ascending(S)[l]
  <2>1. PICK a \in S : a = Ascending(S)[k] /\ f[a] = k
    BY <1>7
  <2>2. PICK b \in S : b = Ascending(S)[l] /\ f[b] = l
    BY <1>7
  <2>3. a \in Nat /\ b \in Nat /\ k \in Nat /\ l \in Nat
    BY <1>1
  <2> HIDE DEF f
  <2>4. ~ (b < a) /\ a # b
    BY <1>4, <1>9, <2>1, <2>2, <2>3
  <2> QED
    BY <2>1, <2>2, <2>3, <2>4
<1>10. ASSUME NEW m \in S PROVE \E k \in D : Ascending(S)[k] = m
  <2>1. f[m] \in D
    BY <1>3
  <2>2. PICK l \in S : l = Ascending(S)[f[m]] /\ f[l] = f[m]
    BY <1>7, <2>1
  <2> HIDE DEF f
  <2>3. l = m
    BY <1>5, <2>2
  <2> QED
    BY <2>1, <2>2, <2>3
<1> HIDE DEF f
<1> QED
  BY <1>1, <1>7, <1>8, <1>9, <1>10

\* What is said is said a first time.
LEMMA SaidFirst ==
  ASSUME NEW m \in DOMAIN Chat
  PROVE  \E k \in DOMAIN Chat : k <= m /\ New(k) /\ Chat[k] = Chat[m]
<1> DEFINE S == {k \in DOMAIN Chat : Chat[k] = Chat[m]}
<1>1. DOMAIN Chat = 1 .. Len(Chat) /\ Len(Chat) \in Nat
  BY ChatAssumption
<1>2. S \subseteq Nat /\ m \in S
  BY <1>1
<1>3. PICK x \in S : \A y \in S : ~ (<<y, x>> \in OpToRel(<, Nat))
  <2> HIDE DEF S
  <2> QED
    BY <1>2, NatLessThanWellFounded, WFMin
<1>4. \A y \in S : y \in Nat /\ x \in Nat /\ ~ (y < x)
  BY <1>2, <1>3 DEF OpToRel
<1>5. x <= m
  BY <1>2, <1>4
<1>6. New(x)
  <2> SUFFICES ASSUME NEW k \in 1 .. x - 1, Chat[k] = Chat[x] PROVE FALSE
    BY DEF New
  <2>1. k \in DOMAIN Chat /\ k < x
    <3>1. x \in 1 .. Len(Chat) /\ Len(Chat) \in Nat
      BY <1>1, <1>3
    <3> QED
      BY <1>1, <3>1
  <2> QED
    BY <1>3, <1>4, <2>1
<1> QED
  BY <1>3, <1>5, <1>6

\* What a sync finds missing is what it has to append.
LEMMA MissingRight ==
  ASSUME NEW n \in DOMAIN Chat, stored \in Seq(StoredRow),
         NEW x, x = [what |-> "thread", items |-> Missing(stored, n), at |-> 0, upto |-> n]
  PROVE  StoreCall(x) /\ SyncSound(x) /\ AheadSound(x)
<1> DEFINE S == {m \in Absent(stored, n) : New(m)}
           C == Cardinality(S)
           order == Ascending(S)
<1>1. n \in Nat /\ DOMAIN Chat = 1 .. Len(Chat) /\ Len(Chat) \in Nat /\ 1 .. n \subseteq DOMAIN Chat
  BY ChatAssumption
<1>2. /\ C \in Nat /\ DOMAIN order = 1 .. C
      /\ \A k \in 1 .. C : order[k] \in S
      /\ \A k, l \in 1 .. C : k < l => order[k] < order[l]
      /\ \A m \in S : \E k \in 1 .. C : order[k] = m
  <2>1. S \subseteq 1 .. n
    BY DEF Absent
  <2> HIDE DEF S
  <2> QED
    BY <1>1, <2>1, Ordered
<1>3. \A m \in S : m \in 1 .. n /\ New(m) /\ \A i \in Thread(stored) : stored[i].content # Chat[m]
  BY DEF Absent
<1>4. \A m \in S : m \in DOMAIN Chat /\ m \in Nat
  BY <1>1, <1>3
<1> HIDE DEF S, C, order
<1>5. PICK items : items = x.items
  OBVIOUS
<1>6. items = [k \in 1 .. C |-> Item("turn", Chat[order[k]])]
  BY <1>2, <1>5 DEF Missing, Turns, S, order
<1>7. /\ items \in Seq(StoredRow) /\ Len(items) = C /\ DOMAIN items = 1 .. C
      /\ \A k \in 1 .. C : items[k].type = "turn" /\ items[k].content = Chat[order[k]]
  <2>1. ASSUME NEW k \in 1 .. C PROVE Item("turn", Chat[order[k]]) \in StoredRow
    <3>1. order[k] \in DOMAIN Chat
      BY <1>2, <1>4
    <3> QED
      BY <3>1 DEF Item, StoredRow, RowType
  <2>2. items \in [1 .. C -> StoredRow]
    BY <1>6, <2>1
  <2>3. items \in Seq(StoredRow) /\ Len(items) = C
    BY <1>2, <2>2
  <2> QED
    BY <1>6, <2>3 DEF Item
<1>8. ASSUME NEW m \in 1 .. n
      PROVE  Told(stored, m) \/ \E k \in 1 .. C : order[k] <= m /\ items[k].content = Chat[m]
  <2>1. PICK f \in DOMAIN Chat : f <= m /\ New(f) /\ Chat[f] = Chat[m]
    BY <1>1, SaidFirst
  <2>2. f \in 1 .. n
    BY <1>1, <2>1
  <2>3. CASE f \in S
    <3>1. PICK k \in 1 .. C : order[k] = f
      BY <1>2, <2>3
    <3> QED
      BY <1>7, <2>1, <3>1
  <2>4. CASE f \notin S
    <3>1. \E i \in Thread(stored) : stored[i].content = Chat[f]
      BY <2>1, <2>2, <2>4 DEF S, Absent
    <3> QED
      BY <2>1, <3>1 DEF Told
  <2> QED
    BY <2>3, <2>4
<1>9. x.what = "thread" /\ x.at = 0 /\ x.upto = n /\ x.items = items
  BY <1>5
<1>10. StoreCall(x)
  <2>1. x \in [what : CallKind, items : Seq(StoredRow), at : Nat, upto : Nat]
    <3>1. x = [what |-> "thread", items |-> items, at |-> 0, upto |-> n]
      BY <1>5
    <3> QED
      BY <1>1, <1>7, <3>1 DEF CallKind
  <2>2. x.at <= Len(x.items)
    BY <1>2, <1>7, <1>9
  <2> QED
    BY <1>7, <1>9, <2>1, <2>2 DEF StoreCall
<1>11. 1 .. C = x.at + 1 .. Len(x.items)
  BY <1>2, <1>7, <1>9
<1>12. SyncSound(x)
  BY <1>8, <1>9, <1>11 DEF SyncSound
<1>13. ASSUME NEW k \in 1 .. C
       PROVE  /\ \A i \in Thread(stored) : stored[i].content # items[k].content
              /\ \A l \in 1 .. C : items[l].content = items[k].content => l = k
              /\ \E m \in DOMAIN Chat :
                   /\ New(m) /\ items[k].content = Chat[m]
                   /\ \A l \in 1 .. m - 1 :
                        Told(stored, l) \/ \E j \in 1 .. k - 1 : items[j].content = Chat[l]
  <2>1. order[k] \in S /\ items[k].content = Chat[order[k]]
    BY <1>2, <1>7
  <2>2. \A i \in Thread(stored) : stored[i].content # items[k].content
    BY <1>3, <2>1
  <2>3. ASSUME NEW l \in 1 .. C, items[l].content = items[k].content PROVE l = k
    <3>1. order[l] \in S /\ Chat[order[l]] = Chat[order[k]]
      BY <1>2, <1>7, <2>1, <2>3
    <3>2. order[l] \in Nat /\ order[k] \in Nat /\ New(order[l]) /\ New(order[k])
          /\ order[l] \in 1 .. n /\ order[k] \in 1 .. n
      BY <1>3, <1>4, <2>1, <3>1
    <3>3. ~ (order[l] < order[k]) /\ ~ (order[k] < order[l])
      <4>1. order[l] < order[k] => order[l] \in 1 .. order[k] - 1
        BY <3>2
      <4>2. order[k] < order[l] => order[k] \in 1 .. order[l] - 1
        BY <3>2
      <4> QED
        BY <3>1, <3>2, <4>1, <4>2 DEF New
    <3>4. l \in Nat /\ k \in Nat
      BY <1>2
    <3> QED
      BY <1>2, <3>3, <3>4
  <2>4. ASSUME NEW l \in 1 .. order[k] - 1
        PROVE  Told(stored, l) \/ \E j \in 1 .. k - 1 : items[j].content = Chat[l]
    <3>1. order[k] \in 1 .. n /\ l \in Nat /\ l < order[k] /\ l \in 1 .. n
      <4>1. order[k] \in 1 .. n
        BY <1>3, <2>1
      <4> QED
        BY <1>1, <4>1
    <3>2. CASE Told(stored, l)
      BY <3>2
    <3>3. CASE \E j \in 1 .. C : order[j] <= l /\ items[j].content = Chat[l]
      <4>1. PICK j \in 1 .. C : order[j] <= l /\ items[j].content = Chat[l]
        BY <3>3
      <4>2. order[j] \in Nat /\ order[k] \in Nat
        BY <1>2, <1>4
      <4>3. order[j] < order[k]
        BY <3>1, <4>1, <4>2
      <4>4. ~ (k < j) /\ k # j
        BY <1>2, <4>2, <4>3
      <4>5. j \in 1 .. k - 1
        BY <1>2, <4>4
      <4> QED
        BY <4>1, <4>5
    <3> QED
      BY <1>8, <3>1, <3>2, <3>3
  <2> QED
    BY <1>3, <1>4, <2>1, <2>2, <2>3, <2>4
<1>14. AheadSound(x)
  <2>1. x.at + 1 = 1 /\ x.items = items
    BY <1>9
  <2>2. Ahead(1, items)
    BY <1>7, <1>13 DEF Ahead
  <2> QED
    BY <2>1, <2>2 DEF AheadSound
<1> QED
  BY <1>10, <1>12, <1>14

-----------------------------------------------------------------------------
\* A call x that is not a sync is sound when it begins.
LEMMA CallKeeps ==
  ASSUME StoresInv, NEW u \in Callers, NEW what, NEW upto, NEW items,
         Call(u, what, upto, items),
         NEW x, x = [what |-> what, items |-> items, at |-> 0, upto |-> upto],
         StoreCall(x), SyncSound(x), AheadSound(x), what \in {"clear", "put"} => upto <= Len(stored),
         what # "none"
  PROVE  StoresInv'
<1>1. /\ call \in [Callers -> {call[v] : v \in Callers}]
      /\ \A v \in Callers : StoreCall(call[v])
      /\ stored' = stored /\ index' = index /\ done' = done
      /\ call' = [call EXCEPT ![u] = x]
      /\ clash' = IF About(u, what) THEN clash \cup {what} ELSE clash
  BY DEF StoresInv, StoreTypes, Call
<1>2. /\ \A v \in Callers : call'[v] = IF v = u THEN x ELSE call[v]
      /\ call' \in [Callers -> {call'[v] : v \in Callers}]
  BY <1>1
<1>3. /\ x.what = what /\ x.upto = upto /\ x.at = 0 /\ call[u].what = "none"
      /\ clash \subseteq clash' /\ clash' \subseteq clash \cup {what}
  BY <1>1 DEF Call, NoCall
<1>4. StoreTypes'
  BY <1>1, <1>2 DEF StoresInv, StoreTypes
<1>5. OneCaller'
  <2> SUFFICES ASSUME NEW v \in Callers, NEW w \in Callers, call'[v].what = call'[w].what,
                      call'[v].what # "none", call'[v].what \notin clash', v # w
               PROVE  FALSE
    BY DEF OneCaller
  <2>1. CASE v = u
    BY <1>1, <1>2, <1>3, <2>1 DEF About
  <2>2. CASE w = u
    BY <1>1, <1>2, <1>3, <2>2 DEF About
  <2>3. CASE v # u /\ w # u
    BY <1>2, <1>3, <2>3 DEF StoresInv, OneCaller
  <2> QED
    BY <2>1, <2>2, <2>3
<1>6. SyncsSound'
  <2>1. /\ \A m \in 1 .. done.thread : Told(stored, m)
        /\ \A v \in Callers : SyncSound(call'[v])
    BY <1>2 DEF StoresInv, SyncsSound
  <2>2. "thread" \notin clash' => TurnsSound(stored) /\ \A v \in Callers : AheadSound(call'[v])
    BY <1>2, <1>3 DEF StoresInv, SyncsSound
  <2>3. (\A v \in Callers : SyncSound(call[v]))'
    BY <1>1, <2>1 DEF SyncSound
  <2>4. (\A v \in Callers : AheadSound(call[v]))' <=> \A v \in Callers : AheadSound(call'[v])
    BY <1>1 DEF AheadSound, Ahead
  <2> QED
    BY <1>1, <2>1, <2>2, <2>3, <2>4 DEF SyncsSound
<1>7. DocumentsSound'
  <2>1. \A v \in Callers : Between(call'[v]) <=> Between(call[v])
    BY <1>2, <1>3 DEF Between
  <2>2. \A v \in Callers : Between(call[v]) => call'[v] = call[v]
    BY <1>2, <1>3 DEF Between
  <2>3. "document" \notin clash' => "document" \notin clash
    BY <1>3
  <2> QED
    BY <1>1, <2>1, <2>2, <2>3 DEF StoresInv, DocumentsSound, Between
<1>8. MarksSound'
  <2>1. MarkSound(x, "clear", "clear") /\ MarkSound(x, "put", "checkpoint")
    BY <1>3 DEF MarkSound
  <2>2. \A v \in Callers : MarkSound(call'[v], "clear", "clear") /\ MarkSound(call'[v], "put", "checkpoint")
    BY <1>2, <2>1 DEF StoresInv, MarksSound
  <2> QED
    BY <1>1, <2>2 DEF StoresInv, MarksSound, MarkSound
<1> QED
  BY <1>4, <1>5, <1>6, <1>7, <1>8 DEF StoresInv

\* A call that appends one row.
LEMMA RowsKeeps ==
  ASSUME StoresInv, NEW u \in Callers, NEW what \in DOMAIN Appends, NEW upto \in Nat,
         NEW type \in Appends[what], Rows(u, what, upto, type), upto <= Len(stored)
  PROVE  StoresInv'
<1> DEFINE items == <<Item(type, "")>>
           x == [what |-> what, items |-> items, at |-> 0, upto |-> upto]
<1>1. /\ what \in {"message", "clear", "tombstone", "document", "put", "writes"}
      /\ type \in RowType /\ what \in CallKind /\ what # "thread" /\ what # "none"
  <2>1. what \in {"message", "clear", "tombstone", "document", "put", "writes"}
    BY DEF Appends
  <2>2. Appends[what] \subseteq RowType
    BY <2>1 DEF Appends, RowType
  <2> QED
    BY <2>1, <2>2 DEF CallKind
<1>2. Item(type, "") \in StoredRow /\ Item(type, "").type = type
  BY <1>1 DEF Item, StoredRow
<1>3. items \in Seq(StoredRow) /\ Len(items) = 1 /\ items[1].type = type
  <2>1. PICK r \in StoredRow : r = Item(type, "") /\ r.type = type
    BY <1>2
  <2>2. << r >> \in Seq(StoredRow) /\ Len(<< r >>) = 1 /\ << r >>[1] = r
    OBVIOUS
  <2> QED
    BY <2>1, <2>2
<1> HIDE DEF items
<1>4. StoreCall(x)
  BY <1>1, <1>3 DEF StoreCall
<1>5. SyncSound(x) /\ AheadSound(x)
  BY <1>1 DEF SyncSound, AheadSound
<1>6. Call(u, what, upto, items)
  BY DEF Rows, items
<1> QED
  BY <1>1, <1>4, <1>5, <1>6, CallKeeps

\* A row that is appended adds to what is told, and is told if it is a turn.
LEMMA ToldGrows ==
  ASSUME NEW st \in Seq(StoredRow), NEW r \in StoredRow
  PROVE  /\ \A i \in Thread(st) : i \in Nat /\ i < Len(st) + 1 /\ Append(st, r)[i] = st[i]
         /\ Thread(Append(st, r)) = Thread(st) \cup (IF r.type = "turn" THEN {Len(st) + 1} ELSE {})
         /\ Append(st, r)[Len(st) + 1] = r
         /\ \A m : Told(st, m) => Told(Append(st, r), m)
<1>1. /\ Thread(st) \subseteq 1 .. Len(st) /\ Len(st) \in Nat
      /\ \A i \in 1 .. Len(st) : Append(st, r)[i] = st[i]
      /\ Append(st, r)[Len(st) + 1] = r
      /\ Thread(Append(st, r)) = Thread(st) \cup (IF r.type = "turn" THEN {Len(st) + 1} ELSE {})
  BY RowAppended DEF Thread
<1>2. \A i \in Thread(st) : i \in Nat /\ i < Len(st) + 1 /\ Append(st, r)[i] = st[i]
  BY <1>1
<1>3. \A m : Told(st, m) => Told(Append(st, r), m)
  BY <1>1, <1>2 DEF Told
<1> QED
  BY <1>1, <1>2, <1>3

\* What the call of u appends next.
LEMMA NextRow ==
  ASSUME StoreTypes, NEW u \in Callers, AppendNext(u)
  PROVE  \E r \in StoredRow :
           /\ r = call[u].items[call[u].at + 1] /\ stored' = Append(stored, r)
           /\ call'[u] = [call[u] EXCEPT !.at = call[u].at + 1]
           /\ StoreCall(call[u]) /\ StoreCall(call'[u])
           /\ call[u].at + 1 <= Len(call[u].items) /\ call[u].what # "none"
           /\ r.type = "turn" <=> call[u].what = "thread"
           /\ call[u].what # "thread" =>
                call[u].at = 0 /\ call[u].what \in DOMAIN Appends /\ r.type \in Appends[call[u].what]
<1> PICK x : x = call[u]
  OBVIOUS
<1> PICK y : y = call'[u]
  OBVIOUS
<1>1. /\ StoreCall(x) /\ call \in [Callers -> {call[v] : v \in Callers}]
      /\ x \in [what : CallKind, items : Seq(StoredRow), at : Nat, upto : Nat]
  BY DEF StoreTypes, StoreCall
<1>2. stored' = Append(stored, x.items[x.at + 1]) /\ call' = [call EXCEPT ![u].at = @ + 1]
  BY DEF AppendNext
<1>3. y = [x EXCEPT !.at = x.at + 1]
  BY <1>1, <1>2
<1>4. x.at # Len(x.items)
  BY DEF AppendNext, AllIn
<1>5. /\ x.at \in Nat /\ Len(x.items) \in Nat /\ x.at <= Len(x.items) /\ x.items \in Seq(StoredRow)
      /\ DOMAIN x.items = 1 .. Len(x.items)
  <2>1. x.at \in Nat /\ x.items \in Seq(StoredRow) /\ x.at <= Len(x.items)
    BY <1>1 DEF StoreCall
  <2> QED
    BY <2>1
<1>6. x.at + 1 \in DOMAIN x.items
  BY <1>4, <1>5
<1>7. PICK r \in StoredRow : r = x.items[x.at + 1]
  BY <1>5, <1>6
<1>8. x # NoCall
  BY <1>4 DEF NoCall
<1>9. /\ y.what = x.what /\ y.items = x.items /\ y.upto = x.upto /\ y.at = x.at + 1
      /\ y \in [what : CallKind, items : Seq(StoredRow), at : Nat, upto : Nat]
  BY <1>1, <1>3, <1>5
<1>10. CASE x.what = "thread"
  <2>1. r.type = "turn"
    BY <1>1, <1>6, <1>7, <1>8, <1>10 DEF StoreCall, Appends
  <2>2. StoreCall(y)
    BY <1>1, <1>5, <1>6, <1>8, <1>9, <1>10 DEF StoreCall, Appends
  <2> QED
    BY <1>1, <1>2, <1>3, <1>5, <1>6, <1>7, <1>10, <2>1, <2>2
<1>11. CASE x.what # "thread"
  <2>1. x.what \in DOMAIN Appends /\ Len(x.items) = 1 /\ x.items[1].type \in Appends[x.what]
    BY <1>1, <1>8, <1>11 DEF StoreCall
  <2>2. x.at = 0 /\ r.type \in Appends[x.what]
    BY <1>5, <1>6, <1>7, <2>1
  <2>3. x.what # "none" /\ "turn" \notin Appends[x.what]
    BY <2>1 DEF Appends
  <2>4. StoreCall(y)
    BY <1>5, <1>9, <2>1, <2>2 DEF StoreCall
  <2> QED
    BY <1>1, <1>2, <1>3, <1>5, <1>6, <1>7, <1>11, <2>1, <2>2, <2>3, <2>4
<1> QED
  BY <1>10, <1>11

\* A turn is appended where it belongs, unless syncs overlap.
LEMMA SyncAppends ==
  ASSUME StoreTypes, OneCaller, SyncsSound, NEW u \in Callers, AppendNext(u)
  PROVE  SyncsSound'
<1> DEFINE x == call[u]
           y == call'[u]
           n == Len(stored) + 1
<1>0. x = call[u] /\ y = call'[u] /\ n = Len(stored) + 1
  OBVIOUS
<1> HIDE DEF x, y, n
<1>1. PICK r \in StoredRow :
           /\ r = x.items[x.at + 1] /\ stored' = Append(stored, r)
           /\ y = [x EXCEPT !.at = x.at + 1] /\ StoreCall(x) /\ StoreCall(y)
           /\ x.at + 1 <= Len(x.items) /\ x.what # "none"
           /\ r.type = "turn" <=> x.what = "thread"
  <2>1. PICK r \in StoredRow :
           /\ r = call[u].items[call[u].at + 1] /\ stored' = Append(stored, r)
           /\ call'[u] = [call[u] EXCEPT !.at = call[u].at + 1]
           /\ StoreCall(call[u]) /\ StoreCall(call'[u])
           /\ call[u].at + 1 <= Len(call[u].items) /\ call[u].what # "none"
           /\ r.type = "turn" <=> call[u].what = "thread"
    BY NextRow
  <2> QED
    BY <1>0, <2>1
<1>2. /\ x \in [what : CallKind, items : Seq(StoredRow), at : Nat, upto : Nat]
      /\ y.what = x.what /\ y.items = x.items /\ y.upto = x.upto /\ y.at = x.at + 1
      /\ x.at \in Nat /\ Len(x.items) \in Nat
  BY <1>1 DEF StoreCall
<1>3. /\ done' = done /\ clash' = clash /\ stored \in Seq(StoredRow) /\ n \in Nat
      /\ \A v \in Callers \ {u} : call'[v] = call[v]
  BY <1>0 DEF AppendNext, StoreTypes
<1>4. /\ \A i \in Thread(stored) : i \in Nat /\ i < n /\ stored'[i] = stored[i]
      /\ Thread(stored') = Thread(stored) \cup (IF r.type = "turn" THEN {n} ELSE {})
      /\ stored'[n] = r
      /\ \A m : Told(stored, m) => Told(stored', m)
  <2>1. /\ \A i \in Thread(stored) : i \in Nat /\ i < Len(stored) + 1 /\ Append(stored, r)[i] = stored[i]
        /\ Thread(Append(stored, r)) = Thread(stored) \cup (IF r.type = "turn" THEN {Len(stored) + 1} ELSE {})
        /\ Append(stored, r)[Len(stored) + 1] = r
        /\ \A m : Told(stored, m) => Told(Append(stored, r), m)
    BY <1>3, ToldGrows
  <2> QED
    BY <1>0, <1>1, <2>1
<1>5. \A m \in 1 .. done'.thread : Told(stored', m)
  BY <1>3, <1>4 DEF SyncsSound
<1>6. ASSUME NEW v \in Callers, call'[v].what = "thread", NEW m \in 1 .. call'[v].upto
      PROVE  \/ Told(stored', m)
             \/ \E k \in call'[v].at + 1 .. Len(call'[v].items) : call'[v].items[k].content = Chat[m]
  <2>1. CASE v # u
    BY <1>3, <1>4, <1>6, <2>1 DEF SyncsSound, SyncSound
  <2>2. CASE v = u
    <3>1. x.what = "thread" /\ m \in 1 .. x.upto /\ SyncSound(x)
      BY <1>2, <1>6, <2>2 DEF SyncsSound, x, y
    <3>2. CASE Told(stored, m)
      BY <1>4, <3>2
    <3>3. CASE \E k \in x.at + 1 .. Len(x.items) : x.items[k].content = Chat[m]
      <4>1. PICK k \in x.at + 1 .. Len(x.items) : x.items[k].content = Chat[m]
        BY <3>3
      <4>2. CASE k = x.at + 1
        <5>1. n \in Thread(stored') /\ stored'[n].content = Chat[m]
          BY <1>1, <1>4, <3>1, <4>1, <4>2
        <5> QED
          BY <5>1 DEF Told
      <4>3. CASE k # x.at + 1
        <5>1. k \in y.at + 1 .. Len(y.items) /\ y.items[k].content = Chat[m]
          BY <1>2, <4>1, <4>3
        <5> QED
          BY <2>2, <5>1 DEF y
      <4> QED
        BY <4>2, <4>3
    <3> QED
      BY <3>1, <3>2, <3>3 DEF SyncSound
  <2> QED
    BY <2>1, <2>2
<1>7. ASSUME "thread" \notin clash, x.what = "thread"
      PROVE  TurnsSound(stored') /\ (\A v \in Callers : AheadSound(call[v]))'
  <2>1. /\ TurnsSound(stored) /\ Ahead(x.at + 1, x.items)
        /\ \A v \in Callers \ {u} : call'[v].what # "thread"
    <3>1. \A v \in Callers \ {u} : call[v].what # "thread"
      BY <1>7 DEF OneCaller, x
    <3> QED
      BY <1>3, <1>7, <3>1 DEF SyncsSound, AheadSound, x
  <2>2. Thread(stored') = Thread(stored) \cup {n} /\ r = x.items[x.at + 1]
    BY <1>1, <1>4, <1>7
  <2>3. x.at + 1 \in x.at + 1 .. Len(x.items) /\ ~ \E j \in x.at + 1 .. x.at + 1 - 1 : TRUE
    BY <1>1, <1>2
  <2>4. \A i \in Thread(stored) : stored[i].content # r.content
    BY <2>1, <2>2, <2>3 DEF Ahead
  <2>5. PICK m \in DOMAIN Chat : /\ New(m) /\ r.content = Chat[m]
                                 /\ \A l \in 1 .. m - 1 : Told(stored, l)
    <3>1. \E m \in DOMAIN Chat :
            /\ New(m) /\ r.content = Chat[m]
            /\ \A l \in 1 .. m - 1 :
                 Told(stored, l) \/ \E j \in x.at + 1 .. x.at + 1 - 1 : x.items[j].content = Chat[l]
      BY <2>1, <2>2, <2>3 DEF Ahead
    <3> QED
      BY <2>3, <3>1
  <2>6. ASSUME NEW i \in Thread(stored')
        PROVE  /\ \A k \in Thread(stored') : stored'[k].content = stored'[i].content => k = i
               /\ \E p \in DOMAIN Chat :
                    /\ New(p) /\ stored'[i].content = Chat[p]
                    /\ \A l \in 1 .. p - 1 : \E k \in Thread(stored') : k < i /\ stored'[k].content = Chat[l]
    <3>1. CASE i = n
      <4>1. \A k \in Thread(stored') : stored'[k].content = stored'[i].content => k = i
        BY <1>4, <2>2, <2>4, <3>1
      <4>2. \A l \in 1 .. m - 1 : \E k \in Thread(stored') : k < n /\ stored'[k].content = Chat[l]
        BY <1>4, <2>2, <2>5 DEF Told
      <4> QED
        BY <1>4, <2>5, <3>1, <4>1, <4>2
    <3>2. CASE i \in Thread(stored)
      <4>1. \A k \in Thread(stored') : stored'[k].content = stored'[i].content => k = i
        BY <1>4, <2>1, <2>2, <2>4, <3>2 DEF TurnsSound
      <4>2. PICK p \in DOMAIN Chat :
                    /\ New(p) /\ stored[i].content = Chat[p]
                    /\ \A l \in 1 .. p - 1 : \E k \in Thread(stored) : k < i /\ stored[k].content = Chat[l]
        BY <2>1, <3>2 DEF TurnsSound
      <4>3. \A l \in 1 .. p - 1 : \E k \in Thread(stored') : k < i /\ stored'[k].content = Chat[l]
        BY <1>4, <2>2, <4>2
      <4> QED
        BY <1>4, <3>2, <4>1, <4>2, <4>3
    <3> QED
      BY <2>2, <3>1, <3>2
  <2>7. TurnsSound(stored')
    BY <2>6 DEF TurnsSound
  <2>8. ASSUME NEW k \in y.at + 1 .. Len(y.items)
        PROVE  /\ \A i \in Thread(stored') : stored'[i].content # y.items[k].content
               /\ \A l \in y.at + 1 .. Len(y.items) : y.items[l].content = y.items[k].content => l = k
               /\ \E p \in DOMAIN Chat :
                    /\ New(p) /\ y.items[k].content = Chat[p]
                    /\ \A l \in 1 .. p - 1 :
                         Told(stored', l) \/ \E j \in y.at + 1 .. k - 1 : y.items[j].content = Chat[l]
    <3>1. k \in x.at + 1 .. Len(x.items) /\ k # x.at + 1 /\ y.items = x.items
      BY <1>2, <2>8
    <3>2. \A l \in y.at + 1 .. Len(y.items) : l \in x.at + 1 .. Len(x.items)
      BY <1>2
    <3>3. /\ \A i \in Thread(stored) : stored[i].content # x.items[k].content
          /\ \A l \in x.at + 1 .. Len(x.items) : x.items[l].content = x.items[k].content => l = k
      BY <2>1, <3>1 DEF Ahead
    <3>4. r.content # x.items[k].content
      BY <2>2, <2>3, <3>1, <3>3
    <3>5. \A i \in Thread(stored') : stored'[i].content # y.items[k].content
      BY <1>4, <2>2, <3>1, <3>3, <3>4
    <3>6. PICK p \in DOMAIN Chat :
                    /\ New(p) /\ x.items[k].content = Chat[p]
                    /\ \A l \in 1 .. p - 1 :
                         Told(stored, l) \/ \E j \in x.at + 1 .. k - 1 : x.items[j].content = Chat[l]
      BY <2>1, <3>1 DEF Ahead
    <3>7. ASSUME NEW l \in 1 .. p - 1
          PROVE  Told(stored', l) \/ \E j \in y.at + 1 .. k - 1 : y.items[j].content = Chat[l]
      <4>1. CASE Told(stored, l)
        BY <1>4, <4>1
      <4>2. CASE \E j \in x.at + 1 .. k - 1 : x.items[j].content = Chat[l]
        <5>1. PICK j \in x.at + 1 .. k - 1 : x.items[j].content = Chat[l]
          BY <4>2
        <5>2. CASE j = x.at + 1
          <6>1. n \in Thread(stored') /\ stored'[n].content = Chat[l]
            BY <1>4, <2>2, <5>1, <5>2
          <6> QED
            BY <6>1 DEF Told
        <5>3. CASE j # x.at + 1
          <6>1. j \in y.at + 1 .. k - 1
            BY <1>2, <3>1, <5>1, <5>3
          <6> QED
            BY <3>1, <5>1, <6>1
        <5> QED
          BY <5>2, <5>3
      <4> QED
        BY <3>6, <4>1, <4>2
    <3> QED
      BY <3>1, <3>2, <3>3, <3>5, <3>6, <3>7
  <2> QED
    BY <2>1, <2>7, <2>8 DEF AheadSound, Ahead, y
<1>8. ASSUME "thread" \notin clash, x.what # "thread"
      PROVE  TurnsSound(stored') /\ (\A v \in Callers : AheadSound(call[v]))'
  <2>1. Thread(stored') = Thread(stored) /\ TurnsSound(stored) /\ \A v \in Callers : AheadSound(call[v])
    BY <1>1, <1>4, <1>8 DEF SyncsSound
  <2>2. TurnsSound(stored')
    BY <1>4, <2>1 DEF TurnsSound
  <2>3. \A m : Told(stored', m) <=> Told(stored, m)
    BY <1>4, <2>1 DEF Told
  <2>4. ASSUME NEW v \in Callers, call'[v].what = "thread" PROVE v # u /\ call'[v] = call[v]
    BY <1>2, <1>3, <1>8, <2>4 DEF x, y
  <2>5. ASSUME NEW v \in Callers PROVE AheadSound(call[v])'
    <3>1. CASE call'[v].what = "thread"
      <4>1. Ahead(call[v].at + 1, call[v].items) /\ call'[v] = call[v]
        BY <2>1, <2>4, <3>1 DEF AheadSound
      <4>2. Ahead(call[v].at + 1, call[v].items)'
        BY <1>4, <2>1, <2>3, <4>1 DEF Ahead
      <4> QED
        BY <4>2 DEF AheadSound
    <3> QED
      BY <3>1 DEF AheadSound
  <2> QED
    BY <2>2, <2>5
<1>9. (\A v \in Callers : SyncSound(call[v]))'
  BY <1>6 DEF SyncSound
<1> QED
  BY <1>3, <1>5, <1>7, <1>8, <1>9 DEF SyncsSound

\* The other two parts when a row is appended.
LEMMA LastsAppend ==
  ASSUME StoreTypes, OneCaller, DocumentsSound, MarksSound, NEW u \in Callers, AppendNext(u)
  PROVE  DocumentsSound' /\ MarksSound'
<1>1. PICK r \in StoredRow :
           /\ r = call[u].items[call[u].at + 1] /\ stored' = Append(stored, r)
           /\ call'[u] = [call[u] EXCEPT !.at = call[u].at + 1]
           /\ StoreCall(call[u]) /\ StoreCall(call'[u])
           /\ call[u].at + 1 <= Len(call[u].items) /\ call[u].what # "none"
           /\ r.type = "turn" <=> call[u].what = "thread"
           /\ call[u].what # "thread" =>
                call[u].at = 0 /\ call[u].what \in DOMAIN Appends /\ r.type \in Appends[call[u].what]
  BY NextRow
<1>2. PICK x : x = call[u]
  OBVIOUS
<1>3. PICK y : y = call'[u]
  OBVIOUS
<1>4. /\ x \in [what : CallKind, items : Seq(StoredRow), at : Nat, upto : Nat]
      /\ y.what = x.what /\ y.items = x.items /\ y.upto = x.upto /\ y.at = x.at + 1
  BY <1>1, <1>2, <1>3 DEF StoreCall
<1>5. /\ done' = done /\ clash' = clash /\ index' = index /\ stored \in Seq(StoredRow)
      /\ Len(stored) \in Nat /\ Len(stored') = Len(stored) + 1
      /\ \A v \in Callers \ {u} : call'[v] = call[v]
      /\ done.clear \in Nat /\ done.put \in Nat
  BY <1>1 DEF AppendNext, StoreTypes
<1>6. \A type : /\ LastIndex(stored, type) \in Nat /\ LastIndex(stored, type) <= Len(stored)
                /\ r.type = type => LastIndex(stored', type) = Len(stored) + 1
                /\ r.type # type => LastIndex(stored', type) = LastIndex(stored, type)
  BY <1>1, <1>5, RowAppended, LastRowOf
<1>7. /\ x.what = "thread" => r.type = "turn"
      /\ x.what = "document" => x.at = 0 /\ r = x.items[1] /\ r.type \in {"document", "deleted"}
      /\ x.what = "clear" => x.at = 0 /\ r.type = "clear"
      /\ x.what = "put" => x.at = 0 /\ r.type = "checkpoint"
      /\ x.what \notin {"thread", "document", "clear", "put"} =>
           r.type \notin {"document", "deleted", "clear", "checkpoint"}
  <2>1. CASE x.what = "thread"
    BY <1>1, <1>2, <2>1
  <2>2. CASE x.what # "thread"
    <3>1. /\ x.at = 0 /\ r = x.items[1] /\ r.type \in Appends[x.what]
          /\ x.what \in {"message", "clear", "tombstone", "document", "put", "writes"}
      BY <1>1, <1>2, <2>2 DEF Appends
    <3> QED
      BY <3>1 DEF Appends
  <2> QED
    BY <2>1, <2>2
<1>8. DocumentsSound'
  <2> SUFFICES ASSUME "document" \notin clash
               PROVE  /\ index => Document(stored') \/ \E v \in Callers : Between(call'[v])
                      /\ \A v \in Callers :
                           Between(call'[v]) /\ call'[v].items[1].type = "document" => Document(stored')
    BY <1>5 DEF DocumentsSound, Between
  <2>1. /\ index => Document(stored) \/ \E v \in Callers : Between(call[v])
        /\ \A v \in Callers :
             Between(call[v]) /\ call[v].items[1].type = "document" => Document(stored)
    BY DEF DocumentsSound
  <2>2. CASE x.what = "document"
    <3>1. Between(y)
      BY <1>4, <1>7, <2>2 DEF Between
    <3>2. r.type = "document" => Document(stored')
      <4>1. ASSUME r.type = "document" PROVE Document(stored')
        <5>1. /\ LastIndex(stored', "document") = Len(stored) + 1
              /\ LastIndex(stored', "deleted") = LastIndex(stored, "deleted")
              /\ LastIndex(stored, "deleted") <= Len(stored) /\ LastIndex(stored, "deleted") \in Nat
          BY <1>6, <4>1
        <5>2. LastIndex(stored', "document") > LastIndex(stored', "deleted")
          BY <1>5, <5>1
        <5> QED
          BY <5>2 DEF Document
      <4> QED
        BY <4>1
    <3>3. \A v \in Callers \ {u} : ~ Between(call'[v])
      BY <1>2, <1>5, <2>2 DEF Between, OneCaller
    <3> QED
      BY <1>3, <1>4, <1>7, <2>2, <3>1, <3>2, <3>3
  <2>3. CASE x.what # "document"
    <3>1. r.type \notin {"document", "deleted"}
      BY <1>4, <1>7, <2>3
    <3>2. Document(stored') <=> Document(stored)
      BY <1>6, <3>1 DEF Document
    <3>3. ~ Between(call[u]) /\ ~ Between(call'[u])
      BY <1>2, <1>3, <1>4, <2>3 DEF Between
    <3> QED
      BY <1>5, <2>1, <3>2, <3>3
  <2> QED
    BY <2>2, <2>3
<1>9. \A type : LastIndex(stored, type) <= LastIndex(stored', type) /\ LastIndex(stored', type) \in Nat
  BY <1>5, <1>6
<1>10. ASSUME NEW type, NEW what, <<what, type>> \in {<<"clear", "clear">>, <<"put", "checkpoint">>},
              \A v \in Callers : MarkSound(call[v], what, type)
       PROVE  \A v \in Callers : MarkSound(call[v], what, type)'
  <2> SUFFICES ASSUME NEW v \in Callers, call'[v].what = what
               PROVE  /\ call'[v].upto <= Len(stored')
                      /\ call'[v].at = 1 => call'[v].upto <= LastIndex(stored', type)
    BY DEF MarkSound
  <2>1. /\ call[v].upto \in Nat
    BY DEF StoreTypes, StoreCall
  <2>2. CASE v = u
    <3>1. x.what = what /\ r.type = type /\ x.upto <= Len(stored) /\ y.upto = x.upto /\ x.upto \in Nat
      BY <1>2, <1>3, <1>4, <1>7, <1>10, <2>2 DEF MarkSound
    <3>2. LastIndex(stored', type) = Len(stored) + 1
      BY <1>6, <3>1
    <3>3. x.upto <= Len(stored) + 1
      BY <1>5, <3>1
    <3> QED
      BY <1>3, <1>5, <2>2, <3>1, <3>2, <3>3
  <2>3. CASE v # u
    <3>1. /\ call'[v] = call[v] /\ call[v].upto <= Len(stored)
          /\ call[v].at = 1 => call[v].upto <= LastIndex(stored, type)
      BY <1>5, <1>10, <2>3 DEF MarkSound
    <3>2. LastIndex(stored, type) <= LastIndex(stored', type) /\ LastIndex(stored', type) \in Nat
          /\ LastIndex(stored, type) \in Nat
      BY <1>6, <1>9
    <3> QED
      BY <1>5, <2>1, <3>1, <3>2
  <2> QED
    BY <2>2, <2>3
<1>11. MarksSound'
  <2>1. (\A v \in Callers : MarkSound(call[v], "clear", "clear"))'
    BY <1>10 DEF MarksSound
  <2>2. (\A v \in Callers : MarkSound(call[v], "put", "checkpoint"))'
    BY <1>10 DEF MarksSound
  <2>3. done.clear <= LastIndex(stored', "clear") /\ done.put <= LastIndex(stored', "checkpoint")
    <3>1. /\ done.clear <= LastIndex(stored, "clear") /\ done.put <= LastIndex(stored, "checkpoint")
      BY DEF MarksSound
    <3>2. \A type : LastIndex(stored, type) \in Nat
      BY <1>6
    <3> QED
      BY <1>5, <1>9, <3>1, <3>2
  <2> QED
    BY <1>5, <2>1, <2>2, <2>3 DEF MarksSound
<1> QED
  BY <1>8, <1>11

LEMMA AppendNextKeeps ==
  ASSUME StoresInv, NEW u \in Callers, AppendNext(u)
  PROVE  StoresInv'
<1>1. PICK r \in StoredRow :
           /\ stored' = Append(stored, r) /\ StoreCall(call'[u])
           /\ call'[u] = [call[u] EXCEPT !.at = call[u].at + 1] /\ StoreCall(call[u])
  BY NextRow DEF StoresInv
<1>2. /\ stored' \in Seq(StoredRow) /\ done' = done /\ index' = index /\ clash' = clash
      /\ \A v \in Callers \ {u} : call'[v] = call[v]
      /\ call' \in [Callers -> {call'[v] : v \in Callers}]
  BY <1>1 DEF StoresInv, StoreTypes, AppendNext
<1>3. StoreTypes'
  BY <1>1, <1>2 DEF StoresInv, StoreTypes
<1>4. \A v \in Callers : call'[v].what = call[v].what
  BY <1>1, <1>2 DEF StoreCall
<1>5. OneCaller'
  BY <1>2, <1>4 DEF StoresInv, OneCaller
<1> QED
  BY <1>3, <1>5, SyncAppends, LastsAppend DEF StoresInv

\* Some calls end, and what they were about is in clash where it matters.
LEMMA CallsEnd ==
  ASSUME StoresInv, NEW E \in SUBSET Callers,
         call' = [u \in Callers |-> IF u \in E THEN NoCall ELSE call[u]],
         stored' = stored, clash \subseteq clash'
  PROVE  /\ call' \in [Callers -> {call'[u] : u \in Callers}]
         /\ \A u \in Callers : StoreCall(call'[u])
         /\ OneCaller'
         /\ (\A u \in Callers : SyncSound(call[u]))'
         /\ "thread" \notin clash' => TurnsSound(stored') /\ (\A u \in Callers : AheadSound(call[u]))'
         /\ (\A u \in Callers : MarkSound(call[u], "clear", "clear") /\ MarkSound(call[u], "put", "checkpoint"))'
<1>1. NoCall.what = "none" /\ NoCall.items = << >> /\ NoCall.at = 0 /\ NoCall.upto = 0
  BY DEF NoCall
<1>2. StoreCall(NoCall)
  BY <1>1 DEF StoreCall, NoCall, CallKind
<1>3. \A u \in Callers : call'[u] = IF u \in E THEN NoCall ELSE call[u]
  OBVIOUS
<1>4. \A u \in Callers : StoreCall(call'[u])
  BY <1>2, <1>3 DEF StoresInv, StoreTypes
<1>5. OneCaller'
  <2> SUFFICES ASSUME NEW u \in Callers, NEW v \in Callers, call'[u].what = call'[v].what,
                      call'[u].what # "none", call'[u].what \notin clash'
               PROVE  u = v
    BY DEF OneCaller
  <2> QED
    BY <1>1, <1>3 DEF StoresInv, OneCaller
<1>6. ASSUME NEW u \in Callers PROVE SyncSound(call[u])'
  <2>1. call'[u].what = "thread" => call'[u] = call[u] /\ SyncSound(call[u])
    BY <1>1, <1>3 DEF StoresInv, SyncsSound
  <2> QED
    BY <2>1 DEF SyncSound
<1>7. ASSUME "thread" \notin clash', NEW u \in Callers PROVE AheadSound(call[u])'
  <2>1. call'[u].what = "thread" => call'[u] = call[u] /\ AheadSound(call[u])
    BY <1>1, <1>3, <1>7 DEF StoresInv, SyncsSound
  <2> QED
    BY <2>1 DEF AheadSound, Ahead
<1>8. "thread" \notin clash' => TurnsSound(stored')
  BY DEF StoresInv, SyncsSound
<1>9. ASSUME NEW u \in Callers
      PROVE  (MarkSound(call[u], "clear", "clear") /\ MarkSound(call[u], "put", "checkpoint"))'
  <2>1. call'[u].what \in {"clear", "put"} => call'[u] = call[u]
    BY <1>1, <1>3
  <2> QED
    BY <2>1 DEF StoresInv, MarksSound, MarkSound
<1> QED
  BY <1>4, <1>5, <1>6, <1>7, <1>8, <1>9

LEMMA RaiseKeeps ==
  ASSUME StoresInv, NEW u \in Callers, Raise(u)
  PROVE  StoresInv'
<1>1. /\ stored' = stored /\ index' = index /\ done' = done /\ clash \subseteq clash'
      /\ call \in [Callers -> {call[v] : v \in Callers}]
      /\ call' = [call EXCEPT ![u] = NoCall]
  BY DEF Raise, StoresInv, StoreTypes
<1>2. call' = [v \in Callers |-> IF v \in {u} THEN NoCall ELSE call[v]]
  BY <1>1
<1>3. /\ call' \in [Callers -> {call'[v] : v \in Callers}]
      /\ \A v \in Callers : StoreCall(call'[v])
      /\ OneCaller'
      /\ (\A v \in Callers : SyncSound(call[v]))'
      /\ "thread" \notin clash' => TurnsSound(stored') /\ (\A v \in Callers : AheadSound(call[v]))'
      /\ (\A v \in Callers : MarkSound(call[v], "clear", "clear") /\ MarkSound(call[v], "put", "checkpoint"))'
  <2>1. {u} \in SUBSET Callers
    OBVIOUS
  <2> QED
    BY <1>1, <1>2, <2>1, CallsEnd
<1>4. StoreTypes'
  BY <1>1, <1>3 DEF StoresInv, StoreTypes
<1>5. SyncsSound'
  BY <1>1, <1>3 DEF StoresInv, SyncsSound
<1>6. MarksSound'
  BY <1>1, <1>3 DEF StoresInv, MarksSound
<1>7. DocumentsSound'
  <2> SUFFICES ASSUME "document" \notin clash'
               PROVE  /\ index => Document(stored) \/ \E v \in Callers : Between(call'[v])
                      /\ \A v \in Callers :
                           Between(call'[v]) /\ call'[v].items[1].type = "document" => Document(stored)
    BY <1>1 DEF DocumentsSound, Between
  <2>1. ~ Between(call[u]) /\ ~ Between(NoCall)
    <3>1. ASSUME Between(call[u]) PROVE FALSE
      <4>1. call[u].what = "document" /\ call[u].at = 1
        BY <3>1 DEF Between
      <4>2. Len(call[u].items) = 1
        BY <4>1 DEF StoresInv, StoreTypes, StoreCall, NoCall
      <4> QED
        BY <4>1, <4>2 DEF Raise, AllIn
    <3> QED
      BY <3>1 DEF Between, NoCall
  <2>2. \A v \in Callers : Between(call'[v]) <=> Between(call[v])
    BY <1>2, <2>1
  <2>3. \A v \in Callers : Between(call'[v]) => call'[v] = call[v]
    BY <1>2, <2>1
  <2> QED
    BY <1>1, <2>2, <2>3 DEF StoresInv, DocumentsSound
<1> QED
  BY <1>3, <1>4, <1>5, <1>6, <1>7 DEF StoresInv

LEMMA StoresRestartKeeps ==
  ASSUME StoresInv, StoresRestart
  PROVE  StoresInv'
<1>1. /\ stored' = stored /\ index' = FALSE /\ done' = done /\ clash' = clash
      /\ call' = [v \in Callers |-> NoCall]
  BY DEF StoresRestart
<1>2. call' = [v \in Callers |-> IF v \in Callers THEN NoCall ELSE call[v]]
  BY <1>1
<1>3. /\ call' \in [Callers -> {call'[v] : v \in Callers}]
      /\ \A v \in Callers : StoreCall(call'[v])
      /\ OneCaller'
      /\ (\A v \in Callers : SyncSound(call[v]))'
      /\ "thread" \notin clash' => TurnsSound(stored') /\ (\A v \in Callers : AheadSound(call[v]))'
      /\ (\A v \in Callers : MarkSound(call[v], "clear", "clear") /\ MarkSound(call[v], "put", "checkpoint"))'
  <2>1. Callers \in SUBSET Callers /\ clash \subseteq clash'
    BY <1>1
  <2> QED
    BY <1>1, <1>2, <2>1, CallsEnd
<1>4. StoreTypes'
  BY <1>1, <1>3 DEF StoresInv, StoreTypes
<1>5. SyncsSound'
  BY <1>1, <1>3 DEF StoresInv, SyncsSound
<1>6. MarksSound'
  BY <1>1, <1>3 DEF StoresInv, MarksSound
<1>7. \A v \in Callers : ~ Between(call'[v])
  BY <1>1 DEF Between, NoCall
<1>8. DocumentsSound'
  BY <1>1, <1>7 DEF DocumentsSound
<1> QED
  BY <1>3, <1>4, <1>5, <1>6, <1>8 DEF StoresInv

LEMMA ReturnKeeps ==
  ASSUME StoresInv, NEW u \in Callers, Return(u)
  PROVE  StoresInv'
<1>1. PICK x : x = call[u]
  OBVIOUS
<1>2. /\ StoreCall(x) /\ x # NoCall /\ x.upto \in Nat /\ x.at = Len(x.items)
      /\ x.what # "thread" => x.at = 1 /\ x.what \in DOMAIN Appends /\ x.items[1].type \in Appends[x.what]
  <2>1. StoreCall(x) /\ x.what # "none" /\ x.at = Len(x.items)
    BY <1>1 DEF StoresInv, StoreTypes, Return, AllIn
  <2>2. x # NoCall
    BY <2>1 DEF NoCall
  <2> QED
    BY <2>1, <2>2 DEF StoreCall
<1>3. /\ stored' = stored /\ clash' = clash
      /\ call \in [Callers -> {call[v] : v \in Callers}]
      /\ call' = [call EXCEPT ![u] = NoCall]
      /\ index' = IF x.what = "document" THEN x.items[1].type = "document" ELSE index
      /\ done' = IF x.what \in DOMAIN done /\ x.upto > done[x.what]
                   THEN [done EXCEPT ![x.what] = x.upto] ELSE done
  BY <1>1 DEF Return, StoresInv, StoreTypes
<1>4. call' = [v \in Callers |-> IF v \in {u} THEN NoCall ELSE call[v]]
  BY <1>3
<1>5. /\ call' \in [Callers -> {call'[v] : v \in Callers}]
      /\ \A v \in Callers : StoreCall(call'[v])
      /\ OneCaller'
      /\ (\A v \in Callers : SyncSound(call[v]))'
      /\ "thread" \notin clash' => TurnsSound(stored') /\ (\A v \in Callers : AheadSound(call[v]))'
      /\ (\A v \in Callers : MarkSound(call[v], "clear", "clear") /\ MarkSound(call[v], "put", "checkpoint"))'
  <2>1. {u} \in SUBSET Callers /\ clash \subseteq clash'
    BY <1>3
  <2> QED
    BY <1>3, <1>4, <2>1, CallsEnd
<1>6. /\ done \in [thread : Nat, clear : Nat, put : Nat] /\ done' \in [thread : Nat, clear : Nat, put : Nat]
      /\ done'.thread # done.thread => x.what = "thread" /\ done'.thread = x.upto
      /\ done'.clear # done.clear => x.what = "clear" /\ done'.clear = x.upto
      /\ done'.put # done.put => x.what = "put" /\ done'.put = x.upto
  <2>1. done \in [thread : Nat, clear : Nat, put : Nat] /\ DOMAIN done = {"thread", "clear", "put"}
    BY DEF StoresInv, StoreTypes
  <2>2. CASE done' = done
    BY <2>1, <2>2
  <2>3. CASE done' = [done EXCEPT ![x.what] = x.upto] /\ x.what = "thread"
    BY <1>2, <2>1, <2>3
  <2>4. CASE done' = [done EXCEPT ![x.what] = x.upto] /\ x.what = "clear"
    BY <1>2, <2>1, <2>4
  <2>5. CASE done' = [done EXCEPT ![x.what] = x.upto] /\ x.what = "put"
    BY <1>2, <2>1, <2>5
  <2> QED
    BY <1>3, <2>1, <2>2, <2>3, <2>4, <2>5
<1>7. StoreTypes'
  <2>1. index' \in BOOLEAN
    BY <1>3 DEF StoresInv, StoreTypes
  <2> QED
    BY <1>3, <1>5, <1>6, <2>1 DEF StoresInv, StoreTypes
<1>8. SyncsSound'
  <2>1. ASSUME NEW m \in 1 .. done'.thread PROVE Told(stored, m)
    <3>1. CASE done'.thread = done.thread
      BY <2>1, <3>1 DEF StoresInv, SyncsSound
    <3>2. CASE x.what = "thread" /\ done'.thread = x.upto
      <4>1. Told(stored, m) \/ \E k \in x.at + 1 .. Len(x.items) : x.items[k].content = Chat[m]
        BY <1>1, <2>1, <3>2 DEF StoresInv, SyncsSound, SyncSound
      <4>2. x.at \in Nat
        BY <1>2 DEF StoreCall
      <4> QED
        BY <1>2, <4>1, <4>2
    <3> QED
      BY <1>6, <3>1, <3>2
  <2> QED
    BY <1>3, <1>5, <2>1 DEF SyncsSound
<1>9. MarksSound'
  <2>1. /\ done.clear <= LastIndex(stored, "clear") /\ done.put <= LastIndex(stored, "checkpoint")
        /\ MarkSound(x, "clear", "clear") /\ MarkSound(x, "put", "checkpoint")
    BY <1>1 DEF StoresInv, MarksSound
  <2>2. done'.clear <= LastIndex(stored, "clear") /\ done'.put <= LastIndex(stored, "checkpoint")
    BY <1>2, <1>6, <2>1 DEF MarkSound
  <2> QED
    BY <1>3, <1>5, <2>2 DEF MarksSound
<1>10. DocumentsSound'
  <2> SUFFICES ASSUME "document" \notin clash
               PROVE  /\ index' => Document(stored) \/ \E v \in Callers : Between(call'[v])
                      /\ \A v \in Callers :
                           Between(call'[v]) /\ call'[v].items[1].type = "document" => Document(stored)
    BY <1>3 DEF DocumentsSound, Between
  <2>1. ~ Between(NoCall) /\ \A v \in Callers : call'[v] = IF v = u THEN NoCall ELSE call[v]
    BY <1>4 DEF Between, NoCall
  <2>2. /\ index => Document(stored) \/ \E v \in Callers : Between(call[v])
        /\ \A v \in Callers :
             Between(call[v]) /\ call[v].items[1].type = "document" => Document(stored)
    BY DEF StoresInv, DocumentsSound
  <2>3. CASE x.what = "document"
    <3>1. Between(call[u])
      BY <1>1, <1>2, <2>3 DEF Between
    <3>2. index' => Document(stored)
      BY <1>1, <1>3, <2>2, <2>3, <3>1
    <3> QED
      BY <2>1, <2>2, <3>2
  <2>4. CASE x.what # "document"
    <3>1. ~ Between(call[u]) /\ index' = index
      BY <1>1, <1>3, <2>4 DEF Between
    <3>2. \A v \in Callers : Between(call'[v]) <=> Between(call[v])
      BY <2>1, <3>1
    <3>3. \A v \in Callers : Between(call'[v]) => call'[v] = call[v]
      BY <2>1
    <3> QED
      BY <2>2, <3>1, <3>2, <3>3
  <2> QED
    BY <2>3, <2>4
<1> QED
  BY <1>5, <1>7, <1>8, <1>9, <1>10 DEF StoresInv

LEMMA SyncKeeps ==
  ASSUME StoresInv, NEW u \in Callers, Sync(u)
  PROVE  StoresInv'
<1>1. PICK n \in DOMAIN Chat : Call(u, "thread", n, Missing(stored, n))
  BY DEF Sync
<1>2. PICK x : x = [what |-> "thread", items |-> Missing(stored, n), at |-> 0, upto |-> n]
  OBVIOUS
<1>3. StoreCall(x) /\ SyncSound(x) /\ AheadSound(x)
  <2>1. stored \in Seq(StoredRow)
    BY DEF StoresInv, StoreTypes
  <2> QED
    BY <1>2, <2>1, MissingRight
<1> QED
  BY <1>1, <1>2, <1>3, CallKeeps

LEMMA StoreOperates ==
  ASSUME StoresInv, NEW u \in Callers,
         \/ OpenAI(u) \/ PydanticAI(u) \/ AutoGen(u) \/ CrewAI(u)
         \/ LlamaChat(u) \/ LlamaDocuments(u) \/ LangGraph(u)
  PROVE  StoresInv'
<1>1. /\ Len(stored) \in Nat
      /\ DOMAIN Appends = {"message", "clear", "tombstone", "document", "put", "writes"}
      /\ "message" \in Appends["message"] /\ "clear" \in Appends["clear"]
      /\ "tombstone" \in Appends["tombstone"] /\ "document" \in Appends["document"]
      /\ "deleted" \in Appends["document"] /\ "checkpoint" \in Appends["put"]
      /\ "writes" \in Appends["writes"]
  BY DEF StoresInv, StoreTypes, Appends
<1>2. \/ Sync(u)
      \/ Rows(u, "tombstone", 0, "tombstone")
      \/ Rows(u, "message", 0, "message") \/ Rows(u, "clear", Len(stored), "clear")
      \/ Rows(u, "document", 0, "document") \/ Rows(u, "document", 0, "deleted")
      \/ Rows(u, "put", Len(stored), "checkpoint") \/ Rows(u, "writes", 0, "writes")
  BY DEF OpenAI, PydanticAI, AutoGen, CrewAI, LlamaChat, LlamaDocuments, LangGraph,
         Tombstone, Say, Clear
<1>3. \A what \in DOMAIN Appends, upto \in Nat : \A type \in Appends[what] :
        Rows(u, what, upto, type) /\ upto <= Len(stored) => StoresInv'
  BY RowsKeeps
<1>4. 0 <= Len(stored) /\ Len(stored) <= Len(stored) /\ 0 \in Nat
  BY <1>1
<1>5. CASE Sync(u)
  BY <1>5, SyncKeeps
<1>6. CASE Rows(u, "tombstone", 0, "tombstone")
  BY <1>1, <1>3, <1>4, <1>6
<1>7. CASE Rows(u, "message", 0, "message")
  BY <1>1, <1>3, <1>4, <1>7
<1>8. CASE Rows(u, "clear", Len(stored), "clear")
  BY <1>1, <1>3, <1>4, <1>8
<1>9. CASE Rows(u, "document", 0, "document")
  BY <1>1, <1>3, <1>4, <1>9
<1>10. CASE Rows(u, "document", 0, "deleted")
  BY <1>1, <1>3, <1>4, <1>10
<1>11. CASE Rows(u, "put", Len(stored), "checkpoint")
  BY <1>1, <1>3, <1>4, <1>11
<1>12. CASE Rows(u, "writes", 0, "writes")
  BY <1>1, <1>3, <1>4, <1>12
<1> QED
  BY <1>2, <1>5, <1>6, <1>7, <1>8, <1>9, <1>10, <1>11, <1>12

LEMMA StoresStutter ==
  ASSUME StoresInv, UNCHANGED <<stored, index, call, clash, done>>
  PROVE  StoresInv'
<1>1. /\ stored' = stored /\ index' = index /\ done' = done /\ clash' = clash /\ call' = call
  OBVIOUS
<1>2. StoreTypes' /\ OneCaller'
  BY <1>1 DEF StoresInv, StoreTypes, OneCaller
<1>3. SyncsSound'
  BY <1>1 DEF StoresInv, SyncsSound, SyncSound, AheadSound, Ahead
<1>4. DocumentsSound' /\ MarksSound'
  BY <1>1 DEF StoresInv, DocumentsSound, Between, MarksSound, MarkSound
<1> QED
  BY <1>2, <1>3, <1>4 DEF StoresInv

LEMMA StoresStart ==
  ASSUME StoresInit
  PROVE  StoresInv
<1>1. /\ stored = << >> /\ index = FALSE /\ clash = {} /\ call = [u \in Callers |-> NoCall]
      /\ done = [thread |-> 0, clear |-> 0, put |-> 0]
  BY DEF StoresInit
<1>2. \A u \in Callers : call[u] = NoCall
  BY <1>1
<1>3. NoCall.what = "none" /\ NoCall.items = << >> /\ NoCall.at = 0 /\ NoCall.upto = 0
  BY DEF NoCall
<1>4. StoreTypes
  <2>1. StoreCall(NoCall)
    BY <1>3 DEF StoreCall, NoCall, CallKind
  <2>2. << >> \in Seq(StoredRow) /\ FALSE \in BOOLEAN
    OBVIOUS
  <2>3. [thread |-> 0, clear |-> 0, put |-> 0] \in [thread : Nat, clear : Nat, put : Nat]
    OBVIOUS
  <2>4. call \in [Callers -> {call[u] : u \in Callers}]
    BY <1>1
  <2> QED
    BY <1>1, <1>2, <2>1, <2>2, <2>3, <2>4 DEF StoreTypes
<1>5. OfType(stored, "turn") = {} /\ \A type : LastIndex(stored, type) \in Nat
  <2>1. stored \in Seq(StoredRow)
    BY <1>1
  <2>2. OfType(stored, "turn") = {}
    BY <1>1 DEF OfType
  <2> QED
    BY <2>1, <2>2, LastRowOf
<1>6. SyncsSound
  BY <1>1, <1>2, <1>3, <1>5 DEF SyncsSound, SyncSound, AheadSound, TurnsSound, Thread
<1>7. DocumentsSound /\ MarksSound
  BY <1>1, <1>2, <1>3, <1>5 DEF DocumentsSound, Between, MarksSound, MarkSound
<1> QED
  BY <1>2, <1>3, <1>4, <1>6, <1>7 DEF StoresInv, OneCaller

\* A conversation that is synced again and again is stored in its order, each
\* message once unless two syncs overlap; a deleted document leaves the index; a
\* cleared history stays so, and a graph resumes from its newest checkpoint: in
\* any order of calls, after any that failed half way and after restarts.
THEOREM StoresStaySound == BridgeSpec => []StoresSound
<1>1. BridgeInit => StoresInv
  BY StoresStart DEF BridgeInit
<1>2. StoresInv /\ [BridgeNext]_bridgeVars => StoresInv'
  <2> SUFFICES ASSUME StoresInv, [BridgeNext]_bridgeVars
               PROVE  StoresInv'
    OBVIOUS
  <2>1. StoresNext \/ UNCHANGED <<stored, index, call, clash, done>>
    BY DEF BridgeNext, bridgeVars, storesOnly, storeVars
  <2>2. CASE StoresNext
    BY <2>2, StoreOperates, AppendNextKeeps, RaiseKeeps, ReturnKeeps, StoresRestartKeeps DEF StoresNext
  <2> QED
    BY <2>1, <2>2, StoresStutter
<1>3. StoresInv => StoresSound
  <2> SUFFICES ASSUME StoresInv
               PROVE  StoresSound
    OBVIOUS
  <2>1. SyncedOnce
    BY DEF StoresInv, SyncsSound, SyncedOnce, TurnsSound, Told
  <2>2. IndexFollows
    BY DEF StoresInv, DocumentsSound, IndexFollows, Between
  <2>3. ReadsWhatReturned
    <3>1. /\ done.clear <= LastIndex(stored, "clear") /\ done.put <= LastIndex(stored, "checkpoint")
          /\ done.clear \in Nat /\ done.put \in Nat
          /\ LastIndex(stored, "clear") \in Nat /\ LastIndex(stored, "checkpoint") \in Nat
      BY LastRowOf DEF StoresInv, MarksSound, StoreTypes
    <3>2. \A i \in History(stored) : i \in Nat /\ i > LastIndex(stored, "clear")
      BY DEF History, OfType, StoresInv, StoreTypes
    <3> QED
      BY <3>1, <3>2 DEF ReadsWhatReturned, Checkpoint
  <2> QED
    BY <2>1, <2>2, <2>3 DEF StoresSound
<1> QED
  BY <1>1, <1>2, <1>3, PTL DEF BridgeSpec

=============================================================================
