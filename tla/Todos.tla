--------------------------------- MODULE Todos ----------------------------------
(***************************************************************************)
(* The tool todo: the list of a running agent, the details of its calls in *)
(* the session's entries, from which the next execution restores the list, *)
(* and the rows of agent_todos that users see.                             *)
(*                                                                         *)
(* The details of a call hold the slice of the list, not a copy of it: as  *)
(* long as an append does not move the list to another array, a later      *)
(* toggle also changes the details of earlier calls in memory.             *)
(***************************************************************************)
EXTENDS Naturals, SequencesExt

CONSTANTS
  MaxTodoCalls, \* bound: todo calls of the session
  MaxTodos,     \* bound: todos in the list
  MaxExecutions \* bound: executions

ASSUME TodosAssumption == {MaxTodoCalls, MaxTodos, MaxExecutions} \subseteq Nat

VARIABLES
  todos,       \* toolset.todos: [id, done]
  nextTodo,
  array,       \* the array behind todos
  callEntries, \* the calls: their parent, and the details unless they failed
  callLeaf,
  savedCalls,  \* the entries of the last snapshot ...
  savedLeaf,   \* ... and its leaf, or where navigate_tree moved it
  rows,        \* agent_todos
  executions,  \* so far
  active, called

todoVars == <<todos, nextTodo, array, callEntries, callLeaf, savedCalls, savedLeaf, rows,
              executions, active, called>>

TodosInit ==
  /\ todos = <<>> /\ nextTodo = 1 /\ array = 0
  /\ callEntries = <<>> /\ callLeaf = 0 /\ savedCalls = <<>> /\ savedLeaf = 0
  /\ rows = {} /\ executions = 0 /\ active = FALSE /\ called = FALSE

-----------------------------------------------------------------------------

\* The calls on the path to an entry that have details: an ancestor always
\* comes before its descendants.
Branch(of, tip) ==
  LET path[i \in 0..Len(of)] == IF i = 0 THEN {} ELSE path[of[i].parent] \cup {i}
  IN  {i \in path[tip] : of[i].ok}

\* A slip, for the check of the properties: the last call of any branch.
BadRestoreTodos(of, tip) ==
  LET calls == {i \in DOMAIN of : of[i].ok}
  IN  IF calls = {} THEN [list |-> <<>>, next |-> 1]
      ELSE LET last == of[CHOOSE i \in calls : \A j \in calls : j <= i]
           IN  [list |-> last.list, next |-> last.next]

\* The details of the last call on the branch.
restoreTodos(of, tip) ==
  LET calls == Branch(of, tip)
  IN  IF calls = {} THEN [list |-> <<>>, next |-> 1]
      ELSE LET last == of[CHOOSE i \in calls : \A j \in calls : j <= i]
           IN  [list |-> last.list, next |-> last.next]

BeginRun ==
  LET restored == restoreTodos(savedCalls, savedLeaf)
  IN  /\ ~active /\ executions < MaxExecutions
      /\ active' = TRUE /\ called' = FALSE /\ executions' = executions + 1
      /\ todos' = restored.list /\ nextTodo' = restored.next
      /\ callEntries' = [i \in DOMAIN savedCalls |-> [savedCalls[i] EXCEPT !.array = 0]]
      /\ callLeaf' = savedLeaf /\ array' = 1
      /\ UNCHANGED <<savedCalls, savedLeaf, rows>>

\* An event todo.updated replaces the rows of the session; one without details
\* deletes them.
persistTodos(list) == rows' = ToSet(list)

\* The entry of a call and its event.
Record(list, ok) ==
  /\ callEntries' = Append(callEntries, [parent |-> callLeaf, ok |-> ok, array |-> array',
                                         next |-> nextTodo', list |-> list, shown |-> list,
                                         execution |-> executions])
  /\ callLeaf' = Len(callEntries')
  /\ persistTodos(list)
  /\ called' = TRUE /\ UNCHANGED <<savedCalls, savedLeaf, executions, active>>

Calling == active /\ Len(callEntries) < MaxTodoCalls

\* append moves the list when its array is full.
AddTodo(moved) ==
  /\ Calling /\ Len(todos) < MaxTodos
  /\ todos' = Append(todos, [id |-> nextTodo, done |-> FALSE])
  /\ nextTodo' = nextTodo + 1
  /\ array' = IF moved THEN array + 1 ELSE array
  /\ Record(todos', TRUE)

Toggled(list, id) ==
  [i \in DOMAIN list |-> IF list[i].id = id THEN [list[i] EXCEPT !.done = ~@] ELSE list[i]]

ToggleTodo(id) ==
  LET shared == [i \in DOMAIN callEntries |->
                   IF callEntries[i].array = array
                   THEN [callEntries[i] EXCEPT !.list = Toggled(@, id)] ELSE callEntries[i]]
  IN  /\ Calling /\ \E i \in DOMAIN todos : todos[i].id = id
      /\ todos' = Toggled(todos, id)
      /\ callEntries' = Append(shared, [parent |-> callLeaf, ok |-> TRUE, array |-> array,
                                        next |-> nextTodo, list |-> todos', shown |-> todos',
                                        execution |-> executions])
      /\ callLeaf' = Len(callEntries')
      /\ persistTodos(todos')
      /\ called' = TRUE
      /\ UNCHANGED <<nextTodo, array, savedCalls, savedLeaf, executions, active>>

ClearTodos ==
  /\ Calling
  /\ todos' = <<>> /\ nextTodo' = 1 /\ array' = array + 1
  /\ Record(<<>>, TRUE)

ListTodos ==
  /\ Calling
  /\ UNCHANGED <<todos, nextTodo, array>>
  /\ Record(todos, TRUE)

\* No text, an unknown id or action: the result is an error and has no details.
FailCall ==
  /\ Calling
  /\ UNCHANGED <<todos, nextTodo, array>>
  /\ Record(<<>>, FALSE)

snapshot ==
  /\ active
  /\ savedCalls' = callEntries /\ savedLeaf' = callLeaf
  /\ UNCHANGED <<todos, nextTodo, array, callEntries, callLeaf, rows, executions, active, called>>

EndRun ==
  /\ active /\ active' = FALSE
  /\ savedCalls' = callEntries /\ savedLeaf' = callLeaf
  /\ UNCHANGED <<todos, nextTodo, array, callEntries, callLeaf, rows, executions, called>>

LoseRun ==
  /\ active /\ active' = FALSE
  /\ UNCHANGED <<todos, nextTodo, array, callEntries, callLeaf, savedCalls, savedLeaf, rows,
                 executions, called>>

\* The operation navigate_tree of another run.
NavigateTo(target) ==
  /\ ~active /\ savedLeaf # target
  /\ savedLeaf' = target
  /\ UNCHANGED <<todos, nextTodo, array, callEntries, callLeaf, savedCalls, rows, executions,
                 active, called>>

TodosNext ==
  \/ BeginRun \/ snapshot \/ EndRun \/ LoseRun
  \/ \E moved \in BOOLEAN : AddTodo(moved)
  \/ \E id \in 1..MaxTodos : ToggleTodo(id)
  \/ ClearTodos \/ ListTodos \/ FailCall
  \/ \E target \in DOMAIN savedCalls : NavigateTo(target)

TodosSpec == TodosInit /\ [][TodosNext]_todoVars

-----------------------------------------------------------------------------
(* Properties.                                                             *)

\* A run that goes on from any entry of the session has the todos that the last
\* call on its branch reported: the same ones in the same order, and numbers
\* for new ones that are free.  Their marks are those reported, or those a later
\* call of the same execution left, through the array they share.
TodosReconstructed ==
  \A i \in DOMAIN savedCalls : savedCalls[i].ok =>
    LET restored == restoreTodos(savedCalls, i)
        shown    == savedCalls[i].shown
    IN  /\ Len(restored.list) = Len(shown)
        /\ \A k \in DOMAIN shown :
             /\ restored.list[k].id = shown[k].id /\ shown[k].id < restored.next
             /\ \A j \in 1..(k - 1) : shown[j].id # shown[k].id
             /\ \/ restored.list[k].done = shown[k].done
                \/ \E j \in (i + 1)..Len(savedCalls) :
                     /\ savedCalls[j].execution = savedCalls[i].execution
                     /\ restored.list[k] \in ToSet(savedCalls[j].shown)

\* What users see after a call of the tool is the list the agent has.
RowsFollowTodos == active /\ called => rows = ToSet(todos)
=============================================================================
