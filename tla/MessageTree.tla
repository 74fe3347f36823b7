----------------------------- MODULE MessageTree -----------------------------
(***************************************************************************)
(* One conversation of the chat bot: the message tree, its queue, the      *)
(* asyncio tasks that process its nodes and the commands /stop and /clear  *)
(* (proxy/messaging: trees/queue_manager.py, trees/data.py, handler.py,    *)
(* node_event_pipeline.py, commands.py).  Trees share nothing but an       *)
(* index.                                                                  *)
(*                                                                         *)
(* A step is what a coroutine does between two awaits that suspend it.     *)
(* Nobody suspends while holding a tree's lock or the manager's, so a      *)
(* locked section never waits and joins the step it is in.  A task is      *)
(* suspended before its first step, while it reads the events of its CLI   *)
(* process, while that process is stopped, and in remove_session.          *)
(***************************************************************************)
EXTENDS Integers, Sequences, FiniteSets

CONSTANTS
  Node,            \* BOUND: the messages of the conversation
  root,            \* the first of them
  Commands,        \* the commands users give, a subset of Command
  None

Command == {"stop node", "stop all", "clear branch", "clear all"}

ASSUME TreeAssumption ==
  /\ root \in Node /\ None \notin Node /\ "all" \notin Node /\ None # "all"
  /\ Commands \subseteq Command

VARIABLES
  message,         \* message[n]: how far handle_message is with n
  parent,          \* MessageNode.parent_id
  state,           \* MessageNode.state
  present,         \* the keys of MessageTree._nodes
  gone,            \* the handler's tree queue no longer knows the tree
  queue,           \* MessageTree._queue
  processing,      \* MessageTree._is_processing
  current,         \* MessageTree._current_node_id
  currentTask,     \* MessageTree._current_task: the node whose task it is
  task,            \* task[n]: process_node(n)
  clearing         \* the /clear that waits for the platform, or None

tvars == <<message, parent, state, present, gone, queue, processing, current, currentTask,
           task, clearing>>

MessageState == {"PENDING", "IN_PROGRESS", "COMPLETED", "ERROR"}

\* none, scheduled, reading CLI events, stopping the process after a cancel, in
\* remove_session, ended, and cancelled before the first step.
TaskPoint == {"none", "created", "running", "unwinding", "closing", "done", "dropped"}

LivePoint == {"created", "running", "unwinding", "closing"}

NoTask == [at |-> "none", cancel |-> FALSE, knows |-> FALSE, captured |-> FALSE]

TInit ==
  /\ message = [n \in Node |-> "new"]
  /\ parent = [n \in Node |-> None]
  /\ state = [n \in Node |-> "PENDING"]
  /\ present = {} /\ gone = FALSE
  /\ queue = << >>
  /\ processing = FALSE /\ current = None /\ currentTask = None
  /\ task = [n \in Node |-> NoTask]
  /\ clearing = None

-----------------------------------------------------------------------------
\* get_tree_for_node: the index finds the tree of n.
Registered(n) == n \in present /\ ~gone

Live(n) == task[n].at \in LivePoint

\* get_descendants: the least set with b that is closed under children_ids.
Subtree(b) ==
  {n \in present : \A S \in SUBSET present :
     b \in S /\ (\A c \in present : parent[c] \in S => c \in S) => n \in S}

\* get_pending_children
PendingBelow(b) ==
  {n \in present \ {b} : \A S \in SUBSET present :
     b \in S /\ (\A c \in present : parent[c] \in S /\ state[c] = "PENDING" => c \in S) => n \in S}

\* Task.cancel(): the next step of the task raises CancelledError.  It changes nothing
\* for a task that is unwinding, closing or at its end.
Cancelled(n) ==
  IF task[n].at \in {"created", "running"} THEN [task EXCEPT ![n].cancel = TRUE] ELSE task

\* set_node_error_sync for the nodes in S
Failed(S) == [n \in Node |-> IF n \in S THEN "ERROR" ELSE state[n]]

\* MessageTree.update_state by the task of n, which found a tree when it started.
Updated(n, s) == IF task[n].knows /\ n \in present THEN [state EXCEPT ![n] = s] ELSE state

\* mark_node_error with propagate_to_children
Propagated(n) == IF Registered(n) THEN Failed({n} \cup PendingBelow(n)) ELSE state

Queued(n) == \E i \in DOMAIN queue : queue[i] = n

\* remove_from_queue: the k-th node that stays is the one at the k-th place that is kept.
Kept(S) == {i \in DOMAIN queue : queue[i] \notin S}
KeptUpTo(S, i) == Cardinality({j \in Kept(S) : j <= i})
Without(S) == [k \in 1 .. Cardinality(Kept(S)) |-> queue[CHOOSE i \in Kept(S) : KeptUpTo(S, i) = k]]

-----------------------------------------------------------------------------
(***************************************************************************)
(* handle_message                                                          *)
(***************************************************************************)
\* The reply is resolved to its parent; then the status message is awaited.
Receive(n, p) ==
  /\ message[n] = "new"
  /\ IF n = root THEN p = None ELSE p \in Node /\ Registered(p)
  /\ message' = [message EXCEPT ![n] = "sending"]
  /\ parent' = [parent EXCEPT ![n] = p]
  /\ UNCHANGED <<state, present, gone, queue, processing, current, currentTask, task, clearing>>

\* MUTANT: enqueue_and_start does not look at is_processing.
DeliverAlwaysStarts(n) ==
  /\ message[n] = "sending"
  /\ n = root \/ Registered(parent[n])
  /\ message' = [message EXCEPT ![n] = "delivered"]
  /\ present' = present \cup {n}
  /\ processing' = TRUE /\ current' = n /\ currentTask' = n
  /\ task' = [task EXCEPT ![n].at = "created"]
  /\ UNCHANGED <<parent, state, gone, queue, clearing>>

\* MUTANT: the newest message is put in front.
EnqueuedInFront(n) == <<n>> \o queue

\* put_queue_unlocked
Enqueued(n) == Append(queue, n)

\* create_tree or add_to_tree, then enqueue_and_start.
Deliver(n) ==
  /\ message[n] = "sending"
  /\ n = root \/ Registered(parent[n])
  /\ message' = [message EXCEPT ![n] = "delivered"]
  /\ present' = present \cup {n}
  /\ IF processing
     THEN /\ queue' = Enqueued(n)
          /\ UNCHANGED <<processing, current, currentTask, task>>
     ELSE /\ processing' = TRUE /\ current' = n /\ currentTask' = n
          /\ task' = [task EXCEPT ![n].at = "created"]
          /\ UNCHANGED queue
  /\ UNCHANGED <<parent, state, gone, clearing>>

\* The platform returned no message id, or the parent was removed meanwhile (ValueError).
Lose(n) ==
  /\ message[n] = "sending"
  /\ message' = [message EXCEPT ![n] = "lost"]
  /\ UNCHANGED <<parent, state, present, gone, queue, processing, current, currentTask, task, clearing>>

-----------------------------------------------------------------------------
(***************************************************************************)
(* process_node and _process_node_impl                                     *)
(***************************************************************************)
\* MUTANT: _process_next looks at the head of the queue and leaves it there.
ProcessNextPeeks(n) ==
  LET ended == [task EXCEPT ![n].at = "done"]
  IN  IF queue = << >>
      THEN /\ processing' = FALSE /\ current' = None /\ task' = ended
           /\ UNCHANGED <<queue, currentTask>>
      ELSE LET h == Head(queue)
           IN  /\ processing' = TRUE /\ current' = h /\ currentTask' = h
               /\ task' = [ended EXCEPT ![h].at = "created"]
               /\ UNCHANGED queue

\* _process_next at the end of n's task: the head of the queue gets the tree; if it was
\* removed from the tree meanwhile, no task is created for it.
ProcessNext(n) ==
  LET ended == [task EXCEPT ![n].at = "done"]
  IN  IF queue = << >>
      THEN /\ processing' = FALSE /\ current' = None /\ task' = ended
           /\ UNCHANGED <<queue, currentTask>>
      ELSE LET h == Head(queue)
           IN  /\ queue' = Tail(queue) /\ processing' = TRUE /\ current' = h
               /\ IF h \in present
                  THEN currentTask' = h /\ task' = [ended EXCEPT ![h].at = "created"]
                  ELSE task' = ended /\ UNCHANGED currentTask

\* MUTANT: a node that is skipped does not pass the tree on.
TaskSkipsSilently(n) ==
  /\ task[n].at = "created" /\ ~task[n].cancel
  /\ state[n] = "ERROR"
  /\ task' = [task EXCEPT ![n].at = "done"]
  /\ UNCHANGED <<message, parent, state, present, gone, queue, processing, current, currentTask, clearing>>

\* process_node returns early for a node that is already ERROR.
TaskSkips(n) ==
  /\ task[n].at = "created" /\ ~task[n].cancel
  /\ state[n] = "ERROR"
  /\ ProcessNext(n)
  /\ UNCHANGED <<message, parent, state, present, gone, clearing>>

\* get_or_create_session finds a session that is still open: the parent's, or the one a
\* sibling opened under the parent's id.  Its id then counts as captured.
SharesSession(n) ==
  /\ Registered(n) /\ parent[n] # None
  /\ \E m \in Node \ {n} :
       Live(m) /\ task[m].at # "created" /\ parent[n] \in {m, parent[m]}

TaskStarts(n) ==
  /\ task[n].at = "created" /\ ~task[n].cancel
  /\ state[n] # "ERROR"
  /\ \E c \in {FALSE, SharesSession(n)} :
       task' = [task EXCEPT ![n].at = "running", ![n].knows = Registered(n), ![n].captured = c]
  /\ state' = IF Registered(n) THEN [state EXCEPT ![n] = "IN_PROGRESS"] ELSE state
  /\ UNCHANGED <<message, parent, present, gone, queue, processing, current, currentTask, clearing>>

\* get_or_create_session raises RuntimeError, as a session manager with a limit does.
\* There is no session to remove.
SessionRefused(n) ==
  /\ task[n].at = "created" /\ ~task[n].cancel
  /\ state[n] # "ERROR"
  /\ state' = IF Registered(n) THEN [state EXCEPT ![n] = "ERROR"] ELSE state
  /\ ProcessNext(n)
  /\ UNCHANGED <<message, parent, present, gone, clearing>>

\* A coroutine that is cancelled before its first step never enters its try block.
TaskDropped(n) ==
  /\ task[n].at = "created" /\ task[n].cancel
  /\ task' = [task EXCEPT ![n].at = "dropped"]
  /\ UNCHANGED <<message, parent, state, present, gone, queue, processing, current, currentTask, clearing>>

\* The task is resumed by its CLI process and moves on to `point'.
Resumed(n, point) ==
  /\ task[n].at = "running" /\ ~task[n].cancel
  /\ task' = [task EXCEPT ![n].at = point]
  /\ UNCHANGED <<message, parent, present, gone, queue, processing, current, currentTask, clearing>>

\* handle_session_info_event
SessionInfo(n) ==
  /\ task[n].at = "running" /\ ~task[n].cancel /\ ~task[n].captured
  /\ task' = [task EXCEPT ![n].captured = TRUE]
  /\ state' = Updated(n, "IN_PROGRESS")
  /\ UNCHANGED <<message, parent, present, gone, queue, processing, current, currentTask, clearing>>

\* An error event before the end of the stream.
ErrorEvent(n) ==
  /\ Resumed(n, "running")
  /\ state' = IF task[n].knows THEN Propagated(n) ELSE state

\* The process exits with 0: completed, if it ever told its session id.
ExitSuccess(n) ==
  /\ Resumed(n, "closing")
  /\ state' = IF task[n].captured THEN Updated(n, "COMPLETED") ELSE state

\* A non-zero exit is parsed into an error and a complete event, and complete is handled
\* as after a success.
ExitFailure(n) ==
  /\ Resumed(n, "closing")
  /\ state' = IF ~task[n].knows THEN state
              ELSE IF task[n].captured /\ n \in present
              THEN [Propagated(n) EXCEPT ![n] = "COMPLETED"]
              ELSE Propagated(n)

\* Any other exception, such as a CLI that cannot be started.
TaskFailed(n) ==
  /\ Resumed(n, "closing")
  /\ state' = IF task[n].knows THEN Propagated(n) ELSE state

\* CancelledError inside start_task, which first stops the process.
CancelDelivered(n) ==
  /\ task[n].at = "running" /\ task[n].cancel
  /\ task' = [task EXCEPT ![n].at = "unwinding", ![n].cancel = FALSE]
  /\ UNCHANGED <<message, parent, state, present, gone, queue, processing, current, currentTask, clearing>>

\* ... and then the handler of CancelledError in _process_node_impl.
Unwound(n) ==
  /\ task[n].at = "unwinding"
  /\ task' = [task EXCEPT ![n].at = "closing"]
  /\ state' = Updated(n, "ERROR")
  /\ UNCHANGED <<message, parent, present, gone, queue, processing, current, currentTask, clearing>>

\* remove_session returns; the finally block of process_node.
Closed(n) ==
  /\ task[n].at = "closing"
  /\ ProcessNext(n)
  /\ UNCHANGED <<message, parent, state, present, gone, clearing>>

TaskStep(n) ==
  \/ TaskSkips(n) \/ TaskStarts(n) \/ SessionRefused(n) \/ TaskDropped(n)
  \/ SessionInfo(n) \/ ErrorEvent(n) \/ ExitSuccess(n) \/ ExitFailure(n)
  \/ TaskFailed(n)
  \/ CancelDelivered(n) \/ Unwound(n) \/ Closed(n)

-----------------------------------------------------------------------------
(***************************************************************************)
(* Commands                                                                *)
(***************************************************************************)
Settled(n) == state[n] \in {"COMPLETED", "ERROR"}

\* MUTANT: cancel_node leaves the state to the task it cancels.
StopNodeQuietly(n) ==
  /\ "stop node" \in Commands
  /\ Registered(n) /\ ~Settled(n)
  /\ task' = IF current = n /\ currentTask # None THEN Cancelled(currentTask) ELSE task
  /\ queue' = Without({n})
  /\ UNCHANGED <<message, parent, state, present, gone, processing, current, currentTask, clearing>>

\* /stop in reply to n: stop_task, cancel_node.
StopNode(n) ==
  /\ "stop node" \in Commands
  /\ Registered(n) /\ ~Settled(n)
  /\ task' = IF current = n /\ currentTask # None THEN Cancelled(currentTask) ELSE task
  /\ queue' = Without({n})
  /\ state' = Failed({n})
  /\ UNCHANGED <<message, parent, present, gone, processing, current, currentTask, clearing>>

\* MUTANT: cancel_tree drains the queue without marking its nodes.
CancelTreeCurrentOnly ==
  /\ task' = IF currentTask # None THEN Cancelled(currentTask) ELSE task
  /\ state' = Failed({n \in present : n = current /\ ~Settled(n)})
  /\ queue' = << >>
  /\ processing' = FALSE /\ current' = None

\* cancel_tree, of stop_all_tasks and of remove_branch.
CancelTree ==
  /\ task' = IF currentTask # None THEN Cancelled(currentTask) ELSE task
  /\ state' = Failed({n \in present : ~Settled(n) \/ Queued(n)})
  /\ queue' = << >>
  /\ processing' = FALSE /\ current' = None

\* /stop
StopAll ==
  /\ "stop all" \in Commands
  /\ present # {} /\ ~gone
  /\ CancelTree
  /\ UNCHANGED <<message, parent, present, gone, currentTask, clearing>>

\* /clear in reply to b: cancel_branch; then the deletion of the messages is awaited.
ClearBranch(b) ==
  /\ "clear branch" \in Commands
  /\ clearing = None /\ Registered(b)
  /\ LET open == {n \in Subtree(b) : ~Settled(n)}
     IN  /\ task' = IF current \in open /\ currentTask # None THEN Cancelled(currentTask) ELSE task
         /\ queue' = Without(open \ {current})
         /\ state' = Failed(open)
  /\ clearing' = b
  /\ UNCHANGED <<message, parent, present, gone, processing, current, currentTask>>

\* remove_branch
BranchRemoved ==
  /\ clearing \in Node
  /\ IF ~Registered(clearing)
     THEN UNCHANGED <<state, present, gone, queue, processing, current, task>>
     ELSE IF clearing = root
     THEN CancelTree /\ gone' = TRUE /\ UNCHANGED present
     ELSE /\ present' = present \ Subtree(clearing)
          /\ UNCHANGED <<state, gone, queue, processing, current, task>>
  /\ clearing' = None
  /\ UNCHANGED <<message, parent, currentTask>>

\* /clear: stop_all_tasks; then CLI sessions and the platform are awaited.
ClearAll ==
  /\ "clear all" \in Commands
  /\ clearing = None /\ present # {} /\ ~gone
  /\ CancelTree
  /\ clearing' = "all"
  /\ UNCHANGED <<message, parent, present, gone, currentTask>>

\* replace_tree_queue
QueueReplaced ==
  /\ clearing = "all"
  /\ gone' = TRUE /\ clearing' = None
  /\ UNCHANGED <<message, parent, state, present, queue, processing, current, currentTask, task>>

UserStep ==
  \/ \E n \in Node, p \in Node \cup {None} : Receive(n, p)
  \/ \E n \in Node : Lose(n) \/ StopNode(n) \/ ClearBranch(n)
  \/ StopAll \/ ClearAll

PlatformStep == BranchRemoved \/ QueueReplaced \/ \E n \in Node : Deliver(n)

TNext == UserStep \/ PlatformStep \/ \E n \in Node : TaskStep(n)

TSpec == TInit /\ [][TNext]_tvars

(***************************************************************************)
(* Fairness: the event loop resumes every task that can go on, and a CLI   *)
(* process ends.                                                           *)
(***************************************************************************)
TFairSpec ==
  /\ TSpec
  /\ \A n \in Node : /\ WF_tvars(TaskSkips(n) \/ TaskStarts(n) \/ SessionRefused(n) \/ TaskDropped(n))
                     /\ WF_tvars(ExitSuccess(n) \/ ExitFailure(n) \/ TaskFailed(n) \/ CancelDelivered(n))
                     /\ WF_tvars(Unwound(n)) /\ WF_tvars(Closed(n))

-----------------------------------------------------------------------------
TreeTypeOK ==
  /\ message \in [Node -> {"new", "sending", "delivered", "lost"}]
  /\ parent \in [Node -> Node \cup {None}]
  /\ state \in [Node -> MessageState]
  /\ present \subseteq Node /\ gone \in BOOLEAN
  /\ queue \in Seq(Node)
  /\ processing \in BOOLEAN /\ (processing <=> current # None)
  /\ current \in Node \cup {None} /\ currentTask \in Node \cup {None}
  /\ task \in [Node -> [at: TaskPoint, cancel: BOOLEAN, knows: BOOLEAN, captured: BOOLEAN]]
  /\ clearing \in Node \cup {None, "all"}

\* One node of a conversation is processed at a time, as long as nobody stops or clears
\* more than single messages.
OneAtATime == \A m, n \in Node : Live(m) /\ Live(n) => m = n

\* A reply is processed only after the message it replies to, whose session it forks:
\* the parent's task has ended, or the parent will never get one.
ParentFirst ==
  \A n \in Node : task[n].at # "none" /\ parent[n] # None =>
    ~Live(parent[n]) /\ ~Queued(parent[n])

\* A tree that counts as busy has a task that will pass it on (is_processing of data.py),
\* whatever was stopped or cleared.  Two exceptions keep it busy: a task that was
\* cancelled before its first step, and a node that was dequeued after its removal.
BusyTreeHasTask ==
  processing => current \notin present \/ task[current].at \in LivePoint \cup {"dropped"}

\* /stop wins over whatever the CLI process still says: a node whose task is cancelled
\* is ERROR, from the command until the task has unwound.
StopWins ==
  \A n \in Node : task[n].cancel \/ task[n].at \in {"unwinding", "dropped"} => state[n] = "ERROR"

\* "PENDING: queued, waiting to be processed": no node of a known tree waits for nothing,
\* whatever commands meet its task or its predecessor's.
PendingWillRun ==
  \A n \in present : state[n] = "PENDING" /\ ~gone => task[n].at = "created" \/ Queued(n)

\* "IN_PROGRESS: currently being processed by Claude": nobody leaves a node in that state,
\* except a process that ends without having told its session id (the `complete' event).
InProgressIsProcessed ==
  \A n \in Node : Registered(n) /\ state[n] = "IN_PROGRESS" => Live(n) \/ ~task[n].captured

\* Nothing is forgotten, whatever commands meet whatever tasks: who waits has a task or
\* a place in the queue, a busy tree has a task that will pass it on unless that task was
\* cancelled before its first step or its node was removed before it was dequeued, and
\* who is in progress has a process unless that ended without a session id.
NothingForgotten == TreeTypeOK /\ PendingWillRun /\ BusyTreeHasTask /\ InProgressIsProcessed

\* Nothing is done twice and nothing is undone, also when commands and tasks overlap: a
\* message is processed at most once, and a completed one is never turned into an error
\* by a late command or by another node.
NothingUndone ==
  [][\A n \in Node :
       /\ task[n].at # "none" => task'[n].at # "created" \/ task[n].at = "created"
       /\ state[n] = "COMPLETED" => state'[n] = "COMPLETED"]_tvars

\* A queued message gets its turn and comes to an end, behind messages that fail, are
\* skipped or are stopped; unless a task was cancelled before its first step.
QueuedGetsItsTurn ==
  \A n \in Node : Queued(n) ~> (~Queued(n) /\ ~Live(n)) \/ \E m \in Node : task[m].at = "dropped"

-----------------------------------------------------------------------------
(***************************************************************************)
(* What comments of the repository say and the code does not keep          *)
(***************************************************************************)
\* "Per-tree queue ensures ordered processing": no two nodes are worked on that nobody
\* has cancelled.
OrderedProcessing ==
  \A m, n \in Node : task[m].at = "running" /\ task[n].at = "running" /\ m # n =>
    task[m].cancel \/ task[n].cancel

=============================================================================
