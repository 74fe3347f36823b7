-------------------------- MODULE MessageTreeProofs --------------------------
(***************************************************************************)
(* For conversations of any size.  Where users stop single messages only:  *)
(* the tree has one owner, a stop is final, and a reply is served after    *)
(* its parent.  Whatever commands users give: nobody is forgotten, no      *)
(* message is processed twice and no completed one is undone.              *)
(***************************************************************************)
EXTENDS MessageTree, TLAPS, FiniteSetTheorems

TaskRecord == [at: TaskPoint, cancel: BOOLEAN, knows: BOOLEAN, captured: BOOLEAN]

\* The part of TreeTypeOK that the argument needs.
TasksTyped ==
  /\ task \in [Node -> TaskRecord]
  /\ state \in [Node -> MessageState]
  /\ present \subseteq Node
  /\ clearing = None

\* Whoever is alive owns the tree: it is the current node, and its task the current one.
SlotOwned == \A n \in Node : Live(n) => processing /\ current = n /\ currentTask = n

TreeInv == TasksTyped /\ SlotOwned /\ StopWins

StopsOnly == Commands \subseteq {"stop node"}

-----------------------------------------------------------------------------
\* Marking nodes as failed keeps the states typed and takes no failure back.
LEMMA FailedTyped ==
  ASSUME TasksTyped, NEW S
  PROVE  /\ Failed(S) \in [Node -> MessageState]
         /\ \A m \in Node : state[m] = "ERROR" => Failed(S)[m] = "ERROR"
  BY DEF TasksTyped, Failed, MessageState

\* Nor does the propagation of an error to the replies that wait.
LEMMA PropagatedTyped ==
  ASSUME TasksTyped, NEW n \in Node
  PROVE  /\ Propagated(n) \in [Node -> MessageState]
         /\ \A m \in Node : state[m] = "ERROR" => Propagated(n)[m] = "ERROR"
<1>1. CASE Registered(n)
  BY <1>1, FailedTyped DEF Propagated
<1>2. CASE ~Registered(n)
  BY <1>2 DEF Propagated, TasksTyped
<1> QED BY <1>1, <1>2

\* A task changes the state of its own node only.
LEMMA UpdatedTyped ==
  ASSUME TasksTyped, NEW n \in Node, NEW s \in MessageState
  PROVE  /\ Updated(n, s) \in [Node -> MessageState]
         /\ \A m \in Node \ {n} : Updated(n, s)[m] = state[m]
  BY DEF TasksTyped, Updated

\* At the start nothing is alive and nothing is cancelled.
LEMMA TreeInvInit ==
  ASSUME TInit
  PROVE  TreeInv
  BY DEF TInit, TreeInv, TasksTyped, SlotOwned, StopWins, Live, NoTask, TaskRecord, TaskPoint,
         LivePoint, MessageState

-----------------------------------------------------------------------------
\* A new message starts a task only in a tree that nobody owns.
LEMMA DeliverKeeps ==
  ASSUME TreeInv, NEW n \in Node, Deliver(n)
  PROVE  TreeInv'
<1> USE DEF TreeInv, TasksTyped, TaskRecord, TaskPoint, LivePoint, Live
<1>1. CASE processing
  BY <1>1 DEF Deliver, SlotOwned, StopWins
<1>2. CASE ~processing
  <2>1. task' = [task EXCEPT ![n].at = "created"] /\ state' = state
    BY <1>2 DEF Deliver
  <2>2. \A m \in Node : m # n => task'[m] = task[m]
    BY <2>1
  <2>3. task'[n].at = "created" /\ task'[n].cancel = task[n].cancel
    BY <2>1
  <2>4. TasksTyped'
    BY <2>1 DEF Deliver
  <2>5. SlotOwned'
    BY <1>2, <2>2 DEF Deliver, SlotOwned
  <2>6. StopWins'
    BY <2>1, <2>2, <2>3 DEF StopWins
  <2> QED BY <2>4, <2>5, <2>6
<1> QED BY <1>1, <1>2

\* The end of a task hands the tree to one other task or to nobody.
LEMMA ProcessNextKeeps ==
  ASSUME TreeInv, NEW n \in Node, Live(n), task[n].cancel => state[n] = "ERROR",
         task[n].at # "unwinding", ProcessNext(n),
         present' = present, clearing' = clearing,
         state' \in [Node -> MessageState], \A m \in Node \ {n} : state'[m] = state[m],
         task[n].cancel => state'[n] = "ERROR"
  PROVE  TreeInv'
<1> USE DEF TreeInv, TasksTyped, TaskRecord, TaskPoint, LivePoint, Live
<1>a. \A m \in Node : m # n => ~Live(m)
  BY DEF SlotOwned
<1>1. CASE queue = << >>
  <2>1. task' = [task EXCEPT ![n].at = "done"]
    BY <1>1 DEF ProcessNext
  <2>2. /\ task'[n].at = "done" /\ task'[n].cancel = task[n].cancel
        /\ \A m \in Node : m # n => task'[m] = task[m]
    BY <2>1
  <2>3. TasksTyped'
    BY <2>1
  <2>4. SlotOwned'
    BY <2>2, <1>a DEF SlotOwned
  <2>5. StopWins'
    BY <2>2 DEF StopWins
  <2> QED BY <2>3, <2>4, <2>5
<1>2. CASE queue # << >>
  <2> DEFINE h == Head(queue)
  <2>1. CASE h \in present
    <3>1. /\ task' = [[task EXCEPT ![n].at = "done"] EXCEPT ![h].at = "created"]
          /\ processing' = TRUE /\ current' = h /\ currentTask' = h
      BY <1>2, <2>1 DEF ProcessNext
    <3>2. h \in Node
      BY <2>1
    <3> HIDE DEF h
    <3>3. /\ \A m \in Node : task'[m].cancel = task[m].cancel
          /\ task'[h].at = "created"
          /\ n # h => task'[n].at = "done"
          /\ \A m \in Node : m # n /\ m # h => task'[m] = task[m]
      BY <3>1, <3>2
    <3>4. TasksTyped'
      <4>1. PICK mid \in [Node -> TaskRecord] : mid = [task EXCEPT ![n].at = "done"]
        OBVIOUS
      <4>2. task' = [mid EXCEPT ![h].at = "created"]
        BY <3>1, <4>1
      <4> QED BY <4>2, <3>2
    <3>5. SlotOwned'
      BY <3>1, <3>3, <1>a DEF SlotOwned
    <3>6. StopWins'
      BY <3>3, <3>2 DEF StopWins
    <3> QED BY <3>4, <3>5, <3>6
  <2>2. CASE h \notin present
    <3>1. task' = [task EXCEPT ![n].at = "done"]
      BY <1>2, <2>2 DEF ProcessNext
    <3>2. /\ task'[n].at = "done" /\ task'[n].cancel = task[n].cancel
          /\ \A m \in Node : m # n => task'[m] = task[m]
      BY <3>1
    <3>3. TasksTyped'
      BY <3>1
    <3>4. SlotOwned'
      BY <3>2, <1>a DEF SlotOwned
    <3>5. StopWins'
      BY <3>2 DEF StopWins
    <3> QED BY <3>3, <3>4, <3>5
  <2> QED BY <2>1, <2>2
<1> QED BY <1>1, <1>2

\* A task that moves on keeps the tree; what it does to its own node is allowed as long
\* as nobody has stopped it.
LEMMA TaskMoves ==
  ASSUME TreeInv, NEW n \in Node, Live(n), NEW r \in TaskRecord,
         task' = [task EXCEPT ![n] = r],
         processing' = processing, current' = current, currentTask' = currentTask,
         present' = present, clearing' = clearing,
         state' \in [Node -> MessageState],
         \A m \in Node \ {n} : state[m] = "ERROR" => state'[m] = "ERROR",
         r.cancel \/ r.at \in {"unwinding", "dropped"} => state'[n] = "ERROR"
  PROVE  TreeInv'
<1> USE DEF TreeInv, TasksTyped
<1>1. task'[n] = r /\ \A m \in Node : m # n => task'[m] = task[m]
  OBVIOUS
<1>2. TasksTyped'
  OBVIOUS
<1>3. SlotOwned'
  BY <1>1 DEF SlotOwned, Live
<1>4. StopWins'
  BY <1>1 DEF StopWins
<1> QED BY <1>2, <1>3, <1>4

\* /stop marks the node and cancels its task in one step.
LEMMA StopNodeKeeps ==
  ASSUME TreeInv, NEW n \in Node, StopNode(n)
  PROVE  TreeInv'
<1> USE DEF TreeInv, TasksTyped, TaskRecord, TaskPoint
<1>1. state' = Failed({n}) /\ state'[n] = "ERROR"
  BY DEF StopNode, Failed
<1>2. state' \in [Node -> MessageState] /\ \A m \in Node : state[m] = "ERROR" => state'[m] = "ERROR"
  BY <1>1, FailedTyped
<1>3. CASE task' = task
  BY <1>1, <1>2, <1>3 DEF StopNode, SlotOwned, StopWins, Live
<1>4. CASE task' # task
  <2>1. /\ current = n /\ currentTask # None /\ task' = Cancelled(currentTask)
        /\ task[currentTask].at \in {"created", "running"}
    BY <1>4 DEF StopNode, Cancelled
  <2>2. task' = [task EXCEPT ![currentTask].cancel = TRUE]
    BY <2>1 DEF Cancelled
  <2>3. currentTask \in Node
    BY <2>2, <1>4
  <2>4. currentTask = n
    BY <2>1, <2>3 DEF SlotOwned, Live, LivePoint
  <2>5. /\ \A m \in Node : task'[m].at = task[m].at
        /\ \A m \in Node : m # n => task'[m] = task[m]
    BY <2>2, <2>4
  <2>6. TasksTyped'
    <3>0. PICK r : r = [task[n] EXCEPT !.cancel = TRUE]
      OBVIOUS
    <3>1. r \in TaskRecord
      BY <3>0
    <3>2. task' = [task EXCEPT ![n] = r]
      BY <2>2, <2>4, <3>0
    <3>3. task \in [Node -> TaskRecord] /\ present \subseteq Node /\ clearing = None
      OBVIOUS
    <3>4. task' \in [Node -> TaskRecord]
      BY <3>1, <3>2, <3>3
    <3>5. present' = present /\ clearing' = clearing
      BY DEF StopNode
    <3> QED BY <1>2, <3>3, <3>4, <3>5
  <2>7. SlotOwned'
    BY <2>5 DEF StopNode, SlotOwned, Live
  <2>8. StopWins'
    BY <1>1, <1>2, <2>5 DEF StopWins
  <2> QED BY <2>6, <2>7, <2>8
<1> QED BY <1>3, <1>4

\* The steps that end a task.
LEMMA EndingKeeps ==
  ASSUME TreeInv, NEW n \in Node, TaskSkips(n) \/ SessionRefused(n) \/ Closed(n)
  PROVE  TreeInv'
<1> USE DEF TreeInv, TasksTyped, Live, LivePoint
<1>1. Live(n) /\ task[n].at # "unwinding" /\ (task[n].cancel => state[n] = "ERROR")
  BY DEF TaskSkips, SessionRefused, Closed, StopWins
<1>2. ProcessNext(n) /\ present' = present /\ clearing' = clearing
  BY DEF TaskSkips, SessionRefused, Closed
<1>3. /\ state' \in [Node -> MessageState]
      /\ \A m \in Node \ {n} : state'[m] = state[m]
      /\ task[n].cancel => state'[n] = "ERROR"
  BY <1>1 DEF TaskSkips, SessionRefused, Closed, MessageState
<1> QED BY <1>1, <1>2, <1>3, ProcessNextKeeps

\* The steps of a task between its start and its end.
LEMMA RunningKeeps ==
  ASSUME TreeInv, NEW n \in Node,
         \/ TaskStarts(n) \/ TaskDropped(n) \/ SessionInfo(n) \/ ErrorEvent(n) \/ ExitSuccess(n)
         \/ ExitFailure(n) \/ TaskFailed(n) \/ CancelDelivered(n) \/ Unwound(n)
  PROVE  TreeInv'
<1> USE DEF TreeInv
<1>1. CASE TaskStarts(n)
  <2>1. PICK c \in {FALSE, SharesSession(n)} :
          task' = [task EXCEPT ![n].at = "running", ![n].knows = Registered(n), ![n].captured = c]
    BY <1>1 DEF TaskStarts
  <2>2. c \in BOOLEAN /\ Registered(n) \in BOOLEAN
    BY <2>1 DEF SharesSession, Registered
  <2> DEFINE r == [task[n] EXCEPT !.at = "running", !.knows = Registered(n), !.captured = c]
  <2>3. r \in TaskRecord /\ r.cancel = FALSE /\ r.at = "running"
    BY <2>2, <1>1 DEF TasksTyped, TaskRecord, TaskPoint, TaskStarts
  <2>4. task' = [task EXCEPT ![n] = r]
    BY <2>1 DEF TasksTyped, TaskRecord
  <2>5. /\ state' \in [Node -> MessageState]
        /\ \A m \in Node \ {n} : state[m] = "ERROR" => state'[m] = "ERROR"
    BY <1>1 DEF TaskStarts, TasksTyped, MessageState
  <2>6. Live(n)
    BY <1>1 DEF TaskStarts, Live, LivePoint
  <2> HIDE DEF r
  <2> QED BY <1>1, <2>3, <2>4, <2>5, <2>6, TaskMoves DEF TaskStarts
<1>2. CASE TaskDropped(n)
  <2> DEFINE r == [task[n] EXCEPT !.at = "dropped"]
  <2>1. r \in TaskRecord /\ task' = [task EXCEPT ![n] = r] /\ Live(n) /\ state[n] = "ERROR"
    BY <1>2 DEF TaskDropped, TasksTyped, TaskRecord, TaskPoint, Live, LivePoint, StopWins
  <2>2. state' = state /\ state \in [Node -> MessageState]
    BY <1>2 DEF TaskDropped, TasksTyped
  <2> HIDE DEF r
  <2> QED BY <1>2, <2>1, <2>2, TaskMoves DEF TaskDropped
<1>3. CASE SessionInfo(n)
  <2> DEFINE r == [task[n] EXCEPT !.captured = TRUE]
  <2>1. /\ r \in TaskRecord /\ task' = [task EXCEPT ![n] = r] /\ Live(n)
        /\ r.at = "running" /\ r.cancel = FALSE
    BY <1>3 DEF SessionInfo, TasksTyped, TaskRecord, TaskPoint, Live, LivePoint
  <2>2. /\ state' \in [Node -> MessageState]
        /\ \A m \in Node \ {n} : state[m] = "ERROR" => state'[m] = "ERROR"
    BY <1>3, UpdatedTyped DEF SessionInfo, MessageState
  <2> HIDE DEF r
  <2> QED BY <1>3, <2>1, <2>2, TaskMoves DEF SessionInfo
<1>4. CASE ErrorEvent(n) \/ ExitSuccess(n) \/ ExitFailure(n) \/ TaskFailed(n)
  <2>1. PICK p \in {"running", "closing"} : Resumed(n, p)
    BY <1>4 DEF ErrorEvent, ExitSuccess, ExitFailure, TaskFailed
  <2> DEFINE r == [task[n] EXCEPT !.at = p]
  <2>2. /\ r \in TaskRecord /\ task' = [task EXCEPT ![n] = r] /\ Live(n)
        /\ r.at \notin {"unwinding", "dropped"} /\ r.cancel = FALSE
    BY <2>1 DEF Resumed, TasksTyped, TaskRecord, TaskPoint, Live, LivePoint
  <2>3. /\ state' \in [Node -> MessageState]
        /\ \A m \in Node \ {n} : state[m] = "ERROR" => state'[m] = "ERROR"
    <3>1. CASE ExitSuccess(n)
      BY <3>1, UpdatedTyped DEF ExitSuccess, MessageState, TasksTyped
    <3>2. CASE ErrorEvent(n) \/ TaskFailed(n)
      BY <3>2, PropagatedTyped DEF ErrorEvent, TaskFailed, TasksTyped
    <3>3. CASE ExitFailure(n)
      <4>1. state' \in {state, Propagated(n), [Propagated(n) EXCEPT ![n] = "COMPLETED"]}
        BY <3>3 DEF ExitFailure
      <4> QED BY <4>1, PropagatedTyped DEF TasksTyped, MessageState
    <3> QED BY <1>4, <3>1, <3>2, <3>3
  <2> HIDE DEF r
  <2> QED BY <2>1, <2>2, <2>3, TaskMoves DEF Resumed
<1>5. CASE CancelDelivered(n)
  <2> DEFINE r == [task[n] EXCEPT !.at = "unwinding", !.cancel = FALSE]
  <2>1. r \in TaskRecord /\ task' = [task EXCEPT ![n] = r] /\ Live(n) /\ state[n] = "ERROR"
    BY <1>5 DEF CancelDelivered, TasksTyped, TaskRecord, TaskPoint, Live, LivePoint, StopWins
  <2>2. state' = state /\ state \in [Node -> MessageState]
    BY <1>5 DEF CancelDelivered, TasksTyped
  <2> HIDE DEF r
  <2> QED BY <1>5, <2>1, <2>2, TaskMoves DEF CancelDelivered
<1>6. CASE Unwound(n)
  <2> DEFINE r == [task[n] EXCEPT !.at = "closing"]
  <2>1. r \in TaskRecord /\ task' = [task EXCEPT ![n] = r] /\ Live(n)
    BY <1>6 DEF Unwound, TasksTyped, TaskRecord, TaskPoint, Live, LivePoint
  <2>2. /\ state' \in [Node -> MessageState]
        /\ \A m \in Node \ {n} : state[m] = "ERROR" => state'[m] = "ERROR"
    BY <1>6, UpdatedTyped DEF Unwound, MessageState
  <2>3. state'[n] = "ERROR"
    BY <1>6 DEF Unwound, Updated, StopWins, TasksTyped
  <2> HIDE DEF r
  <2> QED BY <1>6, <2>1, <2>2, <2>3, TaskMoves DEF Unwound
<1> QED BY <1>1, <1>2, <1>3, <1>4, <1>5, <1>6

\* Every step keeps the tree owned by whoever is alive.
LEMMA TreeInvStep ==
  ASSUME TreeInv, StopsOnly, [TNext]_tvars
  PROVE  TreeInv'
<1>1. CASE UNCHANGED tvars
  BY <1>1 DEF tvars, TreeInv, TasksTyped, SlotOwned, StopWins, Live
<1>2. CASE \E n \in Node, p \in Node \cup {None} : Receive(n, p)
  BY <1>2 DEF Receive, TreeInv, TasksTyped, SlotOwned, StopWins, Live
<1>3. CASE \E n \in Node : Lose(n)
  BY <1>3 DEF Lose, TreeInv, TasksTyped, SlotOwned, StopWins, Live
<1>4. CASE \E n \in Node : StopNode(n)
  BY <1>4, StopNodeKeeps
<1>5. CASE \E n \in Node : Deliver(n)
  BY <1>5, DeliverKeeps
<1>6. CASE \E n \in Node : TaskStep(n)
  BY <1>6, EndingKeeps, RunningKeeps DEF TaskStep
<1>7. CASE (\E n \in Node : ClearBranch(n)) \/ StopAll \/ ClearAll
  BY <1>7 DEF StopsOnly, ClearBranch, StopAll, ClearAll
<1>8. CASE BranchRemoved \/ QueueReplaced
  <2>1. clearing = None
    BY DEF TreeInv, TasksTyped
  <2>2. None # "all"
    BY TreeAssumption
  <2> QED BY <1>8, <2>1, <2>2, TreeAssumption DEF BranchRemoved, QueueReplaced
<1> QED BY <1>1, <1>2, <1>3, <1>4, <1>5, <1>6, <1>7, <1>8 DEF TNext, UserStep, PlatformStep

\* Whoever is alive owns the tree, in every behaviour in which users stop single messages.
THEOREM TreeHasOneOwner ==
  ASSUME StopsOnly
  PROVE  TSpec => []TreeInv
<1>1. TInit => TreeInv
  BY TreeInvInit
<1>2. TreeInv /\ [TNext]_tvars => TreeInv'
  BY TreeInvStep
<1> QED BY <1>1, <1>2, PTL DEF TSpec

\* The queue of a conversation processes one message at a time (process_node,
\* enqueue_and_start), for any number of messages.
THEOREM ProcessesOneAtATime ==
  ASSUME StopsOnly
  PROVE  TSpec => []OneAtATime
<1>1. TreeInv => OneAtATime
  BY DEF TreeInv, SlotOwned, OneAtATime
<1> QED BY <1>1, TreeHasOneOwner, PTL

\* A message that was stopped (cancel_node) stays failed until its task has unwound,
\* whatever the CLI process still reports.
THEOREM StoppedStaysStopped ==
  ASSUME StopsOnly
  PROVE  TSpec => []StopWins
<1>1. TreeInv => StopWins
  BY DEF TreeInv
<1> QED BY <1>1, TreeHasOneOwner, PTL

-----------------------------------------------------------------------------
\* A queued message was delivered, has no task yet and is queued once.
QueueSound ==
  /\ \A i, j \in DOMAIN queue : queue[i] = queue[j] => i = j
  /\ \A i \in DOMAIN queue : task[queue[i]].at = "none" /\ message[queue[i]] = "delivered"

\* Only delivered messages are in the tree, have a task or own the tree; the task that
\* /stop would cancel is the one of the current node.
DeliveredOnly ==
  /\ \A n \in Node : n \in present \/ task[n].at # "none" => message[n] = "delivered"
  /\ current # None => message[current] = "delivered"
  /\ current \in present => currentTask = current

\* What the state of a node says about its task.
StateOfTask(n) ==
  /\ task[n].at = "none" => ~task[n].cancel
  /\ task[n].at \in {"none", "created"} => state[n] \in {"PENDING", "ERROR"}
  /\ state[n] = "COMPLETED" => task[n].at \in {"closing", "done"}
  /\ Registered(n) =>
       /\ task[n].at \in {"running", "unwinding", "closing"} => task[n].knows
       /\ state[n] = "PENDING" => (task[n].at = "created" /\ ~task[n].cancel) \/ (task[n].at = "none" /\ Queued(n))
       /\ state[n] = "IN_PROGRESS" => task[n].at \in {"running", "unwinding"} \/ ~task[n].captured

ForgetInv == TreeTypeOK /\ QueueSound /\ DeliveredOnly /\ BusyTreeHasTask /\ \A n \in Node : StateOfTask(n)

\* Replies wait behind the messages they reply to.
ReplyOrder ==
  /\ ~gone
  /\ \A n \in Node : message[n] = "delivered" => n \in present
  /\ \A n \in Node : parent[n] # None => parent[n] \in present /\ parent[n] # n
  /\ processing \/ DOMAIN queue = {}
  /\ \A i, j \in DOMAIN queue : parent[queue[i]] = queue[j] => j < i

-----------------------------------------------------------------------------
\* What is left of the queue: the nodes that are not taken out, in the same order.
LEMMA WithoutKeepsOrder ==
  ASSUME NEW S, queue \in Seq(Node)
  PROVE  /\ Without(S) \in Seq(Node)
         /\ \E f \in [DOMAIN Without(S) -> DOMAIN queue] :
              /\ \A k \in DOMAIN Without(S) : Without(S)[k] = queue[f[k]] /\ queue[f[k]] \notin S
              /\ \A k, l \in DOMAIN Without(S) : k < l => f[k] < f[l]
              /\ \A i \in DOMAIN queue : queue[i] \notin S => \E k \in DOMAIN Without(S) : f[k] = i
<1> DEFINE K == Kept(S)
           c == Cardinality(K)
           Upto(i) == {j \in K : j <= i}
           at == [i \in K |-> Cardinality(Upto(i))]
<1>1. K \subseteq 1 .. Len(queue) /\ DOMAIN queue = 1 .. Len(queue) /\ Len(queue) \in Nat
  BY DEF Kept
<1>2. IsFiniteSet(K) /\ c \in Nat
  <2>1. IsFiniteSet(1 .. Len(queue))
    BY <1>1, FS_Interval
  <2>2. IsFiniteSet(K)
    BY <1>1, <2>1, FS_Subset
  <2> QED BY <2>2, FS_CardinalityType
<1>3. \A i \in K : IsFiniteSet(Upto(i)) /\ Cardinality(Upto(i)) \in Nat /\ Cardinality(Upto(i)) <= c
  <2> SUFFICES ASSUME NEW i \in K
               PROVE  IsFiniteSet(Upto(i)) /\ Cardinality(Upto(i)) \in Nat /\ Cardinality(Upto(i)) <= c
    OBVIOUS
  <2>1. Upto(i) \in SUBSET K
    OBVIOUS
  <2>2. IsFiniteSet(Upto(i)) /\ Cardinality(Upto(i)) <= c
    BY <1>2, <2>1, FS_Subset
  <2> QED BY <2>2, FS_CardinalityType
<1>4. \A i \in K : Cardinality(Upto(i)) >= 1
  <2> SUFFICES ASSUME NEW i \in K PROVE Cardinality(Upto(i)) >= 1
    OBVIOUS
  <2>1. i \in Upto(i)
    BY <1>1
  <2>2. Cardinality(Upto(i)) # 0
    BY <1>3, <2>1, FS_EmptySet
  <2> QED BY <1>3, <2>2
<1>5. \A i, j \in K : i < j => Cardinality(Upto(i)) < Cardinality(Upto(j))
  <2> SUFFICES ASSUME NEW i \in K, NEW j \in K, i < j
               PROVE  Cardinality(Upto(i)) < Cardinality(Upto(j))
    OBVIOUS
  <2>1. Upto(i) \in SUBSET Upto(j) /\ j \in Upto(j) /\ j \notin Upto(i)
    BY <1>1
  <2>2. Cardinality(Upto(i)) <= Cardinality(Upto(j)) /\ Cardinality(Upto(j)) # Cardinality(Upto(i))
    BY <1>3, <2>1, FS_Subset
  <2>3. Cardinality(Upto(i)) \in Nat /\ Cardinality(Upto(j)) \in Nat
    BY <1>3
  <2> HIDE DEF Upto, K
  <2> QED BY <2>2, <2>3
<1>6. at \in Injection(K, 1 .. c)
  <2>1. at \in [K -> 1 .. c]
    <3>1. \A i \in K : Cardinality(Upto(i)) \in 1 .. c
      <4> HIDE DEF Upto, K, c
      <4> QED BY <1>2, <1>3, <1>4
    <3> QED BY <3>1
  <2>2. \A i, j \in K : at[i] = at[j] => i = j
    <3> SUFFICES ASSUME NEW i \in K, NEW j \in K, at[i] = at[j] PROVE i = j
      OBVIOUS
    <3>1. i \in Nat /\ j \in Nat
      BY <1>1
    <3>2. ~(i < j) /\ ~(j < i)
      <4>1. at[i] = Cardinality(Upto(i)) /\ at[j] = Cardinality(Upto(j))
        OBVIOUS
      <4>2. Cardinality(Upto(i)) \in Nat /\ Cardinality(Upto(j)) \in Nat
        BY <1>3
      <4>3. (i < j => Cardinality(Upto(i)) < Cardinality(Upto(j))) /\ (j < i => Cardinality(Upto(j)) < Cardinality(Upto(i)))
        BY <1>5
      <4>4. PICK x, y : x = Cardinality(Upto(i)) /\ y = Cardinality(Upto(j))
        OBVIOUS
      <4>5. x \in Nat /\ y \in Nat /\ x = y /\ (i < j => x < y) /\ (j < i => y < x)
        BY <4>1, <4>2, <4>3, <4>4
      <4> QED BY <4>5
    <3> QED BY <3>1, <3>2
  <2> QED BY <2>1, <2>2 DEF Injection, IsInjective
<1>7. at \in Surjection(K, 1 .. c)
  <2>1. IsFiniteSet(1 .. c) /\ Cardinality(1 .. c) = c
    BY <1>2, FS_Interval
  <2> QED BY <1>6, <2>1, FS_Injection
<1>8. \A k \in 1 .. c : \E i \in K : at[i] = k
  BY <1>7 DEF Surjection
<1> DEFINE f == [k \in 1 .. c |-> CHOOSE i \in K : at[i] = k]
<1>9. \A k \in 1 .. c : f[k] \in K /\ at[f[k]] = k
  BY <1>8
<1>10. Without(S) = [k \in 1 .. c |-> queue[f[k]]]
  <2>1. \A i \in K : KeptUpTo(S, i) = at[i]
    BY DEF KeptUpTo
  <2>2. \A k \in 1 .. c : (CHOOSE i \in K : KeptUpTo(S, i) = k) = f[k]
    BY <2>1
  <2>3. Without(S) = [k \in 1 .. c |-> queue[CHOOSE i \in K : KeptUpTo(S, i) = k]]
    BY DEF Without
  <2> HIDE DEF f, K, c
  <2> QED BY <2>2, <2>3
<1>11. \A k, l \in 1 .. c : k < l => f[k] < f[l]
  <2> SUFFICES ASSUME NEW k \in 1 .. c, NEW l \in 1 .. c, k < l, ~(f[k] < f[l]) PROVE FALSE
    OBVIOUS
  <2>1. f[k] \in K /\ f[l] \in K /\ at[f[k]] = k /\ at[f[l]] = l
    BY <1>9
  <2>2. f[k] \in Nat /\ f[l] \in Nat
    BY <1>1, <2>1
  <2>3. f[l] < f[k] => at[f[l]] < at[f[k]]
    BY <1>5, <2>1
  <2> HIDE DEF f, at, K, c
  <2>4. k \in Int /\ l \in Int
    OBVIOUS
  <2> QED BY <2>1, <2>2, <2>3, <2>4
<1>12. \A i \in K : \E k \in 1 .. c : f[k] = i
  <2> SUFFICES ASSUME NEW i \in K PROVE \E k \in 1 .. c : f[k] = i
    OBVIOUS
  <2>1. at[i] \in 1 .. c
    BY <1>6 DEF Injection
  <2>2. f[at[i]] \in K /\ at[f[at[i]]] = at[i]
    BY <1>9, <2>1
  <2>3. f[at[i]] = i
    BY <1>6, <2>2 DEF Injection, IsInjective
  <2> QED BY <2>1, <2>3
<1>13. \A i \in DOMAIN queue : i \in K <=> queue[i] \notin S
  BY DEF Kept
<1>14. f \in [1 .. c -> DOMAIN queue]
  BY <1>1, <1>9
<1> HIDE DEF at, f, K, c
<1>15. \A k \in 1 .. c : queue[f[k]] \in Node
  BY <1>1, <1>14
<1>16. Without(S) \in Seq(Node)
  BY <1>2, <1>10, <1>15
<1>17. DOMAIN Without(S) = 1 .. c /\ \A k \in 1 .. c : Without(S)[k] = queue[f[k]] /\ queue[f[k]] \notin S
  BY <1>9, <1>10, <1>13, <1>14
<1>18. \A i \in DOMAIN queue : queue[i] \notin S => \E k \in DOMAIN Without(S) : f[k] = i
  BY <1>12, <1>13, <1>17
<1>19. \A k, l \in DOMAIN Without(S) : k < l => f[k] < f[l]
  BY <1>11, <1>17
<1>20. f \in [DOMAIN Without(S) -> DOMAIN queue]
  BY <1>14, <1>17
<1> QED BY <1>16, <1>17, <1>18, <1>19, <1>20

\* What that means for who is queued.
LEMMA QueueLoses ==
  ASSUME NEW S, queue \in Seq(Node), queue' = Without(S),
         \A i, j \in DOMAIN queue : queue[i] = queue[j] => i = j
  PROVE  /\ queue' \in Seq(Node)
         /\ \A i, j \in DOMAIN queue' : queue'[i] = queue'[j] => i = j
         /\ \A i \in DOMAIN queue' : \E j \in DOMAIN queue : queue[j] = queue'[i]
         /\ \A n : Queued(n)' <=> Queued(n) /\ n \notin S
<1>1. queue' \in Seq(Node)
  BY WithoutKeepsOrder
<1>2. PICK f \in [DOMAIN queue' -> DOMAIN queue] :
              /\ \A k \in DOMAIN queue' : queue'[k] = queue[f[k]] /\ queue[f[k]] \notin S
              /\ \A k, l \in DOMAIN queue' : k < l => f[k] < f[l]
              /\ \A i \in DOMAIN queue : queue[i] \notin S => \E k \in DOMAIN queue' : f[k] = i
  BY WithoutKeepsOrder
<1>3. DOMAIN queue' \subseteq Nat /\ DOMAIN queue \subseteq Nat
  BY <1>1
<1>4. ASSUME NEW i \in DOMAIN queue', NEW j \in DOMAIN queue', queue'[i] = queue'[j]
      PROVE  i = j
  <2>1. f[i] = f[j] /\ f[i] \in Nat
    BY <1>2, <1>3, <1>4
  <2>2. ~(i < j) /\ ~(j < i)
    BY <1>2, <2>1
  <2> QED BY <1>3, <2>2
<1>5. \A n : Queued(n)' <=> Queued(n) /\ n \notin S
  BY <1>2 DEF Queued
<1> QED BY <1>1, <1>2, <1>4, <1>5

\* A node whose task does nothing: its state changes to ERROR at most, and it leaves the
\* queue only with that.
LEMMA OtherNode ==
  ASSUME NEW m \in Node, StateOfTask(m), task'[m] = task[m], state'[m] = state[m] \/ state'[m] = "ERROR",
         Registered(m)' => Registered(m),
         Registered(m)' /\ Queued(m) => Queued(m)' \/ state'[m] = "ERROR"
  PROVE  StateOfTask(m)'
  BY DEF StateOfTask

\* At the start nobody waits and nobody has a task.
LEMMA ForgetInvInit == ASSUME TInit PROVE ForgetInv
<1> USE TreeAssumption DEF TInit
<1>1. TreeTypeOK
  <2>1. NoTask \in TaskRecord
    BY DEF NoTask, TaskRecord, TaskPoint
  <2>2. task \in [Node -> TaskRecord]
    BY <2>1
  <2>3. << >> \in Seq(Node)
    OBVIOUS
  <2> HIDE DEF TaskRecord
  <2> QED BY <2>2, <2>3 DEF TreeTypeOK, TaskRecord, MessageState
<1>2. queue = << >> /\ DOMAIN queue = {} /\ present = {} /\ current = None /\ processing = FALSE
  OBVIOUS
<1>3. \A n \in Node : task[n].at = "none" /\ task[n].cancel = FALSE /\ state[n] = "PENDING"
  BY DEF NoTask
<1>4. QueueSound
  BY <1>2 DEF QueueSound
<1>5. DeliveredOnly
  BY <1>2, <1>3 DEF DeliveredOnly
<1>6. BusyTreeHasTask
  BY <1>2 DEF BusyTreeHasTask
<1>7. \A n \in Node : StateOfTask(n)
  BY <1>2, <1>3 DEF StateOfTask, Registered
<1> QED BY <1>1, <1>4, <1>5, <1>6, <1>7 DEF ForgetInv

\* handle_message up to the status message, and its failure, touch no task.
LEMMA MessageForgets ==
  ASSUME ForgetInv, (\E n \in Node, p \in Node \cup {None} : Receive(n, p)) \/ \E n \in Node : Lose(n)
  PROVE  ForgetInv'
<1>1. PICK n \in Node, s \in {"sending", "lost"} :
         /\ message' = [message EXCEPT ![n] = s] /\ message[n] # "delivered"
         /\ parent' \in [Node -> Node \cup {None}]
  <2>0. parent \in [Node -> Node \cup {None}]
    BY DEF ForgetInv, TreeTypeOK
  <2>1. CASE \E n \in Node, p \in Node \cup {None} : Receive(n, p)
    <3>1. PICK n \in Node, p \in Node \cup {None} : Receive(n, p)
      BY <2>1
    <3>2. parent' = [parent EXCEPT ![n] = p] /\ message' = [message EXCEPT ![n] = "sending"] /\ message[n] # "delivered"
      BY <3>1 DEF Receive
    <3> QED BY <2>0, <3>2
  <2>2. CASE \E n \in Node : Lose(n)
    BY <2>0, <2>2 DEF Lose
  <2> QED BY <2>1, <2>2
<1>2. /\ state' = state /\ present' = present /\ gone' = gone /\ queue' = queue /\ processing' = processing
      /\ current' = current /\ currentTask' = currentTask /\ task' = task /\ clearing' = clearing
  BY DEF Receive, Lose
<1>3. TreeTypeOK'
  BY <1>1, <1>2 DEF ForgetInv, TreeTypeOK
<1>4. \A m \in Node : message[m] = "delivered" => message'[m] = "delivered"
  BY <1>1 DEF ForgetInv, TreeTypeOK
<1>5. QueueSound'
  <2>1. \A i \in DOMAIN queue : queue[i] \in Node
    BY DEF ForgetInv, TreeTypeOK
  <2> QED BY <1>2, <1>4, <2>1 DEF ForgetInv, QueueSound
<1>6. DeliveredOnly'
  BY <1>2, <1>4 DEF ForgetInv, DeliveredOnly, TreeTypeOK
<1>7. BusyTreeHasTask'
  BY <1>2 DEF ForgetInv, BusyTreeHasTask
<1>8. \A m \in Node : StateOfTask(m)'
  BY <1>2 DEF ForgetInv, StateOfTask, Registered, Queued
<1> QED BY <1>3, <1>5, <1>6, <1>7, <1>8 DEF ForgetInv

\* A message that is delivered gets a task or a place in the queue.
LEMMA DeliverForgets ==
  ASSUME ForgetInv, NEW n \in Node, Deliver(n)
  PROVE  ForgetInv'
<1>1. /\ message[n] = "sending" /\ message' = [message EXCEPT ![n] = "delivered"] /\ present' = present \cup {n}
      /\ parent' = parent /\ state' = state /\ gone' = gone /\ clearing' = clearing
  BY DEF Deliver
<1>2. /\ n \notin present /\ task[n].at = "none" /\ ~task[n].cancel /\ state[n] \in {"PENDING", "ERROR"} /\ current # n
      /\ ~Queued(n)
  <2>1. \A i \in DOMAIN queue : message[queue[i]] = "delivered"
    BY DEF ForgetInv, QueueSound
  <2> QED BY <1>1, <2>1, TreeAssumption DEF ForgetInv, DeliveredOnly, StateOfTask, Queued
<1>3. message'[n] = "delivered" /\ \A m \in Node : message[m] = "delivered" => message'[m] = "delivered"
  BY <1>1 DEF ForgetInv, TreeTypeOK
<1>t. /\ message' \in [Node -> {"new", "sending", "delivered", "lost"}] /\ present' \subseteq Node
      /\ task \in [Node -> TaskRecord] /\ queue \in Seq(Node) /\ \A i \in DOMAIN queue : queue[i] \in Node
  BY <1>1 DEF ForgetInv, TreeTypeOK, TaskRecord
<1>4. CASE processing
  <2>1. /\ queue' = Append(queue, n) /\ processing' = processing /\ current' = current /\ currentTask' = currentTask
        /\ task' = task
    BY <1>4 DEF Deliver, Enqueued
  <2>2. /\ queue' \in Seq(Node) /\ DOMAIN queue' = 1 .. Len(queue) + 1 /\ DOMAIN queue = 1 .. Len(queue) /\ Len(queue) \in Nat
        /\ queue'[Len(queue) + 1] = n /\ \A i \in DOMAIN queue : queue'[i] = queue[i]
    BY <1>t, <2>1
  <2>3. TreeTypeOK'
    BY <1>1, <1>t, <2>1, <2>2 DEF ForgetInv, TreeTypeOK
  <2>4. QueueSound'
    <3>1. \A i \in DOMAIN queue : queue[i] # n
      BY <1>2 DEF Queued
    <3>2. \A i \in DOMAIN queue' : i \in DOMAIN queue \/ i = Len(queue) + 1
      BY <2>2
    <3>3. \A i, j \in DOMAIN queue' : queue'[i] = queue'[j] => i = j
      BY <2>2, <3>1, <3>2 DEF ForgetInv, QueueSound
    <3>4. \A i \in DOMAIN queue' : task'[queue'[i]].at = "none" /\ message'[queue'[i]] = "delivered"
      BY <1>2, <1>3, <1>t, <2>1, <2>2, <3>2 DEF ForgetInv, QueueSound
    <3> QED BY <3>3, <3>4 DEF QueueSound
  <2>5. DeliveredOnly'
    BY <1>1, <1>2, <1>3, <2>1 DEF ForgetInv, DeliveredOnly, TreeTypeOK
  <2>6. BusyTreeHasTask'
    BY <1>1, <1>2, <2>1 DEF ForgetInv, BusyTreeHasTask
  <2>7. Queued(n)' /\ \A m : Queued(m) => Queued(m)'
    BY <2>2 DEF Queued
  <2>8. StateOfTask(n)'
    BY <1>1, <1>2, <2>1, <2>7 DEF StateOfTask
  <2>9. \A m \in Node : StateOfTask(m)'
    <3> SUFFICES ASSUME NEW m \in Node, m # n PROVE StateOfTask(m)'
      BY <2>8
    <3>1. Registered(m)' => Registered(m)
      BY <1>1 DEF Registered
    <3>2. StateOfTask(m) /\ task'[m] = task[m] /\ state'[m] = state[m] /\ (Queued(m) => Queued(m)')
      BY <1>1, <2>1, <2>7 DEF ForgetInv
    <3> QED BY <3>1, <3>2, OtherNode
  <2> QED BY <2>3, <2>4, <2>5, <2>6, <2>9 DEF ForgetInv
<1>5. CASE ~processing
  <2>1. /\ processing' = TRUE /\ current' = n /\ currentTask' = n /\ task' = [task EXCEPT ![n].at = "created"]
        /\ queue' = queue
    BY <1>5 DEF Deliver
  <2>2. /\ task'[n].at = "created" /\ task'[n].cancel = task[n].cancel /\ task' \in [Node -> TaskRecord]
        /\ \A m \in Node : m # n => task'[m] = task[m]
    BY <1>t, <2>1 DEF TaskRecord, TaskPoint
  <2>3. TreeTypeOK'
    BY <1>1, <1>t, <2>1, <2>2, TreeAssumption DEF ForgetInv, TreeTypeOK, TaskRecord
  <2>4. QueueSound'
    <3>1. \A i \in DOMAIN queue : queue[i] # n
      BY <1>2 DEF Queued
    <3> QED BY <1>3, <1>t, <2>1, <2>2, <3>1 DEF ForgetInv, QueueSound
  <2>5. DeliveredOnly'
    BY <1>1, <1>3, <2>1, <2>2 DEF ForgetInv, DeliveredOnly
  <2>6. BusyTreeHasTask'
    BY <2>1, <2>2 DEF BusyTreeHasTask, LivePoint
  <2>8. StateOfTask(n)'
    BY <1>1, <1>2, <2>2 DEF StateOfTask
  <2>9. \A m \in Node : StateOfTask(m)'
    <3> SUFFICES ASSUME NEW m \in Node, m # n PROVE StateOfTask(m)'
      BY <2>8
    <3>1. Registered(m)' => Registered(m)
      BY <1>1 DEF Registered
    <3>2. StateOfTask(m) /\ task'[m] = task[m] /\ state'[m] = state[m] /\ (Queued(m) => Queued(m)')
      BY <1>1, <2>1, <2>2 DEF ForgetInv, Queued
    <3> QED BY <3>1, <3>2, OtherNode
  <2> QED BY <2>3, <2>4, <2>5, <2>6, <2>9 DEF ForgetInv
<1> QED BY <1>4, <1>5

\* The end of a task: it passes the tree on to the head of the queue, which has not been
\* processed, or leaves it free.
LEMMA ProcessNextForgets ==
  ASSUME ForgetInv, NEW n \in Node, Live(n), ProcessNext(n), message' = message, parent' = parent, present' = present,
         gone' = gone, clearing' = clearing, state' \in [Node -> MessageState],
         \A m \in Node \ {n} : state'[m] = state[m],
         Registered(n) => state'[n] # "PENDING" /\ (state'[n] = "IN_PROGRESS" => ~task[n].captured)
  PROVE  ForgetInv'
<1>t. /\ task \in [Node -> TaskRecord] /\ queue \in Seq(Node) /\ \A i \in DOMAIN queue : queue[i] \in Node
  BY DEF ForgetInv, TreeTypeOK, TaskRecord
<1>n. task[n].at # "none"
  BY DEF Live, LivePoint
<1>q. \A i \in DOMAIN queue : queue[i] # n
  BY <1>n DEF ForgetInv, QueueSound
<1>e. PICK ended \in [Node -> TaskRecord] :
        /\ ended = [task EXCEPT ![n].at = "done"] /\ ended[n].at = "done" /\ ended[n].captured = task[n].captured
        /\ \A m \in Node : m # n => ended[m] = task[m]
  <2>1. [task EXCEPT ![n].at = "done"] \in [Node -> TaskRecord]
    BY <1>t DEF TaskRecord, TaskPoint
  <2>2. /\ [task EXCEPT ![n].at = "done"][n].at = "done" /\ [task EXCEPT ![n].at = "done"][n].captured = task[n].captured
        /\ \A m \in Node : m # n => [task EXCEPT ![n].at = "done"][m] = task[m]
    BY <1>t DEF TaskRecord
  <2> QED BY <2>1, <2>2
<1>r. \A m : Registered(m)' <=> Registered(m)
  BY DEF Registered
<1>1. CASE queue = << >>
  <2>1. processing' = FALSE /\ current' = None /\ task' = ended /\ queue' = queue /\ currentTask' = currentTask
    BY <1>1, <1>e DEF ProcessNext
  <2>2. TreeTypeOK'
    BY <1>e, <2>1 DEF ForgetInv, TreeTypeOK, TaskRecord
  <2>3. QueueSound'
    BY <1>1, <2>1 DEF QueueSound
  <2>4. DeliveredOnly'
    BY <1>e, <1>n, <2>1, TreeAssumption DEF ForgetInv, DeliveredOnly, TreeTypeOK
  <2>5. BusyTreeHasTask'
    BY <2>1 DEF BusyTreeHasTask
  <2>6. StateOfTask(n)'
    BY <1>e, <1>r, <2>1 DEF StateOfTask
  <2>7. \A m \in Node : StateOfTask(m)'
    <3> SUFFICES ASSUME NEW m \in Node, m # n PROVE StateOfTask(m)'
      BY <2>6
    <3>1. StateOfTask(m) /\ task'[m] = task[m] /\ state'[m] = state[m] /\ (Queued(m) => Queued(m)')
      BY <1>e, <2>1 DEF ForgetInv, Queued
    <3> QED BY <1>r, <3>1, OtherNode
  <2> QED BY <2>2, <2>3, <2>4, <2>5, <2>7 DEF ForgetInv
<1>2. CASE queue # << >>
  <2>h. PICK h : h = Head(queue)
    OBVIOUS
  <2>1. /\ queue' = Tail(queue) /\ processing' = TRUE /\ current' = h
        /\ IF h \in present THEN currentTask' = h /\ task' = [ended EXCEPT ![h].at = "created"]
           ELSE task' = ended /\ currentTask' = currentTask
    BY <1>2, <1>e, <2>h DEF ProcessNext
  <2>2. /\ Len(queue) \in Nat /\ Len(queue) > 0 /\ DOMAIN queue = 1 .. Len(queue) /\ h = queue[1]
        /\ queue' \in Seq(Node) /\ DOMAIN queue' = 1 .. Len(queue) - 1
        /\ \A i \in DOMAIN queue' : queue'[i] = queue[i + 1]
    BY <1>t, <1>2, <2>h, <2>1
  <2>3. /\ h \in Node /\ h # n /\ task[h].at = "none" /\ message[h] = "delivered" /\ 1 \in DOMAIN queue
    BY <1>t, <1>q, <2>2 DEF ForgetInv, QueueSound
  <2>4. /\ \A i \in DOMAIN queue' : i + 1 \in DOMAIN queue /\ queue'[i] # h
        /\ \A m : Queued(m) /\ m # h => Queued(m)'
    <3>1. \A i \in DOMAIN queue' : i + 1 \in DOMAIN queue /\ i + 1 # 1
      BY <2>2
    <3>2. \A i \in DOMAIN queue' : queue'[i] # h
      BY <2>2, <2>3, <3>1 DEF ForgetInv, QueueSound
    <3>3. ASSUME NEW m, Queued(m), m # h PROVE Queued(m)'
      <4>1. PICK i \in DOMAIN queue : queue[i] = m
        BY <3>3 DEF Queued
      <4>2. i # 1 /\ i \in 1 .. Len(queue)
        BY <2>2, <3>3, <4>1
      <4>3. i - 1 \in DOMAIN queue' /\ queue'[i - 1] = m
        BY <2>2, <4>1, <4>2
      <4> QED BY <4>3 DEF Queued
    <3> QED BY <3>1, <3>2, <3>3
  <2>5. /\ task' \in [Node -> TaskRecord] /\ task'[n] = ended[n]
        /\ \A m \in Node : m # n /\ m # h => task'[m] = task[m]
        /\ h \in present => task'[h].at = "created" /\ task'[h].cancel = task[h].cancel
        /\ h \notin present => task'[h] = task[h]
    <3>1. CASE h \in present
      <4>1. /\ ended \in [Node -> TaskRecord] /\ (\A m \in Node : m # n => ended[m] = task[m])
            /\ task' = [ended EXCEPT ![h].at = "created"]
        BY <1>e, <2>1, <3>1
      <4>2. ended[h] \in TaskRecord /\ [ended[h] EXCEPT !.at = "created"] \in TaskRecord
        BY <2>3, <4>1 DEF TaskRecord, TaskPoint
      <4>3. task' \in [Node -> TaskRecord] /\ task'[h] = [ended[h] EXCEPT !.at = "created"]
        BY <2>3, <4>1, <4>2
      <4>4. \A m \in Node : m # h => task'[m] = ended[m]
        BY <4>1
      <4>5. task'[h].at = "created" /\ task'[h].cancel = ended[h].cancel
        BY <4>2, <4>3 DEF TaskRecord
      <4> QED BY <2>3, <3>1, <4>1, <4>3, <4>4, <4>5
    <3>2. CASE h \notin present
      BY <1>e, <2>1, <2>3, <3>2
    <3> QED BY <3>1, <3>2
  <2>6. TreeTypeOK'
    BY <2>1, <2>2, <2>3, <2>5, TreeAssumption DEF ForgetInv, TreeTypeOK, TaskRecord
  <2>7. QueueSound'
    <3>1. \A i, j \in DOMAIN queue' : queue'[i] = queue'[j] => i = j
      <4> SUFFICES ASSUME NEW i \in DOMAIN queue', NEW j \in DOMAIN queue', queue'[i] = queue'[j] PROVE i = j
        OBVIOUS
      <4>1. i + 1 = j + 1
        BY <2>2, <2>4 DEF ForgetInv, QueueSound
      <4> QED BY <2>2, <4>1
    <3>2. ASSUME NEW i \in DOMAIN queue' PROVE task'[queue'[i]].at = "none" /\ message'[queue'[i]] = "delivered"
      <4>1. PICK m \in Node : m = queue'[i] /\ m = queue[i + 1] /\ i + 1 \in DOMAIN queue /\ m # h
        BY <1>t, <2>2, <2>4
      <4>2. m # n /\ task[m].at = "none" /\ message[m] = "delivered"
        BY <1>q, <4>1 DEF ForgetInv, QueueSound
      <4> QED BY <2>5, <4>1, <4>2
    <3> QED BY <3>1, <3>2 DEF QueueSound
  <2>8. DeliveredOnly'
    <3>1. \A m \in Node : task'[m].at # "none" => task[m].at # "none" \/ m = h
      BY <1>n, <2>5
    <3> QED BY <2>1, <2>3, <3>1 DEF ForgetInv, DeliveredOnly
  <2>9. BusyTreeHasTask'
    BY <2>1, <2>5 DEF BusyTreeHasTask, LivePoint
  <2>10. StateOfTask(n)'
    BY <1>e, <1>r, <2>5 DEF StateOfTask
  <2>11. StateOfTask(h)'
    <3>1. StateOfTask(h) /\ state'[h] = state[h]
      BY <2>3 DEF ForgetInv
    <3>2. CASE h \in present
      BY <1>r, <2>3, <2>5, <3>1, <3>2 DEF StateOfTask
    <3>3. CASE h \notin present
      BY <1>r, <2>3, <2>5, <3>1, <3>3 DEF StateOfTask, Registered
    <3> QED BY <3>2, <3>3
  <2>12. \A m \in Node : StateOfTask(m)'
    <3> SUFFICES ASSUME NEW m \in Node, m # n, m # h PROVE StateOfTask(m)'
      BY <2>10, <2>11
    <3>1. StateOfTask(m) /\ task'[m] = task[m] /\ state'[m] = state[m] /\ (Queued(m) => Queued(m)')
      BY <2>4, <2>5 DEF ForgetInv
    <3> QED BY <1>r, <3>1, OtherNode
  <2> QED BY <2>6, <2>7, <2>8, <2>9, <2>12 DEF ForgetInv
<1> QED BY <1>1, <1>2

\* The steps that end a task.
LEMMA EndingForgets ==
  ASSUME ForgetInv, NEW n \in Node, TaskSkips(n) \/ SessionRefused(n) \/ Closed(n)
  PROVE  ForgetInv'
<1>1. /\ task[n].at \in {"created", "closing"} /\ ProcessNext(n)
      /\ message' = message /\ parent' = parent /\ present' = present /\ gone' = gone /\ clearing' = clearing
  BY DEF TaskSkips, SessionRefused, Closed
<1>2. Live(n)
  BY <1>1 DEF Live, LivePoint
<1>3. state \in [Node -> MessageState] /\ StateOfTask(n)
  BY DEF ForgetInv, TreeTypeOK
<1>4. CASE state' = state
  <2>1. Registered(n) => state[n] # "PENDING" /\ (state[n] = "IN_PROGRESS" => ~task[n].captured)
    <3>1. CASE TaskSkips(n)
      BY <3>1 DEF TaskSkips
    <3>2. CASE Closed(n)
      BY <1>3, <3>2 DEF Closed, StateOfTask
    <3>3. CASE SessionRefused(n)
      BY <1>3, <1>4, <3>3 DEF SessionRefused, MessageState
    <3> QED BY <3>1, <3>2, <3>3
  <2> QED BY <1>1, <1>2, <1>3, <1>4, <2>1, ProcessNextForgets
<1>5. CASE state' = [state EXCEPT ![n] = "ERROR"]
  <2>1. state' \in [Node -> MessageState] /\ state'[n] = "ERROR" /\ \A m \in Node \ {n} : state'[m] = state[m]
    BY <1>3, <1>5 DEF MessageState
  <2> QED BY <1>1, <1>2, <2>1, ProcessNextForgets
<1> QED BY <1>4, <1>5 DEF TaskSkips, SessionRefused, Closed

\* A task moves on; what it does to its own node agrees with where it then stands.
LEMMA MovesForget ==
  ASSUME ForgetInv, NEW n \in Node, Live(n), NEW r \in TaskRecord, task' = [task EXCEPT ![n] = r],
         r.at \in {"running", "unwinding", "closing", "dropped"},
         message' = message, parent' = parent, present' = present, gone' = gone, clearing' = clearing, queue' = queue,
         processing' = processing, current' = current, currentTask' = currentTask,
         state' \in [Node -> MessageState],
         \A m \in Node \ {n} : state'[m] = state[m] \/ state'[m] = "ERROR",
         state'[n] = "COMPLETED" => r.at = "closing",
         Registered(n) => /\ r.at # "dropped" => r.knows
                          /\ state'[n] # "PENDING"
                          /\ state'[n] = "IN_PROGRESS" => r.at \in {"running", "unwinding"} \/ ~r.captured
  PROVE  ForgetInv'
<1>t. /\ task \in [Node -> TaskRecord] /\ queue \in Seq(Node) /\ \A i \in DOMAIN queue : queue[i] \in Node
  BY DEF ForgetInv, TreeTypeOK, TaskRecord
<1>n. task[n].at # "none"
  BY DEF Live, LivePoint
<1>1. task' \in [Node -> TaskRecord] /\ task'[n] = r /\ \A m \in Node : m # n => task'[m] = task[m]
  BY <1>t
<1>2. TreeTypeOK'
  BY <1>1 DEF ForgetInv, TreeTypeOK, TaskRecord
<1>3. QueueSound'
  <2>1. \A i \in DOMAIN queue : queue[i] # n
    BY <1>n DEF ForgetInv, QueueSound
  <2> QED BY <1>1, <1>t, <2>1 DEF ForgetInv, QueueSound
<1>4. DeliveredOnly'
  BY <1>n, <1>1 DEF ForgetInv, DeliveredOnly
<1>5. BusyTreeHasTask'
  <2>1. current \in Node \cup {None} /\ (processing => current # None)
    BY DEF ForgetInv, TreeTypeOK
  <2> QED BY <1>1, <2>1 DEF ForgetInv, BusyTreeHasTask, LivePoint
<1>6. \A m : (Registered(m)' <=> Registered(m)) /\ (Queued(m)' <=> Queued(m))
  BY DEF Registered, Queued
<1>7. StateOfTask(n)'
  BY <1>1, <1>6 DEF StateOfTask
<1>8. \A m \in Node : StateOfTask(m)'
  <2> SUFFICES ASSUME NEW m \in Node, m # n PROVE StateOfTask(m)'
    BY <1>7
  <2>1. StateOfTask(m) /\ task'[m] = task[m] /\ (state'[m] = state[m] \/ state'[m] = "ERROR")
    BY <1>1 DEF ForgetInv
  <2> QED BY <1>6, <2>1, OtherNode
<1> QED BY <1>2, <1>3, <1>4, <1>5, <1>8 DEF ForgetInv

\* An error is passed on to waiting replies only.
LEMMA PropagatedWaits ==
  ASSUME NEW n \in Node, state \in [Node -> MessageState]
  PROVE  /\ Propagated(n) \in [Node -> MessageState]
         /\ \A m \in Node : Propagated(n)[m] = state[m] \/ Propagated(n)[m] = "ERROR"
         /\ \A m \in Node \ {n} : Propagated(n)[m] # state[m] => state[m] = "PENDING"
         /\ Registered(n) => Propagated(n)[n] = "ERROR"
<1>1. CASE ~Registered(n)
  BY <1>1 DEF Propagated
<1>2. CASE Registered(n)
  <2>1. \A m \in PendingBelow(n) : state[m] = "PENDING"
    <3> SUFFICES ASSUME NEW m \in PendingBelow(n) PROVE state[m] = "PENDING"
      OBVIOUS
    <3> DEFINE W == {n} \cup {c \in present : state[c] = "PENDING"}
    <3>1. W \in SUBSET present /\ n \in W /\ \A c \in present : parent[c] \in W /\ state[c] = "PENDING" => c \in W
      BY <1>2 DEF Registered
    <3>2. m \in W /\ m # n
      BY <3>1 DEF PendingBelow
    <3> QED BY <3>2
  <2>2. Propagated(n) = Failed({n} \cup PendingBelow(n))
    BY <1>2 DEF Propagated
  <2> QED BY <2>1, <2>2 DEF Failed, MessageState
<1> QED BY <1>1, <1>2

\* The steps of a task before its end.
LEMMA RunningForgets ==
  ASSUME ForgetInv, NEW n \in Node,
         \/ TaskStarts(n) \/ TaskDropped(n) \/ SessionInfo(n) \/ ErrorEvent(n) \/ ExitSuccess(n)
         \/ ExitFailure(n) \/ TaskFailed(n) \/ CancelDelivered(n) \/ Unwound(n)
  PROVE  ForgetInv'
<1>t. /\ task \in [Node -> TaskRecord] /\ state \in [Node -> MessageState] /\ StateOfTask(n)
  BY DEF ForgetInv, TreeTypeOK, TaskRecord
<1>r. Registered(n) <=> n \in present /\ ~gone
  BY DEF Registered
<1>1. CASE TaskStarts(n)
  <2>1. PICK c \in {FALSE, SharesSession(n)} :
          task' = [task EXCEPT ![n].at = "running", ![n].knows = Registered(n), ![n].captured = c]
    BY <1>1 DEF TaskStarts
  <2>2. c \in BOOLEAN /\ Registered(n) \in BOOLEAN
    BY <2>1 DEF SharesSession, Registered
  <2> DEFINE r == [task[n] EXCEPT !.at = "running", !.knows = Registered(n), !.captured = c]
  <2>3. r \in TaskRecord /\ r.knows = Registered(n) /\ r.at = "running"
    BY <1>t, <2>2 DEF TaskRecord, TaskPoint
  <2>4. task' = [task EXCEPT ![n] = r]
    BY <1>t, <2>1 DEF TaskRecord
  <2>5. /\ state' \in [Node -> MessageState] /\ (\A m \in Node \ {n} : state'[m] = state[m])
        /\ state'[n] # "COMPLETED" /\ (Registered(n) => state'[n] = "IN_PROGRESS")
    BY <1>1, <1>t DEF TaskStarts, MessageState, StateOfTask
  <2>6. Live(n)
    BY <1>1 DEF TaskStarts, Live, LivePoint
  <2> HIDE DEF r
  <2> QED BY <1>1, <2>3, <2>4, <2>5, <2>6, MovesForget DEF TaskStarts
<1>2. CASE TaskDropped(n)
  <2> DEFINE r == [task[n] EXCEPT !.at = "dropped"]
  <2>1. r \in TaskRecord /\ task' = [task EXCEPT ![n] = r] /\ Live(n) /\ r.at = "dropped"
    BY <1>2, <1>t DEF TaskDropped, TaskRecord, TaskPoint, Live, LivePoint
  <2>2. /\ state' = state /\ state[n] \notin {"COMPLETED", "IN_PROGRESS"} /\ (Registered(n) => state[n] # "PENDING")
    BY <1>2, <1>t DEF TaskDropped, StateOfTask
  <2>3. state' \in [Node -> MessageState] /\ \A m \in Node \ {n} : state'[m] = state[m]
    BY <1>t, <2>2
  <2>4. state'[n] # "COMPLETED" /\ state'[n] # "IN_PROGRESS" /\ (Registered(n) => state'[n] # "PENDING")
    BY <2>2
  <2>5. /\ message' = message /\ parent' = parent /\ present' = present /\ gone' = gone /\ clearing' = clearing
        /\ queue' = queue /\ processing' = processing /\ current' = current /\ currentTask' = currentTask
    BY <1>2 DEF TaskDropped
  <2> HIDE DEF r
  <2> QED BY <2>1, <2>3, <2>4, <2>5, MovesForget
<1>3. CASE SessionInfo(n)
  <2> DEFINE r == [task[n] EXCEPT !.captured = TRUE]
  <2>1. /\ r \in TaskRecord /\ task' = [task EXCEPT ![n] = r] /\ Live(n)
        /\ r.at = "running" /\ r.knows = task[n].knows
    BY <1>3, <1>t DEF SessionInfo, TaskRecord, TaskPoint, Live, LivePoint
  <2>2. /\ state' \in [Node -> MessageState] /\ (\A m \in Node \ {n} : state'[m] = state[m])
        /\ state'[n] \in {state[n], "IN_PROGRESS"}
    BY <1>3, <1>t DEF SessionInfo, Updated, MessageState
  <2>3. state[n] # "COMPLETED" /\ (Registered(n) => task[n].knows /\ state[n] # "PENDING")
    BY <1>3, <1>t DEF SessionInfo, StateOfTask
  <2>4. /\ message' = message /\ parent' = parent /\ present' = present /\ gone' = gone /\ clearing' = clearing
        /\ queue' = queue /\ processing' = processing /\ current' = current /\ currentTask' = currentTask
    BY <1>3 DEF SessionInfo
  <2>5. state'[n] # "COMPLETED" /\ (Registered(n) => r.knows /\ state'[n] # "PENDING")
    BY <2>1, <2>2, <2>3
  <2> HIDE DEF r
  <2> QED BY <2>1, <2>2, <2>4, <2>5, MovesForget
<1>4. CASE ErrorEvent(n) \/ ExitSuccess(n) \/ ExitFailure(n) \/ TaskFailed(n)
  <2>1. PICK p \in {"running", "closing"} : Resumed(n, p) /\ (ExitSuccess(n) \/ ExitFailure(n) => p = "closing")
    BY <1>4 DEF ErrorEvent, ExitSuccess, ExitFailure, TaskFailed
  <2> DEFINE r == [task[n] EXCEPT !.at = p]
  <2>2. /\ r \in TaskRecord /\ task' = [task EXCEPT ![n] = r] /\ Live(n) /\ task[n].at = "running"
        /\ r.at = p /\ r.knows = task[n].knows /\ r.captured = task[n].captured
    BY <1>t, <2>1 DEF Resumed, TaskRecord, TaskPoint, Live, LivePoint
  <2>3. state[n] # "COMPLETED" /\ (Registered(n) => task[n].knows /\ state[n] # "PENDING")
    BY <1>t, <2>2 DEF StateOfTask
  <2>p. PICK x : x = Propagated(n)
    OBVIOUS
  <2>q. /\ x \in [Node -> MessageState] /\ (\A m \in Node : x[m] = state[m] \/ x[m] = "ERROR")
        /\ (Registered(n) => x[n] = "ERROR")
    BY <1>t, <2>p, PropagatedWaits
  <2>4. /\ state' \in [Node -> MessageState] /\ (\A m \in Node \ {n} : state'[m] = state[m] \/ state'[m] = "ERROR")
        /\ state'[n] = "COMPLETED" => p = "closing"
        /\ Registered(n) => state'[n] # "PENDING" /\ (state'[n] = "IN_PROGRESS" => p = "running" \/ ~task[n].captured)
    <3>1. CASE ExitSuccess(n)
      <4>1. state' = IF task[n].captured THEN Updated(n, "COMPLETED") ELSE state
        BY <3>1 DEF ExitSuccess
      <4>2. p = "closing"
        BY <2>1, <3>1
      <4> QED BY <1>r, <1>t, <2>3, <4>1, <4>2 DEF Updated, MessageState
    <3>2. CASE ErrorEvent(n) \/ TaskFailed(n)
      <4>1. state' = IF task[n].knows THEN x ELSE state
        BY <2>p, <3>2 DEF ErrorEvent, TaskFailed
      <4> QED BY <1>t, <2>3, <2>q, <4>1 DEF MessageState
    <3>3. CASE ExitFailure(n)
      <4>1. state' = IF ~task[n].knows THEN state
                     ELSE IF task[n].captured /\ n \in present THEN [x EXCEPT ![n] = "COMPLETED"] ELSE x
        BY <2>p, <3>3 DEF ExitFailure
      <4>2. p = "closing"
        BY <2>1, <3>3
      <4> QED BY <1>t, <2>3, <2>q, <4>1, <4>2 DEF MessageState
    <3> QED BY <1>4, <3>1, <3>2, <3>3
  <2>5. /\ message' = message /\ parent' = parent /\ present' = present /\ gone' = gone /\ clearing' = clearing
        /\ queue' = queue /\ processing' = processing /\ current' = current /\ currentTask' = currentTask
    BY <2>1 DEF Resumed
  <2> HIDE DEF r
  <2> QED BY <2>2, <2>3, <2>4, <2>5, MovesForget
<1>5. CASE CancelDelivered(n)
  <2> DEFINE r == [task[n] EXCEPT !.at = "unwinding", !.cancel = FALSE]
  <2>1. /\ r \in TaskRecord /\ task' = [task EXCEPT ![n] = r] /\ Live(n) /\ r.at = "unwinding" /\ r.knows = task[n].knows
    BY <1>5, <1>t DEF CancelDelivered, TaskRecord, TaskPoint, Live, LivePoint
  <2>2. /\ state' = state /\ state[n] # "COMPLETED" /\ (Registered(n) => task[n].knows /\ state[n] # "PENDING")
    BY <1>5, <1>t DEF CancelDelivered, StateOfTask
  <2>3. /\ state' \in [Node -> MessageState] /\ (\A m \in Node \ {n} : state'[m] = state[m])
        /\ state'[n] # "COMPLETED" /\ (Registered(n) => task[n].knows /\ state'[n] # "PENDING")
    BY <1>t, <2>2
  <2> HIDE DEF r
  <2> QED BY <1>5, <2>1, <2>3, MovesForget DEF CancelDelivered
<1>6. CASE Unwound(n)
  <2> DEFINE r == [task[n] EXCEPT !.at = "closing"]
  <2>1. r \in TaskRecord /\ task' = [task EXCEPT ![n] = r] /\ Live(n) /\ r.at = "closing" /\ r.knows = task[n].knows
    BY <1>6, <1>t DEF Unwound, TaskRecord, TaskPoint, Live, LivePoint
  <2>2. Registered(n) => task[n].knows
    BY <1>6, <1>t DEF Unwound, StateOfTask
  <2>3. /\ state' \in [Node -> MessageState] /\ (\A m \in Node \ {n} : state'[m] = state[m])
        /\ Registered(n) => state'[n] = "ERROR"
    BY <1>6, <1>r, <1>t, <2>2 DEF Unwound, Updated, MessageState
  <2> HIDE DEF r
  <2> QED BY <1>6, <2>1, <2>2, <2>3, MovesForget DEF Unwound
<1> QED BY <1>1, <1>2, <1>3, <1>4, <1>5, <1>6


\* Task.cancel sets a mark at most, and only on a task that has steps to take.
LEMMA CancelledTask ==
  ASSUME NEW c \in Node, task \in [Node -> TaskRecord]
  PROVE  /\ Cancelled(c) \in [Node -> TaskRecord]
         /\ \A m \in Node : /\ Cancelled(c)[m].at = task[m].at /\ Cancelled(c)[m].knows = task[m].knows
                            /\ Cancelled(c)[m].captured = task[m].captured
                            /\ m # c \/ task[m].at = "none" => Cancelled(c)[m].cancel = task[m].cancel
<1>1. CASE task[c].at \in {"created", "running"}
  <2>1. Cancelled(c) = [task EXCEPT ![c].cancel = TRUE]
    BY <1>1 DEF Cancelled
  <2>2. task[c] \in TaskRecord
    OBVIOUS
  <2>3. [task[c] EXCEPT !.cancel = TRUE] \in TaskRecord
    BY <2>2 DEF TaskRecord
  <2>4. /\ [task[c] EXCEPT !.cancel = TRUE].at = task[c].at /\ [task[c] EXCEPT !.cancel = TRUE].knows = task[c].knows
        /\ [task[c] EXCEPT !.cancel = TRUE].captured = task[c].captured
    BY <2>2 DEF TaskRecord
  <2>5. Cancelled(c)[c] = [task[c] EXCEPT !.cancel = TRUE] /\ \A m \in Node : m # c => Cancelled(c)[m] = task[m]
    BY <2>1
  <2>6. Cancelled(c) \in [Node -> TaskRecord]
    BY <2>1, <2>3
  <2> QED BY <1>1, <2>4, <2>5, <2>6
<1>2. CASE task[c].at \notin {"created", "running"}
  BY <1>2 DEF Cancelled
<1> QED BY <1>1, <1>2

\* What the commands have in common: they cancel, they mark nodes as failed, and a node
\* that they leave waiting keeps what it waits for.
CommandEffect ==
  /\ message' = message /\ parent' = parent /\ currentTask' = currentTask
  /\ present' \subseteq present /\ gone' \in BOOLEAN /\ (gone => gone')
  /\ clearing' \in Node \cup {None, "all"}
  /\ (processing' = processing /\ current' = current) \/ (processing' = FALSE /\ current' = None)
  /\ task' \in [Node -> TaskRecord]
  /\ \A m \in Node : /\ task'[m].at = task[m].at /\ task'[m].knows = task[m].knows
                     /\ task'[m].captured = task[m].captured
                     /\ task[m].at = "none" => task'[m].cancel = task[m].cancel
  /\ state' \in [Node -> MessageState]
  /\ \A m \in Node : state'[m] = state[m] \/ (state'[m] = "ERROR" /\ state[m] # "COMPLETED")
  /\ queue' \in Seq(Node)
  /\ \A i, j \in DOMAIN queue' : queue'[i] = queue'[j] => i = j
  /\ \A i \in DOMAIN queue' : \E j \in DOMAIN queue : queue[j] = queue'[i]
  /\ \A m \in Node : Registered(m)' /\ state'[m] = "PENDING" =>
                       task'[m].cancel = task[m].cancel /\ (Queued(m) => Queued(m)')

\* Such a step forgets nobody.
LEMMA CommandForgets == ASSUME ForgetInv, CommandEffect PROVE ForgetInv'
<1>1. TreeTypeOK'
  <2>1. /\ message' = message /\ parent' = parent /\ currentTask' = currentTask
        /\ present' \subseteq present /\ gone' \in BOOLEAN /\ clearing' \in Node \cup {None, "all"}
        /\ (processing' = processing /\ current' = current) \/ (processing' = FALSE /\ current' = None)
        /\ task' \in [Node -> TaskRecord] /\ state' \in [Node -> MessageState] /\ queue' \in Seq(Node)
    BY DEF CommandEffect
  <2>2. TreeTypeOK
    BY DEF ForgetInv
  <2>3. processing' \in BOOLEAN /\ current' \in Node \cup {None} /\ (processing' <=> current' # None)
    <3>1. processing \in BOOLEAN /\ current \in Node \cup {None} /\ (processing <=> current # None)
      BY <2>2 DEF TreeTypeOK
    <3>2. CASE processing' = processing /\ current' = current
      BY <3>1, <3>2, Zenon
    <3>3. CASE processing' = FALSE /\ current' = None
      BY <3>3, Zenon
    <3> QED BY <2>1, <3>2, <3>3
  <2> QED BY <2>1, <2>2, <2>3 DEF TreeTypeOK, TaskRecord
<1>2. QueueSound'
  <2>1. \A i \in DOMAIN queue : queue[i] \in Node
    BY DEF ForgetInv, TreeTypeOK
  <2> QED BY <2>1 DEF ForgetInv, CommandEffect, QueueSound
<1>3. DeliveredOnly'
  BY TreeAssumption DEF ForgetInv, CommandEffect, TreeTypeOK, DeliveredOnly
<1>4. BusyTreeHasTask'
  BY DEF ForgetInv, CommandEffect, TreeTypeOK, BusyTreeHasTask
<1>5. ASSUME NEW m \in Node PROVE StateOfTask(m)'
  <2>1. StateOfTask(m)
    BY DEF ForgetInv
  <2>2. Registered(m)' => Registered(m)
    BY DEF CommandEffect, Registered
  <2>3. /\ task'[m].at = task[m].at /\ task'[m].knows = task[m].knows
        /\ task'[m].captured = task[m].captured
        /\ (task[m].at = "none" => task'[m].cancel = task[m].cancel)
        /\ state'[m] = state[m] \/ state'[m] = "ERROR"
        /\ (Registered(m)' /\ state'[m] = "PENDING" =>
              task'[m].cancel = task[m].cancel /\ (Queued(m) => Queued(m)'))
    BY DEF CommandEffect
  <2> QED BY <2>1, <2>2, <2>3 DEF StateOfTask
<1> QED BY <1>1, <1>2, <1>3, <1>4, <1>5 DEF ForgetInv

\* The commands that stop single nodes: only open nodes are stopped, and only the task of
\* the current node is cancelled.
LEMMA StopEffect ==
  ASSUME ForgetInv, NEW S \in SUBSET present, NEW Q \in SUBSET S, \A m \in S : ~Settled(m),
         task' = IF current \in S /\ currentTask # None THEN Cancelled(currentTask) ELSE task,
         queue' = Without(Q), state' = Failed(S), clearing' \in Node \cup {None, "all"},
         message' = message, parent' = parent, present' = present, gone' = gone, processing' = processing,
         current' = current, currentTask' = currentTask
  PROVE  CommandEffect
<1>t. /\ task \in [Node -> TaskRecord] /\ state \in [Node -> MessageState] /\ queue \in Seq(Node)
      /\ currentTask \in Node \cup {None} /\ gone \in BOOLEAN /\ present \subseteq Node
      /\ \A i, j \in DOMAIN queue : queue[i] = queue[j] => i = j
  BY DEF ForgetInv, TreeTypeOK, TaskRecord, QueueSound
<1>1. /\ task' \in [Node -> TaskRecord]
      /\ \A m \in Node : /\ task'[m].at = task[m].at /\ task'[m].knows = task[m].knows
                         /\ task'[m].captured = task[m].captured
                         /\ task[m].at = "none" \/ m \notin S => task'[m].cancel = task[m].cancel
  <2>1. CASE current \in S /\ currentTask # None
    <3>1. PICK c \in Node : c = currentTask /\ c \in S /\ task' = Cancelled(c)
      BY <1>t, <2>1 DEF ForgetInv, DeliveredOnly
    <3>2. \A m \in Node : m \notin S => m # c
      BY <3>1
    <3>3. /\ Cancelled(c) \in [Node -> TaskRecord]
          /\ \A m \in Node : /\ Cancelled(c)[m].at = task[m].at /\ Cancelled(c)[m].knows = task[m].knows
                             /\ Cancelled(c)[m].captured = task[m].captured
                             /\ m # c \/ task[m].at = "none" => Cancelled(c)[m].cancel = task[m].cancel
      BY <1>t, CancelledTask
    <3> QED BY <3>1, <3>2, <3>3
  <2>2. CASE ~(current \in S /\ currentTask # None)
    BY <1>t, <2>2
  <2> QED BY <2>1, <2>2
<1>2. /\ queue' \in Seq(Node) /\ (\A i, j \in DOMAIN queue' : queue'[i] = queue'[j] => i = j)
      /\ (\A i \in DOMAIN queue' : \E j \in DOMAIN queue : queue[j] = queue'[i])
      /\ \A n : Queued(n)' <=> Queued(n) /\ n \notin Q
  BY <1>t, QueueLoses
<1>3. /\ state' \in [Node -> MessageState] /\ (\A m \in S : state'[m] = "ERROR" /\ state[m] # "COMPLETED")
      /\ \A m \in Node \ S : state'[m] = state[m]
  BY <1>t DEF Failed, MessageState, Settled
<1> QED BY <1>t, <1>1, <1>2, <1>3 DEF CommandEffect

\* cancel_tree leaves nobody waiting.
LEMMA CancelTreeEffect ==
  ASSUME ForgetInv, CancelTree, present' = present, gone' \in BOOLEAN, gone => gone', clearing' \in Node \cup {None, "all"},
         message' = message, parent' = parent, currentTask' = currentTask
  PROVE  CommandEffect
<1>t. /\ task \in [Node -> TaskRecord] /\ state \in [Node -> MessageState] /\ queue \in Seq(Node)
      /\ currentTask \in Node \cup {None} /\ present \subseteq Node
  BY DEF ForgetInv, TreeTypeOK, TaskRecord
<1>1. /\ task' \in [Node -> TaskRecord]
      /\ \A m \in Node : /\ task'[m].at = task[m].at /\ task'[m].knows = task[m].knows
                         /\ task'[m].captured = task[m].captured
                         /\ task[m].at = "none" => task'[m].cancel = task[m].cancel
  <2>1. CASE currentTask # None
    <3>1. currentTask \in Node /\ task' = Cancelled(currentTask)
      BY <1>t, <2>1 DEF CancelTree
    <3> QED BY <1>t, <3>1, CancelledTask
  <2>2. CASE currentTask = None
    BY <1>t, <2>2 DEF CancelTree
  <2> QED BY <2>1, <2>2
<1>2. /\ queue' = << >> /\ processing' = FALSE /\ current' = None
  BY DEF CancelTree
<1>3. queue' \in Seq(Node) /\ DOMAIN queue' = {}
  BY <1>2
<1>4. ASSUME NEW m \in Node, Queued(m) PROVE state[m] # "COMPLETED"
  <2>1. task[m].at = "none" /\ StateOfTask(m)
    BY <1>4 DEF Queued, ForgetInv, QueueSound
  <2> QED BY <2>1 DEF StateOfTask
<1>5. /\ state' \in [Node -> MessageState]
      /\ \A m \in Node : state'[m] = state[m] \/ (state'[m] = "ERROR" /\ state[m] # "COMPLETED")
      /\ \A m \in present : state'[m] # "PENDING"
  <2>1. state' = Failed({n \in present : ~Settled(n) \/ Queued(n)})
    BY DEF CancelTree
  <2>2. \A m \in Node : m \in present /\ (~Settled(m) \/ Queued(m)) => state[m] # "COMPLETED"
    BY <1>4 DEF Settled
  <2> QED BY <1>t, <2>1, <2>2 DEF Failed, MessageState, Settled
<1> QED BY <1>1, <1>2, <1>3, <1>5 DEF CommandEffect, Registered

\* Every command, and what follows it, has that effect.
LEMMA CommandsHaveEffect ==
  ASSUME ForgetInv,
         \/ \E n \in Node : StopNode(n) \/ ClearBranch(n)
         \/ StopAll \/ ClearAll \/ BranchRemoved \/ QueueReplaced \/ UNCHANGED tvars
  PROVE  CommandEffect
<1>t. /\ task \in [Node -> TaskRecord] /\ state \in [Node -> MessageState] /\ queue \in Seq(Node)
      /\ clearing \in Node \cup {None, "all"} /\ gone \in BOOLEAN /\ present \subseteq Node
      /\ \A i, j \in DOMAIN queue : queue[i] = queue[j] => i = j
  BY DEF ForgetInv, TreeTypeOK, TaskRecord, QueueSound
<1>1. ASSUME NEW n \in Node, StopNode(n) PROVE CommandEffect
  <2>1. PICK S : S = {n}
    OBVIOUS
  <2>2. S \in SUBSET present /\ (\A m \in S : ~Settled(m)) /\ S \in SUBSET S
    BY <1>1, <2>1 DEF StopNode, Registered
  <2>3. /\ task' = IF current \in S /\ currentTask # None THEN Cancelled(currentTask) ELSE task
        /\ queue' = Without(S) /\ state' = Failed(S) /\ clearing' \in Node \cup {None, "all"}
    BY <1>1, <1>t, <2>1 DEF StopNode
  <2> QED BY <1>1, <2>2, <2>3, StopEffect DEF StopNode
<1>2. ASSUME NEW b \in Node, ClearBranch(b) PROVE CommandEffect
  <2>1. PICK S : S = {n \in Subtree(b) : ~Settled(n)}
    OBVIOUS
  <2>2. S \in SUBSET present /\ (\A m \in S : ~Settled(m)) /\ S \ {current} \in SUBSET S
    BY <2>1 DEF Subtree
  <2>3. /\ task' = IF current \in S /\ currentTask # None THEN Cancelled(currentTask) ELSE task
        /\ queue' = Without(S \ {current}) /\ state' = Failed(S) /\ clearing' \in Node \cup {None, "all"}
    BY <1>2, <2>1 DEF ClearBranch
  <2> QED BY <1>2, <2>2, <2>3, StopEffect DEF ClearBranch
<1>3. CASE StopAll
  BY <1>3, <1>t, CancelTreeEffect DEF StopAll
<1>4. CASE ClearAll
  BY <1>4, <1>t, CancelTreeEffect DEF ClearAll
<1>5. CASE BranchRemoved /\ Registered(clearing) /\ clearing = root
  <2>1. CancelTree /\ gone' = TRUE /\ present' = present /\ clearing' = None
    BY <1>5 DEF BranchRemoved
  <2> QED BY <1>5, <2>1, CancelTreeEffect DEF BranchRemoved
<1>6. CASE \/ BranchRemoved /\ ~(Registered(clearing) /\ clearing = root)
           \/ QueueReplaced \/ UNCHANGED tvars
  <2>1. /\ message' = message /\ parent' = parent /\ currentTask' = currentTask /\ queue' = queue
        /\ processing' = processing /\ current' = current /\ task' = task /\ state' = state
        /\ present' \subseteq present /\ (gone' = gone \/ gone' = TRUE) /\ (clearing' = clearing \/ clearing' = None)
    BY <1>6 DEF BranchRemoved, QueueReplaced, tvars
  <2>2. \A m : Queued(m)' <=> Queued(m)
    BY <2>1 DEF Queued
  <2>3. /\ queue' \in Seq(Node) /\ (\A i, j \in DOMAIN queue' : queue'[i] = queue'[j] => i = j)
        /\ \A i \in DOMAIN queue' : \E j \in DOMAIN queue : queue[j] = queue'[i]
    BY <1>t, <2>1
  <2>g. gone' \in BOOLEAN /\ (gone => gone')
    <3>1. gone \in BOOLEAN
      BY <1>t
    <3>2. CASE gone' = gone
      BY <3>1, <3>2, Zenon
    <3>3. CASE gone' = TRUE
      BY <3>3, Zenon
    <3> QED BY <2>1, <3>2, <3>3
  <2>4. /\ clearing' \in Node \cup {None, "all"}
        /\ task' \in [Node -> TaskRecord] /\ state' \in [Node -> MessageState]
    BY <1>t, <2>1
  <2> QED BY <2>1, <2>2, <2>3, <2>4, <2>g DEF CommandEffect
<1> QED BY <1>1, <1>2, <1>3, <1>4, <1>5, <1>6

\* No step of the conversation forgets anybody.
LEMMA ForgetInvStep == ASSUME ForgetInv, [TNext]_tvars PROVE ForgetInv'
<1>1. CASE (\E n \in Node, p \in Node \cup {None} : Receive(n, p)) \/ \E n \in Node : Lose(n)
  BY <1>1, MessageForgets
<1>2. CASE \/ \E n \in Node : StopNode(n) \/ ClearBranch(n)
           \/ StopAll \/ ClearAll \/ BranchRemoved \/ QueueReplaced \/ UNCHANGED tvars
  BY <1>2, CommandsHaveEffect, CommandForgets
<1>3. CASE \E n \in Node : Deliver(n)
  BY <1>3, DeliverForgets
<1>4. ASSUME NEW n \in Node, TaskStep(n) PROVE ForgetInv'
  BY <1>4, EndingForgets, RunningForgets DEF TaskStep
<1> QED BY <1>1, <1>2, <1>3, <1>4 DEF TNext, UserStep, PlatformStep

\* The tasks, the queue and the states of the nodes agree in every behaviour, whatever
\* commands are given (queue_manager.py, data.py).
THEOREM ForgetAlways == TSpec => []ForgetInv
<1>1. TInit => ForgetInv
  BY ForgetInvInit
<1>2. ForgetInv /\ [TNext]_tvars => ForgetInv'
  BY ForgetInvStep
<1> QED BY <1>1, <1>2, PTL DEF TSpec

\* For any number of messages and any commands: a waiting node has a task or a place in the
\* queue; a busy tree has a task that will pass it on, unless that task was cancelled before
\* its first step or its node was removed before it was dequeued, after which nobody does;
\* a node in progress has a process, unless that ended without having told its session id
\* (enqueue_and_start, _process_next, cancel_node, cancel_tree, cancel_branch).
THEOREM NothingForgottenAlways == TSpec => []NothingForgotten
<1>1. ForgetInv => NothingForgotten
  <2> SUFFICES ASSUME ForgetInv PROVE NothingForgotten
    OBVIOUS
  <2>1. PendingWillRun
    BY DEF ForgetInv, StateOfTask, PendingWillRun, Registered, TreeTypeOK
  <2>2. InProgressIsProcessed
    BY DEF ForgetInv, StateOfTask, InProgressIsProcessed, Live, LivePoint
  <2> QED BY <2>1, <2>2 DEF ForgetInv, NothingForgotten
<1> QED BY <1>1, ForgetAlways, PTL

\* A task is created for a node that never had one, and no step undoes a completed node.
LEMMA UndoneStep ==
  ASSUME ForgetInv, [TNext]_tvars, NEW m \in Node
  PROVE  /\ task[m].at # "none" => task'[m].at # "created" \/ task[m].at = "created"
         /\ state[m] = "COMPLETED" => state'[m] = "COMPLETED"
<1> DEFINE Undisturbed == /\ task[m].at # "none" => task'[m].at # "created" \/ task[m].at = "created"
                          /\ state[m] = "COMPLETED" => state'[m] = "COMPLETED"
<1>t. /\ task \in [Node -> TaskRecord] /\ state \in [Node -> MessageState] /\ queue \in Seq(Node)
      /\ StateOfTask(m)
  BY DEF ForgetInv, TreeTypeOK, TaskRecord
<1>1. CASE (\E n \in Node, p \in Node \cup {None} : Receive(n, p)) \/ \E n \in Node : Lose(n)
  <2>1. task' = task /\ state' = state
    BY <1>1 DEF Receive, Lose
  <2> QED BY <2>1
<1>2. CASE \/ \E n \in Node : StopNode(n) \/ ClearBranch(n)
           \/ StopAll \/ ClearAll \/ BranchRemoved \/ QueueReplaced \/ UNCHANGED tvars
  <2>1. CommandEffect
    BY <1>2, CommandsHaveEffect
  <2> QED BY <2>1 DEF CommandEffect
<1>3. ASSUME NEW n \in Node, Deliver(n) PROVE Undisturbed
  <2>1. state' = state /\ (task' = task \/ task' = [task EXCEPT ![n].at = "created"]) /\ message[n] = "sending"
    BY <1>3 DEF Deliver
  <2>2. task[n].at = "none"
    BY <2>1 DEF ForgetInv, DeliveredOnly
  <2>3. m # n => task'[m] = task[m]
    BY <1>t, <2>1
  <2> QED BY <2>1, <2>2, <2>3
<1>4. ASSUME NEW n \in Node, TaskSkips(n) \/ SessionRefused(n) \/ Closed(n) PROVE Undisturbed
  <2>1. ProcessNext(n) /\ (state' = state \/ (task[n].at = "created" /\ state' = [state EXCEPT ![n] = "ERROR"]))
    BY <1>4 DEF TaskSkips, SessionRefused, Closed
  <2>2. state[m] = "COMPLETED" => state'[m] = "COMPLETED"
    BY <1>t, <2>1 DEF StateOfTask
  <2>3. PICK ended : ended = [task EXCEPT ![n].at = "done"]
    OBVIOUS
  <2>4. ended \in [Node -> TaskRecord] /\ ended[n].at = "done" /\ \A k \in Node : k # n => ended[k] = task[k]
    BY <1>t, <2>3 DEF TaskRecord, TaskPoint
  <2>5. task' = ended \/ (queue # << >> /\ task' = [ended EXCEPT ![Head(queue)].at = "created"])
    BY <2>1, <2>3 DEF ProcessNext
  <2>6. queue # << >> => Head(queue) \in Node /\ task[Head(queue)].at = "none"
    BY <1>t DEF ForgetInv, QueueSound
  <2>7. task[m].at # "none" => task'[m] = ended[m]
    BY <2>4, <2>5, <2>6
  <2> QED BY <2>2, <2>4, <2>7
<1>5. ASSUME NEW n \in Node, m # n,
             \/ TaskStarts(n) \/ TaskDropped(n) \/ SessionInfo(n) \/ ErrorEvent(n) \/ ExitSuccess(n)
             \/ ExitFailure(n) \/ TaskFailed(n) \/ CancelDelivered(n) \/ Unwound(n)
      PROVE Undisturbed
  <2>1. task'[m] = task[m]
    BY <1>5, <1>t DEF TaskStarts, TaskDropped, SessionInfo, ErrorEvent, ExitSuccess, ExitFailure, TaskFailed, Resumed,
         CancelDelivered, Unwound
  <2>2. PICK x \in [Node -> MessageState] : x = Propagated(n) /\ (x[m] # state[m] => state[m] = "PENDING")
    BY <1>5, <1>t, PropagatedWaits
  <2>3. \/ state'[m] = state[m] \/ state'[m] = x[m]
    BY <1>5, <1>t, <2>2 DEF TaskStarts, TaskDropped, SessionInfo, ErrorEvent, ExitSuccess, ExitFailure, TaskFailed, Updated,
         CancelDelivered, Unwound
  <2> QED BY <2>1, <2>2, <2>3
<1>6. CASE \/ TaskStarts(m) \/ TaskDropped(m) \/ SessionInfo(m) \/ ErrorEvent(m) \/ ExitSuccess(m)
           \/ ExitFailure(m) \/ TaskFailed(m) \/ CancelDelivered(m) \/ Unwound(m)
  <2>1. /\ task[m].at \in {"created", "running", "unwinding"} /\ task'[m].at # "created"
    BY <1>6, <1>t DEF TaskStarts, TaskDropped, SessionInfo, ErrorEvent, ExitSuccess, ExitFailure, TaskFailed, Resumed,
         CancelDelivered, Unwound, TaskRecord
  <2> QED BY <1>t, <2>1 DEF StateOfTask
<1> QED BY <1>1, <1>2, <1>3, <1>4, <1>5, <1>6 DEF TNext, UserStep, PlatformStep, TaskStep

\* A message is processed at most once, and no command, error or late event undoes a
\* completed one, for any number of messages and any commands.
THEOREM NothingUndoneAlways == TSpec => NothingUndone
<1>1. ForgetInv /\ [TNext]_tvars =>
        [\A n \in Node : /\ task[n].at # "none" => task'[n].at # "created" \/ task[n].at = "created"
                         /\ state[n] = "COMPLETED" => state'[n] = "COMPLETED"]_tvars
  BY UndoneStep
<1> QED BY <1>1, ForgetAlways, PTL DEF TSpec, NothingUndone

\* Where users stop single messages only, replies are served after what they reply to.
OrderInv == ForgetInv /\ TreeInv /\ ReplyOrder /\ ParentFirst

\* Steps that start no task, deliver nothing and keep the order of the queue.
LEMMA OrderKept ==
  ASSUME OrderInv, message' = message, parent' = parent, present' = present, gone' = gone, processing' = processing,
         \A m \in Node : (task'[m].at # "none" => task[m].at # "none") /\ (Live(m)' => Live(m)),
         queue' \in Seq(Node),
         NEW f \in [DOMAIN queue' -> DOMAIN queue], \A k \in DOMAIN queue' : queue'[k] = queue[f[k]],
         \A k, l \in DOMAIN queue' : k < l => f[k] < f[l]
  PROVE  ReplyOrder' /\ ParentFirst'
<1>t. /\ queue \in Seq(Node) /\ DOMAIN queue \subseteq Nat /\ DOMAIN queue' \subseteq Nat
      /\ parent \in [Node -> Node \cup {None}]
  BY DEF OrderInv, ForgetInv, TreeTypeOK
<1>1. ASSUME NEW i \in DOMAIN queue', NEW j \in DOMAIN queue', parent'[queue'[i]] = queue'[j]
      PROVE  j < i
  <2>1. f[j] < f[i] /\ f[j] \in Nat /\ f[i] \in Nat
    BY <1>1, <1>t DEF OrderInv, ReplyOrder
  <2>2. ~(i < j) /\ i # j
    BY <2>1
  <2> QED BY <1>t, <2>2
<1>2. ReplyOrder'
  <2>1. processing' \/ DOMAIN queue' = {}
    BY DEF OrderInv, ReplyOrder
  <2> QED BY <1>1, <2>1 DEF OrderInv, ReplyOrder
<1>3. \A m : Queued(m)' => Queued(m)
  BY DEF Queued
<1>4. ParentFirst'
  BY <1>t, <1>3 DEF OrderInv, ParentFirst
<1> QED BY <1>2, <1>4

\* ... among them everything that a task does before its end, and a stop.
LEMMA OrderSame ==
  ASSUME OrderInv, message' = message, parent' = parent, present' = present, gone' = gone, processing' = processing,
         \A m \in Node : (task'[m].at # "none" => task[m].at # "none") /\ (Live(m)' => Live(m)),
         queue' = queue
  PROVE  ReplyOrder' /\ ParentFirst'
<1>1. PICK f : f = [k \in DOMAIN queue |-> k]
  OBVIOUS
<1>2. f \in [DOMAIN queue' -> DOMAIN queue] /\ queue' \in Seq(Node)
  BY <1>1 DEF OrderInv, ForgetInv, TreeTypeOK
<1>3. /\ \A k \in DOMAIN queue' : queue'[k] = queue[f[k]]
      /\ \A k, l \in DOMAIN queue' : k < l => f[k] < f[l]
  BY <1>1
<1> QED BY <1>2, <1>3, OrderKept

\* A message is received: it is in no queue and nobody replies to it yet.
LEMMA ReceiveKeepsOrder ==
  ASSUME OrderInv, NEW n \in Node, NEW p \in Node \cup {None}, Receive(n, p)
  PROVE  ReplyOrder' /\ ParentFirst'
<1>1. /\ message[n] = "new" /\ message' = [message EXCEPT ![n] = "sending"] /\ parent' = [parent EXCEPT ![n] = p]
      /\ present' = present /\ gone' = gone /\ queue' = queue /\ processing' = processing /\ task' = task
      /\ p # None => p \in present
  BY DEF Receive, Registered
<1>2. n \notin present /\ task[n].at = "none" /\ (\A i \in DOMAIN queue : queue[i] # n /\ queue[i] \in Node)
  BY <1>1 DEF OrderInv, ForgetInv, DeliveredOnly, QueueSound, TreeTypeOK
<1>3. /\ parent'[n] = p /\ (\A m \in Node : m # n => parent'[m] = parent[m])
      /\ \A m \in Node : message'[m] = "delivered" => message[m] = "delivered"
  BY <1>1 DEF OrderInv, ForgetInv, TreeTypeOK
<1>4. ReplyOrder'
  BY <1>1, <1>2, <1>3 DEF OrderInv, ReplyOrder
<1>5. ParentFirst'
  <2>1. \A m : (Queued(m)' <=> Queued(m)) /\ (Live(m)' <=> Live(m))
    BY <1>1 DEF Queued, Live
  <2> QED BY <1>1, <1>2, <1>3, <2>1 DEF OrderInv, ParentFirst
<1> QED BY <1>4, <1>5

\* A message that is not delivered.
LEMMA LoseKeepsOrder ==
  ASSUME OrderInv, NEW n \in Node, Lose(n)
  PROVE  ReplyOrder' /\ ParentFirst'
<1>1. /\ message' = [message EXCEPT ![n] = "lost"] /\ parent' = parent
      /\ present' = present /\ gone' = gone /\ queue' = queue /\ processing' = processing /\ task' = task
  BY DEF Lose
<1>2. \A m \in Node : message'[m] = "delivered" => message[m] = "delivered"
  BY <1>1 DEF OrderInv, ForgetInv, TreeTypeOK
<1>3. ReplyOrder'
  BY <1>1, <1>2 DEF OrderInv, ReplyOrder
<1>4. ParentFirst'
  BY <1>1 DEF OrderInv, ParentFirst, Live, Queued
<1> QED BY <1>3, <1>4

\* A message that is delivered has no replies; it is queued last, or nobody is alive.
LEMMA DeliverKeepsOrder ==
  ASSUME OrderInv, NEW n \in Node, Deliver(n)
  PROVE  ReplyOrder' /\ ParentFirst'
<1>1. /\ message[n] = "sending" /\ message' = [message EXCEPT ![n] = "delivered"] /\ present' = present \cup {n}
      /\ parent' = parent /\ gone' = gone
  BY DEF Deliver
<1>2. n \notin present /\ task[n].at = "none"
  BY <1>1 DEF OrderInv, ForgetInv, DeliveredOnly
<1>3. /\ \A m \in Node : parent[m] # None => parent[m] # n /\ parent[m] # m /\ parent[m] \in present /\ parent[m] \in Node
      /\ \A m \in Node : message'[m] = "delivered" => message[m] = "delivered" \/ m = n
  BY <1>1, <1>2 DEF OrderInv, ReplyOrder, ForgetInv, TreeTypeOK
<1>t. /\ task \in [Node -> TaskRecord] /\ queue \in Seq(Node) /\ \A i \in DOMAIN queue : queue[i] \in Node
  BY DEF OrderInv, ForgetInv, TreeTypeOK, TaskRecord
<1>4. ~gone' /\ (\A m \in Node : message'[m] = "delivered" => m \in present')
      /\ \A m \in Node : parent'[m] # None => parent'[m] \in present' /\ parent'[m] # m
  BY <1>1, <1>3 DEF OrderInv, ReplyOrder
<1>5. CASE processing
  <2>1. queue' = Append(queue, n) /\ processing' = processing /\ task' = task
    BY <1>5 DEF Deliver, Enqueued
  <2>2. /\ DOMAIN queue' = 1 .. Len(queue) + 1 /\ DOMAIN queue = 1 .. Len(queue) /\ Len(queue) \in Nat
        /\ queue'[Len(queue) + 1] = n /\ \A i \in DOMAIN queue : queue'[i] = queue[i]
    BY <1>t, <2>1
  <2>3. \A i \in DOMAIN queue' : i \in DOMAIN queue \/ i = Len(queue) + 1
    BY <2>2
  <2>4. ASSUME NEW i \in DOMAIN queue', NEW j \in DOMAIN queue', parent'[queue'[i]] = queue'[j] PROVE j < i
    <3>1. queue'[i] \in Node /\ queue'[j] \in Node
      BY <1>t, <2>2, <2>3
    <3>2. j \in DOMAIN queue
      BY <1>1, <1>3, <2>2, <2>3, <2>4, <3>1, TreeAssumption
    <3>3. CASE i \in DOMAIN queue
      BY <1>1, <2>2, <2>4, <3>2, <3>3 DEF OrderInv, ReplyOrder
    <3>4. CASE i = Len(queue) + 1
      BY <2>2, <3>2, <3>4
    <3> QED BY <2>3, <3>3, <3>4
  <2>5. ReplyOrder'
    BY <1>4, <1>5, <2>1, <2>4 DEF ReplyOrder
  <2>6. \A m : Queued(m)' => Queued(m) \/ m = n
    BY <2>2, <2>3 DEF Queued
  <2>7. ParentFirst'
    BY <1>1, <1>3, <2>1, <2>6 DEF OrderInv, ParentFirst, Live
  <2> QED BY <2>5, <2>7
<1>6. CASE ~processing
  <2>1. queue' = queue /\ processing' = TRUE /\ task' = [task EXCEPT ![n].at = "created"]
    BY <1>6 DEF Deliver
  <2>2. DOMAIN queue' = {}
    BY <1>6, <2>1 DEF OrderInv, ReplyOrder
  <2>3. ReplyOrder'
    BY <1>4, <2>2 DEF ReplyOrder
  <2>4. \A m \in Node : m # n => ~Live(m)'
    <3>1. \A m \in Node : m # n => task'[m] = task[m]
      BY <1>t, <2>1
    <3> QED BY <1>6, <3>1 DEF OrderInv, TreeInv, SlotOwned, Live
  <2>5. ParentFirst'
    BY <1>1, <1>3, <2>2, <2>4 DEF ParentFirst, Queued
  <2> QED BY <2>3, <2>5
<1> QED BY <1>5, <1>6

\* The end of a task: the head of the queue replies to nobody who still waits.
LEMMA ProcessNextKeepsOrder ==
  ASSUME OrderInv, NEW n \in Node, Live(n), ProcessNext(n), message' = message, parent' = parent, present' = present,
         gone' = gone
  PROVE  ReplyOrder' /\ ParentFirst'
<1>t. /\ task \in [Node -> TaskRecord] /\ queue \in Seq(Node) /\ (\A i \in DOMAIN queue : queue[i] \in Node)
      /\ \A m \in Node : parent[m] # None => parent[m] \in Node /\ parent[m] # m
  BY DEF OrderInv, ForgetInv, TreeTypeOK, TaskRecord, ReplyOrder
<1>n. task[n].at # "none" /\ \A m \in Node : m # n => ~Live(m)
  BY DEF OrderInv, TreeInv, SlotOwned, Live, LivePoint
<1>e. PICK ended : ended = [task EXCEPT ![n].at = "done"]
  OBVIOUS
<1>f. ended \in [Node -> TaskRecord] /\ ended[n].at = "done" /\ \A m \in Node : m # n => ended[m] = task[m]
  BY <1>t, <1>e DEF TaskRecord, TaskPoint
<1>1. CASE queue = << >>
  <2>1. processing' = FALSE /\ task' = ended /\ queue' = << >>
    BY <1>1, <1>e DEF ProcessNext
  <2>2. DOMAIN queue' = {}
    BY <2>1
  <2>3. ReplyOrder'
    BY <2>2 DEF OrderInv, ReplyOrder
  <2>4. \A m \in Node : ~Live(m)'
    BY <1>n, <1>f, <2>1 DEF Live, LivePoint
  <2>5. ParentFirst'
    BY <1>t, <2>2, <2>4 DEF ParentFirst, Queued
  <2> QED BY <2>3, <2>5
<1>2. CASE queue # << >>
  <2>h. PICK h : h = Head(queue)
    OBVIOUS
  <2>1. /\ queue' = Tail(queue) /\ processing' = TRUE
        /\ task' = ended \/ task' = [ended EXCEPT ![h].at = "created"]
    BY <1>2, <1>e, <2>h DEF ProcessNext
  <2>2. /\ Len(queue) \in Nat /\ Len(queue) > 0 /\ DOMAIN queue = 1 .. Len(queue) /\ h = queue[1]
        /\ DOMAIN queue' = 1 .. Len(queue) - 1
        /\ \A i \in DOMAIN queue' : queue'[i] = queue[i + 1]
    BY <1>t, <1>2, <2>h, <2>1
  <2>3. h \in Node /\ h # n /\ 1 \in DOMAIN queue
    BY <1>n, <1>t, <2>2 DEF OrderInv, ForgetInv, QueueSound
  <2>4. \A i \in DOMAIN queue' : i + 1 \in DOMAIN queue /\ i + 1 > 1
    BY <2>2
  <2>5. ASSUME NEW i \in DOMAIN queue', NEW j \in DOMAIN queue', parent'[queue'[i]] = queue'[j] PROVE j < i
    <3>1. j + 1 < i + 1
      BY <2>2, <2>4, <2>5 DEF OrderInv, ReplyOrder
    <3> QED BY <2>2, <3>1
  <2>6. ReplyOrder'
    BY <2>1, <2>5 DEF OrderInv, ReplyOrder
  <2>7. \A m : Queued(m)' => Queued(m) /\ parent[h] # m
    <3>1. ASSUME NEW i \in DOMAIN queue' PROVE Queued(queue'[i]) /\ parent[h] # queue'[i]
      <4>1. ~(i + 1 < 1)
        BY <2>2
      <4> QED BY <2>2, <2>3, <2>4, <4>1 DEF OrderInv, ReplyOrder, Queued
    <3> QED BY <3>1 DEF Queued
  <2>8. /\ task'[n].at = "done" /\ \A m \in Node : m # n /\ m # h => task'[m] = task[m]
    BY <1>f, <2>1, <2>3
  <2>9. Queued(h)
    BY <2>2, <2>3 DEF Queued
  <2>10. \A m \in Node : m # h => ~Live(m)'
    BY <1>n, <2>8 DEF Live, LivePoint
  <2>11. ParentFirst'
    <3> SUFFICES ASSUME NEW k \in Node, task'[k].at # "none", parent[k] # None
                 PROVE  ~Live(parent[k])' /\ ~Queued(parent[k])'
      BY <1>t DEF ParentFirst
    <3>1. CASE k = h
      BY <1>t, <2>7, <2>10, <3>1
    <3>2. CASE k # h
      <4>1. task[k].at # "none"
        BY <1>n, <2>8, <3>2
      <4>2. ~Queued(parent[k])
        BY <4>1 DEF OrderInv, ParentFirst
      <4>3. parent[k] # h
        BY <2>9, <4>2
      <4> QED BY <1>t, <2>7, <2>10, <4>2, <4>3
    <3> QED BY <3>1, <3>2
  <2> QED BY <2>6, <2>11
<1> QED BY <1>1, <1>2

\* No step breaks that order.
LEMMA OrderInvStep == ASSUME StopsOnly, OrderInv, [TNext]_tvars PROVE OrderInv'
<1>1. ForgetInv' /\ TreeInv'
  BY ForgetInvStep, TreeInvStep DEF OrderInv
<1>t. /\ task \in [Node -> TaskRecord] /\ queue \in Seq(Node) /\ currentTask \in Node \cup {None}
      /\ clearing = None
  BY DEF OrderInv, ForgetInv, TreeInv, TasksTyped, TreeTypeOK, TaskRecord
<1>2. ASSUME NEW n \in Node, TaskSkips(n) \/ SessionRefused(n) \/ Closed(n) PROVE ReplyOrder' /\ ParentFirst'
  <2>1. /\ Live(n) /\ ProcessNext(n) /\ message' = message /\ parent' = parent /\ present' = present /\ gone' = gone
    BY <1>2 DEF TaskSkips, SessionRefused, Closed, Live, LivePoint
  <2> QED BY <2>1, ProcessNextKeepsOrder
<1>3. ASSUME NEW n \in Node,
             \/ TaskStarts(n) \/ TaskDropped(n) \/ SessionInfo(n) \/ ErrorEvent(n) \/ ExitSuccess(n)
             \/ ExitFailure(n) \/ TaskFailed(n) \/ CancelDelivered(n) \/ Unwound(n)
      PROVE ReplyOrder' /\ ParentFirst'
  <2>1. /\ message' = message /\ parent' = parent /\ present' = present /\ gone' = gone /\ processing' = processing
        /\ queue' = queue
    BY <1>3 DEF TaskStarts, TaskDropped, SessionInfo, ErrorEvent, ExitSuccess, ExitFailure, TaskFailed, Resumed,
         CancelDelivered, Unwound
  <2>2. task[n].at \in LivePoint /\ \A m \in Node : m # n => task'[m] = task[m]
    BY <1>3, <1>t DEF TaskStarts, TaskDropped, SessionInfo, ErrorEvent, ExitSuccess, ExitFailure, TaskFailed, Resumed,
         CancelDelivered, Unwound, LivePoint
  <2>3. \A m \in Node : (task'[m].at # "none" => task[m].at # "none") /\ (Live(m)' => Live(m))
    BY <2>2 DEF Live, LivePoint
  <2> QED BY <2>1, <2>3, OrderSame
<1>4. ASSUME NEW n \in Node, StopNode(n) PROVE ReplyOrder' /\ ParentFirst'
  <2>1. /\ message' = message /\ parent' = parent /\ present' = present /\ gone' = gone /\ processing' = processing
        /\ queue' = Without({n})
    BY <1>4 DEF StopNode
  <2>2. CommandEffect
    BY <1>4, CommandsHaveEffect DEF OrderInv
  <2>3. \A m \in Node : (task'[m].at # "none" => task[m].at # "none") /\ (Live(m)' => Live(m))
    BY <2>2 DEF CommandEffect, Live
  <2>s. PICK S : S = {n}
    OBVIOUS
  <2>q. queue' = Without(S)
    BY <2>1, <2>s
  <2>4. PICK f \in [DOMAIN queue' -> DOMAIN queue] :
          /\ \A k \in DOMAIN queue' : queue'[k] = queue[f[k]] /\ queue[f[k]] \notin S
          /\ \A k, l \in DOMAIN queue' : k < l => f[k] < f[l]
    <3>1. queue \in Seq(Node)
      BY <1>t
    <3>2. \E f \in [DOMAIN Without(S) -> DOMAIN queue] :
            /\ \A k \in DOMAIN Without(S) : Without(S)[k] = queue[f[k]] /\ queue[f[k]] \notin S
            /\ \A k, l \in DOMAIN Without(S) : k < l => f[k] < f[l]
      BY <3>1, WithoutKeepsOrder
    <3> QED BY <2>q, <3>2
  <2>5. queue' \in Seq(Node)
    BY <2>2 DEF CommandEffect
  <2> QED BY <2>1, <2>3, <2>4, <2>5, OrderKept
<1>5. ASSUME UNCHANGED tvars PROVE ReplyOrder' /\ ParentFirst'
  <2>1. /\ message' = message /\ parent' = parent /\ present' = present /\ gone' = gone /\ processing' = processing
        /\ queue' = queue
    BY <1>5 DEF tvars
  <2>2. \A m \in Node : (task'[m].at # "none" => task[m].at # "none") /\ (Live(m)' => Live(m))
    <3>1. task' = task
      BY <1>5 DEF tvars
    <3> QED BY <3>1 DEF Live
  <2> QED BY <2>1, <2>2, OrderSame
<1>6. ~StopAll /\ ~ClearAll /\ ~BranchRemoved /\ ~QueueReplaced /\ \A n \in Node : ~ClearBranch(n)
  BY <1>t, TreeAssumption DEF StopsOnly, StopAll, ClearAll, BranchRemoved, QueueReplaced, ClearBranch
<1>7. ReplyOrder' /\ ParentFirst'
  <2>1. CASE \E n \in Node : TaskStep(n)
    BY <1>2, <1>3, <2>1 DEF TaskStep
  <2>2. CASE \E n \in Node : Lose(n) \/ StopNode(n) \/ Deliver(n)
    BY <1>4, <2>2, LoseKeepsOrder, DeliverKeepsOrder
  <2>3. CASE \E n \in Node, p \in Node \cup {None} : Receive(n, p)
    BY <2>3, ReceiveKeepsOrder
  <2>4. CASE TNext
    <3>1. \/ \E n \in Node : TaskStep(n)
          \/ \E n \in Node : Lose(n) \/ StopNode(n) \/ Deliver(n)
          \/ \E n \in Node, p \in Node \cup {None} : Receive(n, p)
      BY <1>6, <2>4 DEF TNext, UserStep, PlatformStep
    <3> QED BY <2>1, <2>2, <2>3, <3>1
  <2> QED BY <1>5, <2>4
<1> QED BY <1>1, <1>7 DEF OrderInv

\* A reply is processed only after the message it replies to (put_queue_unlocked,
\* _process_next), for any number of messages, where users stop single messages.
THEOREM RepliesAfterParents ==
  ASSUME StopsOnly
  PROVE  TSpec => []ParentFirst
<1>1. TInit => OrderInv
  <2> SUFFICES ASSUME TInit PROVE OrderInv
    OBVIOUS
  <2>1. ForgetInv /\ TreeInv
    BY ForgetInvInit, TreeInvInit
  <2>2. DOMAIN queue = {} /\ gone = FALSE /\ \A n \in Node : message[n] = "new" /\ parent[n] = None
    BY DEF TInit
  <2>3. ReplyOrder
    BY <2>2 DEF ReplyOrder
  <2>4. ParentFirst
    BY <2>2 DEF ParentFirst
  <2> QED BY <2>1, <2>3, <2>4 DEF OrderInv
<1>2. OrderInv /\ [TNext]_tvars => OrderInv'
  BY OrderInvStep
<1>3. OrderInv => ParentFirst
  BY DEF OrderInv
<1> QED BY <1>1, <1>2, <1>3, PTL DEF TSpec

=============================================================================
