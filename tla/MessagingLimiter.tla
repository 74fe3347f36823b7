-------------------------- MODULE MessagingLimiter --------------------------
(***************************************************************************)
(* MessagingRateLimiter (messaging/limiter.py): edits and messages wait in *)
(* a queue of keys; a newer edit of the same message takes the place of    *)
(* the queued one, and both callers get the result.  One worker sends.     *)
(* Callers submit in the order of their numbers, which is the age of what  *)
(* they send; a fire_and_forget caller tries again after a transient error.*)
(***************************************************************************)
EXTENDS Naturals, Sequences, SequencesExt

CONSTANTS Callers,      \* 1..n, in the order they submit
          KeyOf,        \* Callers -> dedup key
          Forgetful,    \* callers that use fire_and_forget
          MaxTries

ASSUME LimiterBounds ==
    MaxTries \in Nat \ {0} /\ Callers \subseteq Nat \ {0} /\ Forgetful \subseteq Callers

VARIABLES lQueue, lTasks, lWorker, lPaused, lCaller, lShown

lVars == <<lQueue, lTasks, lWorker, lPaused, lCaller, lShown>>

Keys == {KeyOf[c] : c \in Callers}
NoTask == [what |-> 0, futures |-> {}]

LInit ==
    /\ lQueue = <<>> /\ lTasks = [k \in Keys |-> NoTask]
    /\ lWorker = [pc |-> "idle", key |-> 0, task |-> NoTask]
    /\ lPaused = FALSE
    /\ lCaller = [c \in Callers |-> [pc |-> "new", tries |-> 0]]
    /\ lShown = [k \in Keys |-> 0]

\* _queue_map has the keys of _queue_list; a task has at least one future.
Queued(k) == lTasks[k].futures # {}

MutantKept(task, c) == [what |-> IF task.futures = {} THEN c ELSE task.what, futures |-> task.futures \cup {c}]

MutantCompacted(task, c) == [what |-> c, futures |-> {c}]

\* The newer function, everybody's futures.
Compacted(task, c) == [what |-> c, futures |-> task.futures \cup {c}]

\* _enqueue_internal_multi
Enqueued1(c) ==
    LET k == KeyOf[c]
    IN  /\ lTasks' = [lTasks EXCEPT ![k] = Compacted(@, c)]
        /\ lQueue' = IF Queued(k) THEN lQueue ELSE Append(lQueue, k)
        /\ lCaller' = [lCaller EXCEPT ![c] = [pc |-> "waiting", tries |-> @.tries + 1]]
        /\ UNCHANGED <<lWorker, lPaused, lShown>>

Submit(c) ==
    /\ lCaller[c].pc = "new" /\ \A d \in Callers : d < c => lCaller[d].pc # "new"
    /\ Enqueued1(c)

\* fire_and_forget: the same function is enqueued again, whatever came after.
Retry(c) == lCaller[c].pc = "backoff" /\ Enqueued1(c)

\* A caller that awaits the result itself may be cancelled; its future is done.
CallerLeaves(c) ==
    /\ lCaller[c].pc = "waiting" /\ c \notin Forgetful
    /\ lCaller' = [lCaller EXCEPT ![c].pc = "cancelled"]
    /\ UNCHANGED <<lQueue, lTasks, lWorker, lPaused, lShown>>

WorkerTakes ==
    LET k == Head(lQueue)
    IN  /\ lWorker.pc = "idle" /\ lQueue # <<>>
        /\ lWorker' = [pc |-> "taken", key |-> k, task |-> lTasks[k]]
        /\ lQueue' = Tail(lQueue) /\ lTasks' = [lTasks EXCEPT ![k] = NoTask]
        /\ UNCHANGED <<lPaused, lCaller, lShown>>

\* The pause is looked at once, and then the window is waited for.
WorkerSends ==
    /\ lWorker.pc = "taken" /\ ~lPaused
    /\ lWorker' = [lWorker EXCEPT !.pc = "sending"]
    /\ UNCHANGED <<lQueue, lTasks, lPaused, lCaller, lShown>>

PauseEnds == lPaused /\ lPaused' = FALSE /\ UNCHANGED <<lQueue, lTasks, lWorker, lCaller, lShown>>

Unanswered(c, task) == c \in task.futures /\ lCaller[c].pc = "waiting"

SendSucceeds ==
    LET t == lWorker.task
    IN  /\ lWorker.pc = "sending"
        /\ lShown' = [lShown EXCEPT ![lWorker.key] = t.what]
        /\ lCaller' = [c \in Callers |-> IF Unanswered(c, t) THEN [lCaller[c] EXCEPT !.pc = "done"] ELSE lCaller[c]]
        /\ lWorker' = [lWorker EXCEPT !.pc = "idle"]
        /\ UNCHANGED <<lQueue, lTasks, lPaused>>

\* Every future gets the exception.  "flood" pauses the worker; "connect"
\* is tried again by those that asked for it, up to MaxTries times.
SendFails(error) ==
    LET t == lWorker.task
        Again(c) == error = "connect" /\ c \in Forgetful /\ lCaller[c].tries < MaxTries
    IN  /\ lWorker.pc = "sending"
        /\ lPaused' = (lPaused \/ error = "flood")
        /\ lCaller' = [c \in Callers |->
                          IF Unanswered(c, t) THEN [lCaller[c] EXCEPT !.pc = IF Again(c) THEN "backoff" ELSE "failed"]
                          ELSE lCaller[c]]
        /\ lWorker' = [lWorker EXCEPT !.pc = "idle"]
        /\ UNCHANGED <<lQueue, lTasks, lShown>>

\* The worker is cancelled where it is; nobody answers the futures that are left.
Shutdown ==
    /\ lWorker.pc # "stopped"
    /\ lWorker' = [lWorker EXCEPT !.pc = "stopped"]
    /\ UNCHANGED <<lQueue, lTasks, lPaused, lCaller, lShown>>

LNext ==
    \/ \E c \in Callers : Submit(c) \/ Retry(c) \/ CallerLeaves(c)
    \/ WorkerTakes \/ WorkerSends \/ PauseEnds \/ SendSucceeds \/ Shutdown
    \/ \E error \in {"connect", "flood", "other"} : SendFails(error)

LSpec == LInit /\ [][LNext]_lVars

\* Until shutdown, a caller that waits is queued, under its key, or in the
\* hands of the worker, however often its message was compacted or retried:
\* nobody waits for a future no one will resolve.
NoFutureLost ==
    \A c \in Callers :
        lCaller[c].pc = "waiting" =>
            \/ c \in lTasks[KeyOf[c]].futures /\ \E i \in DOMAIN lQueue : lQueue[i] = KeyOf[c]
            \/ c \in lWorker.task.futures /\ lWorker.pc \in {"taken", "sending", "stopped"}

\* Who is told that it was sent can rely on it: its text or a newer one of the
\* same message was shown, and it is not covered by an older one.  Only a
\* retry of an older edit breaks this: it is queued over the newer one.
SentMeansShown ==
    \A c \in Callers :
        lCaller[c].pc = "done" =>
            \/ lShown[KeyOf[c]] >= c
            \/ \E d \in Callers : d < c /\ KeyOf[d] = KeyOf[c] /\ lCaller[d].tries > 1

-----------------------------------------------------------------------------
(***************************************************************************)
(* What makes the two inductive.                                           *)
(***************************************************************************)
LTask == [what: Callers \cup {0}, futures: SUBSET Callers]

LTypeOK ==
    /\ lQueue \in Seq(Keys) /\ lTasks \in [Keys -> LTask]
    /\ lWorker \in [pc: {"idle", "taken", "sending", "stopped"}, key: Keys \cup {0}, task: LTask]
    /\ lPaused \in BOOLEAN
    /\ lCaller \in [Callers -> [pc: {"new", "waiting", "cancelled", "done", "backoff", "failed"}, tries: Nat]]
    /\ lShown \in [Keys -> Callers \cup {0}]

\* An older edit of the same message was queued a second time.
OlderRetried(c) == \E d \in Callers : d < c /\ KeyOf[d] = KeyOf[c] /\ lCaller[d].tries > 1

\* Callers submit in their order and count their tries.
SubmittedInOrder ==
    \A c \in Callers : lCaller[c].pc # "new" =>
        lCaller[c].tries > 0 /\ \A d \in Callers : d < c => lCaller[d].pc # "new"

\* The queue lists the keys that have futures, each once; the futures are callers of
\* that key.
QueueHoldsTasks ==
    /\ \A k \in Keys :
        /\ lTasks[k].futures # {} => \E i \in DOMAIN lQueue : lQueue[i] = k
        /\ \A c \in lTasks[k].futures : KeyOf[c] = k /\ lCaller[c].pc # "new"
    /\ \A i \in DOMAIN lQueue : lTasks[lQueue[i]].futures # {}
    /\ \A i, j \in DOMAIN lQueue : lQueue[i] = lQueue[j] => i = j

AtSend == lWorker.pc \in {"taken", "sending"}

WorkerHoldsTask == \A c \in lWorker.task.futures : AtSend => KeyOf[c] = lWorker.key

\* What is queued is the newest edit submitted, unless an older one was retried.
QueuedIsNewest ==
    \A c \in Callers :
        lTasks[KeyOf[c]].futures # {} /\ lCaller[c].pc # "new" /\ c > lTasks[KeyOf[c]].what => OlderRetried(c)

\* What is being sent covers no newer text that was shown.
SendingIsNewest ==
    \A c \in Callers :
        /\ AtSend /\ KeyOf[c] = lWorker.key /\ c > lWorker.task.what
        /\ c \in lWorker.task.futures \/ lCaller[c].pc = "done"
        => OlderRetried(c)

LimiterInv ==
    /\ LTypeOK /\ SubmittedInOrder /\ QueueHoldsTasks /\ WorkerHoldsTask
    /\ QueuedIsNewest /\ SendingIsNewest /\ NoFutureLost /\ SentMeansShown
=============================================================================
