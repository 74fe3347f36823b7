---------------------------- MODULE CliSessions ----------------------------
(***************************************************************************)
(* CLI sessions and their processes (cli/manager.py, cli/session.py,       *)
(* cli/process_registry.py) as the message handler uses them: a task gets  *)
(* a session, runs one process in it, learns its real id from the output,  *)
(* and gives it back.  The manager's lock is held while a process is being *)
(* stopped.  A session is named by the task that created it; the key of a  *)
(* pending one is the id of the parent, or a temporary id.                 *)
(***************************************************************************)
EXTENDS Integers, FiniteSets

CONSTANTS CliTasks,    \* positive numbers
          ParentOf,    \* CliTasks -> the parent's session id, or NoId
          MaxStopAlls

VARIABLES cMgr, cTask, cSess, cPids, cGhost

cVars == <<cMgr, cTask, cSess, cPids, cGhost>>

\* The id the output of t's process names, and the one t asks for before.
NoId == <<"none", 0>>
RealId(t) == <<"real", t>>
TempId(t) == IF ParentOf[t] = NoId THEN <<"temp", t>> ELSE ParentOf[t]

ASSUME CliAssumption ==
    CliTasks \subseteq Nat \ {0} /\ \A t \in CliTasks : ParentOf[t][1] # "temp"

\* The manager's dictionaries are sets of <<key, value>>; tempToReal stands
\* for _temp_to_real and its inverse; lock is the task that holds it, or
\* StopAllHolds, and stopping the session whose stop() it awaits.
StopAllHolds == -1

CInit ==
    /\ cMgr = [sessions |-> {}, pending |-> {}, tempToReal |-> {}, lock |-> 0, todo |-> {}, stopping |-> 0]
    /\ cTask = [t \in CliTasks |-> [pc |-> "new", sess |-> 0, temp |-> NoId, captured |-> NoId, gen |-> "none"]]
    /\ cSess = [t \in CliTasks |-> [proc |-> "none", lock |-> 0]]
    /\ cPids = {}
    /\ cGhost = [stopAlls |-> 0, unmanaged |-> {}]

Value(m, k) == CHOOSE v \in {p[2] : p \in {q \in m : q[1] = k}} : TRUE
HasKey(m, k) == \E p \in m : p[1] = k
Less(m, k) == {p \in m : p[1] # k}
Goes(t, pc) == cTask' = [cTask EXCEPT ![t].pc = pc]
Unlocked == cMgr.lock = 0

-----------------------------------------------------------------------------
\* get_or_create_session.  A reply knows its parent's id once session_info
\* has stored it in the tree.
GetOrCreateSession(t) ==
    LET parent == ParentOf[t]
        id == IF HasKey(cMgr.tempToReal, parent) THEN Value(cMgr.tempToReal, parent) ELSE parent
        Reuses(m) == cTask' = [cTask EXCEPT ![t] = [pc |-> "session", sess |-> Value(m, id), temp |-> NoId, captured |-> id, gen |-> "none"]]
    IN  /\ cTask[t].pc = "new" /\ Unlocked
        /\ \A p \in CliTasks : parent = RealId(p) => cTask[p].captured = parent
        /\ IF parent # NoId /\ HasKey(cMgr.sessions, id) THEN Reuses(cMgr.sessions) /\ UNCHANGED cMgr
           ELSE IF parent # NoId /\ HasKey(cMgr.pending, id) THEN Reuses(cMgr.pending) /\ UNCHANGED cMgr
           ELSE /\ cTask' = [cTask EXCEPT ![t] = [pc |-> "session", sess |-> t, temp |-> TempId(t), captured |-> NoId, gen |-> "none"]]
                /\ cMgr' = [cMgr EXCEPT !.pending = Less(@, TempId(t)) \cup {<<TempId(t), t>>}]
        /\ UNCHANGED <<cSess, cPids, cGhost>>

\* start_task waits for the session, then for the process to be created.
StartTask(t) ==
    LET s == cTask[t].sess
    IN  /\ cTask[t].pc = "session" /\ cSess[s].lock = 0
        /\ cSess' = [cSess EXCEPT ![s].lock = t]
        /\ cTask' = [cTask EXCEPT ![t].pc = "spawning", ![t].gen = "open"]
        /\ UNCHANGED <<cMgr, cPids, cGhost>>

Managed(s) == \E p \in cMgr.sessions \cup cMgr.pending : p[2] = s

\* Whoever awaits the end of a process resumes before the next one of that
\* session has been created.
ProcessStarts(t) ==
    LET s == cTask[t].sess
    IN  /\ cTask[t].pc = "spawning" /\ Goes(t, "reading")
        /\ cMgr.stopping = s => cSess[s].proc = "none"
        /\ cSess' = [cSess EXCEPT ![s].proc = "running"] /\ cPids' = cPids \cup {s}
        /\ cGhost' = IF Managed(s) THEN cGhost ELSE [cGhost EXCEPT !.unmanaged = @ \cup {s}]
        /\ UNCHANGED cMgr

\* session_info: register_real_session_id, if this task created the session.
SessionInfo(t) ==
    LET temp == cTask[t].temp
    IN  /\ cTask[t].pc = "reading" /\ temp # NoId /\ Unlocked
        /\ cTask' = [cTask EXCEPT ![t].temp = NoId, ![t].captured = RealId(t)]
        /\ IF HasKey(cMgr.pending, temp)
           THEN cMgr' = [cMgr EXCEPT !.pending = Less(@, temp),
                                     !.sessions = Less(@, RealId(t)) \cup {<<RealId(t), Value(cMgr.pending, temp)>>},
                                     !.tempToReal = Less(@, temp) \cup {<<temp, RealId(t)>>}]
           ELSE UNCHANGED cMgr
        /\ cGhost' = [cGhost EXCEPT !.unmanaged = @ \cup {p[2] : p \in {q \in cMgr.pending : q[1] = temp /\ q[2] # cTask[t].sess}}]
        /\ UNCHANGED <<cSess, cPids>>

ProcessExits(s) ==
    /\ cSess[s].proc \in {"running", "signalled"}
    /\ cSess' = [cSess EXCEPT ![s].proc = "exited"]
    /\ UNCHANGED <<cMgr, cTask, cPids, cGhost>>

\* stop: terminate, and the caller waits until the process is gone.
Stopped(s) == IF cSess[s].proc = "running" THEN [cSess EXCEPT ![s].proc = "signalled"] ELSE cSess

\* What the lock's holder awaits while s is stopped: nothing without a process.
Awaits(s) == IF cSess[s].proc \in {"running", "signalled"} THEN s ELSE 0
StopReturns == cMgr.stopping # 0 => cSess[cMgr.stopping].proc = "exited"

-----------------------------------------------------------------------------
\* How start_task ends: the output ends, or the task is cancelled while it
\* reads it, or the process cannot be created.
OutputEnds(t) == cTask[t].pc = "reading" /\ cSess[cTask[t].sess].proc = "exited" /\ Goes(t, "closing")
                 /\ UNCHANGED <<cMgr, cSess, cPids, cGhost>>

CancelledReading(t) ==
    /\ cTask[t].pc = "reading" /\ Goes(t, "stopping")
    /\ cSess' = Stopped(cTask[t].sess)
    /\ UNCHANGED <<cMgr, cPids, cGhost>>

StoppedReading(t) == cTask[t].pc = "stopping" /\ cSess[cTask[t].sess].proc = "exited" /\ Goes(t, "closing")
                     /\ cPids' = cPids \ {cTask[t].sess}
                     /\ UNCHANGED <<cMgr, cSess, cGhost>>

\* The generator is closed: the pid is forgotten and the session is free.
Closed(t, pc) ==
    LET s == cTask[t].sess
    IN  /\ cTask' = [cTask EXCEPT ![t].pc = pc, ![t].gen = "closed"]
        /\ cSess' = [cSess EXCEPT ![s].lock = 0] /\ cPids' = cPids \ {s}
        /\ UNCHANGED <<cMgr, cGhost>>

GeneratorEnds(t) == cTask[t].pc = "closing" /\ Closed(t, "cleanup")
SpawnFails(t) == cTask[t].pc = "spawning" /\ Closed(t, "cleanup")

\* The task is cancelled (once) where it awaits something of its own: it leaves the
\* loop, and the generator is closed some time after the process has ended.
CancelledElsewhere(t) ==
    /\ cTask[t].pc \in {"session", "reading"} /\ Goes(t, "cleanup")
    /\ UNCHANGED <<cMgr, cSess, cPids, cGhost>>

GeneratorFinalized(t) ==
    /\ cTask[t].gen = "open" /\ cTask[t].pc \in {"cleanup", "removing", "done"}
    /\ cSess[cTask[t].sess].proc = "exited"
    /\ Closed(t, cTask[t].pc)

-----------------------------------------------------------------------------
\* The last id the handler knows of the session of its task.
LastId(t) == IF cTask[t].captured # NoId THEN cTask[t].captured ELSE cTask[t].temp

MutantRemoveSession(t) ==
    LET id == LastId(t)
    IN  /\ cTask[t].pc = "cleanup" /\ Unlocked
        /\ IF HasKey(cMgr.sessions, id)
           THEN /\ cMgr' = [cMgr EXCEPT !.lock = t, !.sessions = Less(@, id), !.tempToReal = {p \in @ : p[2] # id}]
                /\ cSess' = Stopped(Value(cMgr.sessions, id)) /\ Goes(t, "removing")
           ELSE Goes(t, "done") /\ UNCHANGED <<cMgr, cSess>>
        /\ UNCHANGED <<cPids, cGhost>>

MutantNotStopped(t) ==
    LET id == LastId(t)
    IN  /\ cTask[t].pc = "cleanup" /\ Unlocked /\ Goes(t, "done")
        /\ cMgr' = [cMgr EXCEPT !.pending = Less(@, id), !.sessions = Less(@, id), !.tempToReal = {p \in @ : p[2] # id}]
        /\ UNCHANGED <<cSess, cPids, cGhost>>

\* The handler's finally: remove_session under the last id it knew.
RemoveSession(t) ==
    LET id == LastId(t)
        Stops(s, m) == /\ cMgr' = [m EXCEPT !.lock = t, !.stopping = Awaits(s)]
                       /\ cSess' = Stopped(s) /\ Goes(t, "removing")
    IN  /\ cTask[t].pc = "cleanup" /\ Unlocked
        /\ IF HasKey(cMgr.pending, id)
           THEN Stops(Value(cMgr.pending, id), [cMgr EXCEPT !.pending = Less(@, id)])
           ELSE IF HasKey(cMgr.sessions, id)
           THEN Stops(Value(cMgr.sessions, id),
                      [cMgr EXCEPT !.sessions = Less(@, id), !.tempToReal = {p \in @ : p[2] # id}])
           ELSE Goes(t, "done") /\ UNCHANGED <<cMgr, cSess>>
        /\ UNCHANGED <<cPids, cGhost>>

Removed(t) ==
    /\ cTask[t].pc = "removing" /\ cMgr.lock = t /\ StopReturns
    /\ cMgr' = [cMgr EXCEPT !.lock = 0, !.stopping = 0] /\ Goes(t, "done")
    /\ cPids' = cPids \ {cMgr.stopping}
    /\ UNCHANGED <<cSess, cGhost>>

\* stop_all: the sessions are stopped one after the other, then all is dropped.
StopAll ==
    /\ Unlocked /\ cGhost.stopAlls < MaxStopAlls
    /\ cGhost' = [cGhost EXCEPT !.stopAlls = @ + 1]
    /\ cMgr' = [cMgr EXCEPT !.lock = StopAllHolds, !.todo = {s \in CliTasks : Managed(s)}]
    /\ UNCHANGED <<cTask, cSess, cPids>>

StopNext(s) ==
    /\ cMgr.lock = StopAllHolds /\ StopReturns /\ s \in cMgr.todo
    /\ cMgr' = [cMgr EXCEPT !.todo = @ \ {s}, !.stopping = Awaits(s)]
    /\ cSess' = Stopped(s) /\ cPids' = cPids \ {cMgr.stopping}
    /\ UNCHANGED <<cTask, cGhost>>

AllStopped ==
    /\ cMgr.lock = StopAllHolds /\ StopReturns /\ cMgr.todo = {}
    /\ cMgr' = [sessions |-> {}, pending |-> {}, tempToReal |-> {}, lock |-> 0, todo |-> {}, stopping |-> 0]
    /\ cPids' = cPids \ {cMgr.stopping}
    /\ cGhost' = [cGhost EXCEPT !.unmanaged = @ \cup {s \in CliTasks : cSess[s].proc = "running"}]
    /\ UNCHANGED <<cTask, cSess>>

CNext ==
    \/ StopAll \/ AllStopped
    \/ \E t \in CliTasks :
          \/ GetOrCreateSession(t) \/ StartTask(t) \/ ProcessStarts(t) \/ SessionInfo(t) \/ ProcessExits(t)
          \/ OutputEnds(t) \/ CancelledReading(t) \/ StoppedReading(t) \/ GeneratorEnds(t) \/ SpawnFails(t)
          \/ StopNext(t) \/ CancelledElsewhere(t) \/ GeneratorFinalized(t) \/ RemoveSession(t) \/ Removed(t)

CSpec == CInit /\ [][CNext]_cVars

-----------------------------------------------------------------------------
Over(t) == cTask[t].pc \in {"new", "done"}

\* The inductive invariant: who answers for an entry of the manager, and who
\* holds a session.
KeysOf(m) == {p[1] : p \in m}
Functional(m) == (\A p, q \in m : p[1] = q[1] => p = q) /\ \A p \in m : p = <<p[1], p[2]>>
Entries == cMgr.pending \cup cMgr.sessions
Answers(t, k) == ~Over(t) /\ cTask[t].pc # "removing" /\ LastId(t) = k

CShape ==
    /\ DOMAIN cMgr = {"sessions", "pending", "tempToReal", "lock", "todo", "stopping"}
    /\ DOMAIN cTask = CliTasks /\ DOMAIN cSess = CliTasks
    /\ DOMAIN cGhost = {"stopAlls", "unmanaged"}
    /\ \A t \in CliTasks : DOMAIN cTask[t] = {"pc", "sess", "temp", "captured", "gen"}
    /\ \A s \in CliTasks : DOMAIN cSess[s] = {"proc", "lock"} /\ cSess[s].lock \in CliTasks \cup {0}
    /\ \A t \in CliTasks : cTask[t].pc # "new" => cTask[t].sess \in CliTasks
    /\ cMgr.todo \subseteq CliTasks

\* Ids: a task that learnt its real id has dropped the temporary one, and no
\* key of a session is, or was, asked for as a temporary one.
Aliases == KeysOf(cMgr.pending) \cup KeysOf(cMgr.tempToReal) \cup {cTask[t].temp : t \in CliTasks}

IdsApart ==
    /\ \A t \in CliTasks : cTask[t].pc = "new" => cTask[t].captured = NoId /\ cTask[t].temp = NoId
    /\ \A t \in CliTasks : cTask[t].temp # NoId => cTask[t].captured = NoId
    /\ \A t \in CliTasks : <<"temp", t>> \in KeysOf(cMgr.pending) => cTask[t].pc # "new"
    /\ \A p \in CliTasks : RealId(p) \in Aliases \cup KeysOf(cMgr.sessions) => cTask[p].captured # NoId
    /\ KeysOf(cMgr.sessions) \subseteq {RealId(p) : p \in CliTasks} /\ Aliases \cap KeysOf(cMgr.sessions) = {}
    /\ Functional(cMgr.pending) /\ Functional(cMgr.sessions)
    /\ \A p \in cMgr.tempToReal : p[2] \in KeysOf(cMgr.sessions)

\* Every entry has a task that will remove it, and that uses its session.
EntriesAnswered ==
    \A p \in Entries :
        /\ p[2] \in CliTasks
        /\ \E t \in CliTasks : Answers(t, p[1]) /\ (cTask[t].sess = p[2] \/ p[2] \in cGhost.unmanaged)

\* A process that runs has a task that opened it and an entry, or is unmanaged.
ProcessesHeld ==
    /\ \A t \in CliTasks : cTask[t].gen = "open" =>
         /\ cTask[t].pc # "new" /\ cSess[cTask[t].sess].lock = t
         /\ cTask[t].pc \in {"spawning", "closing"} => cSess[cTask[t].sess].proc \notin {"running", "signalled"}
    /\ \A t \in CliTasks : cTask[t].pc \in {"spawning", "reading", "stopping", "closing"} => cTask[t].gen = "open"
    /\ \A s \in CliTasks : cSess[s].proc \in {"running", "signalled"} =>
         \E t \in CliTasks : cTask[t].gen = "open" /\ cTask[t].sess = s
    /\ \A s \in CliTasks : cSess[s].proc = "running" =>
         s \in cPids /\ (s \in cGhost.unmanaged \/ Managed(s))

\* Whatever order cancellation, session_info, the end of the process and
\* stop_all come in, the manager is empty when no task is under way: no
\* session stays under an id that nobody will remove.
ReleasedWhenIdle ==
    Unlocked /\ (\A t \in CliTasks : Over(t)) =>
        cMgr.sessions = {} /\ cMgr.pending = {} /\ cMgr.tempToReal = {}

\* A process that nobody has stopped is in the registry that is killed at
\* exit, and a task is still reading it or about to stop it; except one that
\* was started in a session after stop_all had passed it by, or whose session
\* was registered by another task of the same parent (after a stop_all).
ProcessSupervised ==
    \A s \in CliTasks :
        cSess[s].proc = "running" =>
            /\ s \in cPids
            /\ s \in cGhost.unmanaged \/ \E t \in CliTasks : cTask[t].sess = s /\ ~Over(t)

CliInv == CShape /\ IdsApart /\ EntriesAnswered /\ ProcessesHeld
=============================================================================
