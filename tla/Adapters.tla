----------------------------- MODULE Adapters -----------------------------
(***************************************************************************)
(* The worker's execution adapters (adapters.py) and the shell runners     *)
(* they start (hermes-codex-run.sh, hermes-codex-brainstorm.sh,            *)
(* cxh-run.sh).                                                            *)
(*                                                                         *)
(* One worker executes one job at a time, but a runner is a process of its *)
(* own: when the worker dies it goes on, and the worker's successor starts *)
(* another one in the same output directory.  The runners exclude each     *)
(* other with a directory made by mkdir and a pid file written afterwards; *)
(* both are single steps here.  Codex in turn outlives a runner killed by  *)
(* its adapter.  Files are {} or {content}; a content names who wrote it   *)
(* and the how manieth of its file it is (`at`).                           *)
(***************************************************************************)
EXTENDS Integers, Sequences, FiniteSets

CONSTANTS Runners,          \* processes; a pid is never reused
          ATasks,           \* [engine, defect]: a task as the worker gives it
          AdapterKind,      \* engine |-> kind of the adapter the worker configured
          MaxReviewRounds,
          MaxExecutions     \* how often the worker may execute the job

\* A worker configures known engines only; the brainstorm engine, and no other,
\* is of kind brainstorm (EngineRoutingAdapter, _adapter_from_worker_config).
ASSUME AdapterAssumption ==
    /\ MaxReviewRounds \in Nat
    /\ DOMAIN AdapterKind \subseteq {"codex", "claude", "hybrid", "native", "brainstorm"}
    /\ \A e \in DOMAIN AdapterKind : (e = "brainstorm") <=> (AdapterKind[e] = "brainstorm")

VARIABLES aTask, aEx, aRunner, aLock, aOut, aTree

aVars == <<aTask, aEx, aRunner, aLock, aOut, aTree>>

Statuses == {"DONE", "WAIT_USER", "BLOCKED", "FAILED"}
Only == <<"only", 0>>
Stages == {Only, <<"primary", 0>>} \cup ({"review", "fix"} \X (0..MaxReviewRounds))
NoRunner == [pc |-> "none", stage |-> Only, kind |-> "codex", code |-> 0, probe |-> FALSE, tree |-> 0, at |-> 0]

AInit ==
    /\ aTask \in ATasks
    /\ aEx = [pc |-> "route", stage |-> Only, runner |-> {}, n |-> 1, answer |-> {}, own |-> {}, read |-> {}]
    /\ aRunner = [r \in Runners |-> NoRunner]
    /\ aLock = [k \in {"cxh", "codex"} |-> [dir |-> FALSE, pid |-> {}, stolen |-> FALSE]]
    /\ aOut = [s \in Stages |-> {}]
    /\ aTree = 0

-----------------------------------------------------------------------------
(* Routing and the stages of the hybrid engine.                            *)

\* EngineRoutingAdapter: an explicit engine, else what the capabilities say
\* (the controller has made sure that they are a list).
RouteOf(task) ==
    IF task.engine # "none" THEN task.engine
    ELSE IF "codex" \in task.capabilities THEN "codex" ELSE "native"

Answer(status) == [aEx EXCEPT !.pc = "over", !.answer = {status}, !.own = aEx.runner, !.runner = {}]
RunStage(pc, stage) == [aEx EXCEPT !.pc = pc, !.stage = stage, !.runner = {}]

Route ==
    LET e == RouteOf(aTask)
    IN  /\ aEx.pc = "route"
        /\ aEx' = IF e \notin DOMAIN AdapterKind THEN Answer("BLOCKED")
                  ELSE IF e = "claude" THEN RunStage("claude", Only)
                  ELSE IF e = "hybrid" THEN RunStage("claude", <<"primary", 0>>)
                  ELSE RunStage("launch", Only)
        /\ UNCHANGED <<aTask, aRunner, aLock, aOut, aTree>>

\* What follows a finished stage; a task of one engine has the stage Only.
HybridStep(stage, status) ==
    LET i == stage[2]
    IN  CASE stage = Only -> Answer(status)
          [] stage[1] \in {"primary", "fix"} /\ status # "DONE" -> Answer(status)
          [] stage[1] = "primary" /\ status = "DONE" -> RunStage("launch", <<"review", 0>>)
          [] stage[1] = "fix" /\ status = "DONE" -> RunStage("launch", <<"review", i>>)
          [] stage[1] = "review" /\ (status # "BLOCKED" \/ i >= MaxReviewRounds) -> Answer(status)
          [] OTHER -> RunStage("claude", <<"fix", i + 1>>)

\* ClaudeAgentAdapter.execute: refused by its policy, failed or timed out, or
\* a result of the Hermes contract; the agent may have edited files meanwhile.
ClaudeRefuses == aTask.defect \in {"profile", "path", "git", "timeout"}

\* _run_sdk: a session that may write, inside the authorized roots.
AgentSession == aTree' = aTree + 1

ClaudeStage(status) ==
    /\ aEx.pc = "claude"
    /\ ClaudeRefuses => status = "BLOCKED"
    /\ aEx' = HybridStep(aEx.stage, status)
    /\ IF ClaudeRefuses THEN UNCHANGED aTree ELSE AgentSession
    /\ UNCHANGED <<aTask, aRunner, aLock, aOut>>

-----------------------------------------------------------------------------
(* Starting a runner, waiting for it and reading what it left.             *)

KindOf(e) == IF e = "hybrid" THEN "codex" ELSE AdapterKind[e]
LockOf(kind) == IF kind = "cxh" THEN "cxh" ELSE "codex"
Alive(r) == aRunner[r].pc \notin {"none", "orphan", "exited"}

AdapterRefuses == aTask.defect \in {"profile", "path", "git", "timeout"}

Launch(r) ==
    /\ aEx.pc = "launch" /\ aRunner[r].pc = "none"
    /\ IF AdapterRefuses
       THEN aEx' = HybridStep(aEx.stage, "BLOCKED") /\ UNCHANGED aRunner
       ELSE /\ aEx' = [aEx EXCEPT !.pc = "wait", !.runner = {r}]
            /\ aRunner' = [aRunner EXCEPT ![r] = [NoRunner EXCEPT !.pc = "start", !.stage = aEx.stage,
                                                                  !.kind = KindOf(RouteOf(aTask))]]
    /\ UNCHANGED <<aTask, aLock, aOut, aTree>>

MutantReadResult(code, out) ==
    IF out = {} THEN "FAILED"
    ELSE LET s == (CHOOSE o \in out : TRUE).status
         IN  IF s \notin Statuses THEN "FAILED" ELSE s

\* CxhRunAdapter._execute after the process ended: result.json decides, and
\* a failed runner never means DONE.
ReadResult(code, out) ==
    IF out = {} THEN "FAILED"
    ELSE LET s == (CHOOSE o \in out : TRUE).status
         IN  IF s \notin Statuses \/ (code # 0 /\ s = "DONE") THEN "FAILED" ELSE s

\* CodexRunAdapter.execute_structured: RUNNER_EXIT_MESSAGES and the probe
\* report; DONE stands for a payload returned to the brainstorm.
StructuredStatus(code, probe) ==
    CASE code \in {2, 3} -> "BLOCKED"
      [] code = 0 -> IF probe THEN "DONE" ELSE "BLOCKED"
      [] OTHER -> "FAILED"

AdapterReads(r) ==
    /\ aEx.pc = "wait" /\ aEx.runner = {r} /\ aRunner[r].pc = "exited"
    /\ LET c == aRunner[r].code
           status == IF aRunner[r].kind = "brainstorm" THEN StructuredStatus(c, aRunner[r].probe)
                     ELSE ReadResult(c, aOut[aEx.stage])
       IN  aEx' = [HybridStep(aEx.stage, status) EXCEPT !.read = aOut[aEx.stage]]
    /\ UNCHANGED <<aTask, aRunner, aLock, aOut, aTree>>

\* release_lock: only the lock that carries the runner's own pid.
Released(r, k) == IF aLock[k].dir /\ aLock[k].pid = {r} THEN [aLock[k] EXCEPT !.dir = FALSE, !.pid = {}] ELSE aLock[k]

\* What Codex leaves when it ends: a last message, unless it crashes, and,
\* but for a review, edits.  A brainstorm stage works in a place of its own.
NextAt(stage) == IF aOut[stage] = {} THEN 1 ELSE (CHOOSE o \in aOut[stage] : TRUE).at + 1

CodexLeaves(r, status) ==
    LET s == aRunner[r].stage
    IN  IF aRunner[r].kind = "brainstorm" THEN UNCHANGED <<aOut, aTree>>
        ELSE /\ aOut' = IF status = "crash" THEN aOut
                        ELSE [aOut EXCEPT ![s] = {[status |-> status, by |-> r, at |-> NextAt(s)]}]
             /\ aTree' = IF s[1] = "review" THEN aTree ELSE aTree + 1

\* The runner outlives its timeout and is terminated, which its shell heeds
\* once Codex has ended (its trap releases the lock).  Ten seconds later the
\* shell, but not Codex, is killed: its lock stays.
AdapterTimesOut(r, status) ==
    LET k == LockOf(aRunner[r].kind)
    IN  /\ aEx.pc = "wait" /\ aEx.runner = {r} /\ aRunner[r].pc = "codex"
        /\ aEx' = HybridStep(aEx.stage, "FAILED")
        /\ \/ /\ status # "killed"
              /\ CodexLeaves(r, status)
              /\ aRunner' = [aRunner EXCEPT ![r].pc = "exited", ![r].code = 143]
              /\ aLock' = [aLock EXCEPT ![k] = Released(r, k)]
           \/ /\ status = "killed"
              /\ aRunner' = [aRunner EXCEPT ![r].pc = "orphan", ![r].code = 137]
              /\ UNCHANGED <<aLock, aOut, aTree>>
        /\ UNCHANGED aTask

\* The worker dies without a word to its runner, or its answer is lost before
\* it is saved, and the job is executed again.
WorkerDies ==
    /\ aEx.pc # "route" /\ aEx.n < MaxExecutions
    /\ aEx' = [aEx EXCEPT !.pc = "route", !.stage = Only, !.runner = {}, !.n = @ + 1,
                          !.answer = {}, !.own = {}, !.read = {}]
    /\ UNCHANGED <<aTask, aRunner, aLock, aOut, aTree>>

-----------------------------------------------------------------------------
(* The runners.                                                            *)

RunnerTo(r, pc) == aRunner' = [aRunner EXCEPT ![r].pc = pc]
RunnerExits(r, code) == aRunner' = [aRunner EXCEPT ![r].pc = "exited", ![r].code = code]

\* The argument checks of the three scripts: the exit code, 0 when they pass.
CodexArguments(defect) == IF defect = "schema" THEN 1 ELSE IF defect = "taskfile" THEN 2 ELSE 0
CxhArguments(defect) == IF defect \in {"schema", "taskfile"} THEN 1 ELSE 0
BrainstormArguments(defect) == IF defect \in {"schema", "taskfile", "codex_home"} THEN 2 ELSE 0

ArgumentCode(kind) ==
    CASE kind = "cxh" -> CxhArguments(aTask.defect)
      [] kind = "brainstorm" -> BrainstormArguments(aTask.defect)
      [] OTHER -> CodexArguments(aTask.defect)

RStart(r) ==
    /\ aRunner[r].pc = "start"
    /\ IF ArgumentCode(aRunner[r].kind) # 0 THEN RunnerExits(r, ArgumentCode(aRunner[r].kind))
       ELSE RunnerTo(r, "mkdir")
    /\ UNCHANGED <<aTask, aEx, aLock, aOut, aTree>>

\* acquire_lock, one step per command.
RMkdir(r) ==
    LET k == LockOf(aRunner[r].kind)
    IN  /\ aRunner[r].pc \in {"mkdir", "mkdir2"}
        /\ IF aLock[k].dir
           THEN /\ IF aRunner[r].pc = "mkdir" THEN RunnerTo(r, "owner") ELSE RunnerExits(r, 1)
                /\ UNCHANGED aLock
           ELSE RunnerTo(r, "pid") /\ aLock' = [aLock EXCEPT ![k].dir = TRUE, ![k].pid = {}]
        /\ UNCHANGED <<aTask, aEx, aOut, aTree>>

\* From here Codex reads the working tree as it is now.
RPid(r) ==
    LET k == LockOf(aRunner[r].kind)
    IN  /\ aRunner[r].pc = "pid"
        /\ IF aLock[k].dir
           THEN /\ aRunner' = [aRunner EXCEPT ![r].pc = "codex", ![r].tree = aTree]
                /\ aLock' = [aLock EXCEPT ![k].pid = {r}]
           ELSE RunnerExits(r, 1) /\ UNCHANGED aLock
        /\ UNCHANGED <<aTask, aEx, aOut, aTree>>

ROwner(r) ==
    LET k == LockOf(aRunner[r].kind)
    IN  /\ aRunner[r].pc = "owner"
        /\ IF \E q \in aLock[k].pid : Alive(q) THEN RunnerExits(r, 1) ELSE RunnerTo(r, "rm")
        /\ UNCHANGED <<aTask, aEx, aLock, aOut, aTree>>

\* stolen records that the lock removed was that of a live run.
HeldByAnother(r, k) ==
    \E q \in Runners \ {r} : aRunner[q].pc \in {"pid", "codex"} /\ LockOf(aRunner[q].kind) = k

RRm(r) ==
    LET k == LockOf(aRunner[r].kind)
    IN  /\ aRunner[r].pc = "rm"
        /\ aLock' = [aLock EXCEPT ![k].pid = {}, ![k].stolen = @ \/ HeldByAnother(r, k)]
        /\ RunnerTo(r, "rmdir")
        /\ UNCHANGED <<aTask, aEx, aOut, aTree>>

RRmdir(r) ==
    LET k == LockOf(aRunner[r].kind)
    IN  /\ aRunner[r].pc = "rmdir"
        /\ IF aLock[k].dir /\ aLock[k].pid = {}
           THEN /\ RunnerTo(r, "mkdir2")
                /\ aLock' = [aLock EXCEPT ![k].dir = FALSE, ![k].stolen = @ \/ HeldByAnother(r, k)]
           ELSE RunnerExits(r, 1) /\ UNCHANGED aLock
        /\ UNCHANGED <<aTask, aEx, aOut, aTree>>

\* How cxh-run.sh and hermes-codex-run.sh end: Codex failed, or result.json
\* is not a valid result, or all is well.
CodexEnds == Statuses \cup {"invalid", "crash"}
ExitCode(status) == IF status \in Statuses THEN 0 ELSE 1

\* Codex ran in the sandbox of its profile: it leaves a last message and exits
\* with 0, or fails without one (external); then the script validates
\* result.json and exits, releasing the lock.
RCodex(r, status) ==
    LET k == LockOf(aRunner[r].kind)
    IN  /\ aRunner[r].pc = "codex" /\ aRunner[r].kind # "brainstorm"
        /\ CodexLeaves(r, status)
        /\ aRunner' = [aRunner EXCEPT ![r].pc = "exited", ![r].code = ExitCode(status),
                                      ![r].at = NextAt(aRunner[r].stage)]
        /\ aLock' = [aLock EXCEPT ![k] = Released(r, k)]
        /\ UNCHANGED <<aTask, aEx>>

\* Codex ends without its shell: nothing is validated, no lock released.
ROrphan(r, status) ==
    /\ aRunner[r].pc = "orphan"
    /\ CodexLeaves(r, status)
    /\ RunnerTo(r, "exited")
    /\ UNCHANGED <<aTask, aEx, aLock>>

\* run_brainstorm_stage: the probe without the model, then the model in what
\* is left of the time, then the published payload.
RBrainstorm(r, code) ==
    /\ aRunner[r].pc = "codex" /\ aRunner[r].kind = "brainstorm"
    /\ aRunner' = [aRunner EXCEPT ![r].pc = "exited", ![r].code = code, ![r].probe = (code # 3)]
    /\ aLock' = [aLock EXCEPT !["codex"] = Released(r, "codex")]
    /\ UNCHANGED <<aTask, aEx, aOut, aTree>>

ANext ==
    \/ Route \/ WorkerDies
    \/ \E s \in Statuses : ClaudeStage(s)
    \/ \E r \in Runners :
          \/ Launch(r) \/ AdapterReads(r) \/ RStart(r) \/ RMkdir(r) \/ RPid(r)
          \/ ROwner(r) \/ RRm(r) \/ RRmdir(r)
          \/ \E s \in CodexEnds : RCodex(r, s) \/ ROrphan(r, s)
          \/ \E s \in CodexEnds \cup {"killed"} : AdapterTimesOut(r, s)
          \/ \E c \in {0, 1, 3, 4, 124} : RBrainstorm(r, c)

ASpec == AInit /\ [][ANext]_aVars

-----------------------------------------------------------------------------
(* Properties.                                                             *)

\* DONE is earned, also when a runner's lock was stolen (OrphanLockOnly).  A
\* codex job is DONE only if the runner of this execution ended well and the
\* DONE that was read is its own, or was written over its own by a Codex that
\* outlived an earlier runner: never a leftover of before.  A hybrid job is
\* DONE only if, besides, that runner's review began on the working tree that
\* Claude left last; a brainstorm stage returns a payload only if its own
\* runner ended well after its isolation probe passed; a session only if no
\* policy refuses the task (adapters.py, the exit_code check).
ReadOwnOrLater(r) ==
    \E o \in aEx.read : o.status = "DONE" /\ (o.by = r \/ o.at > aRunner[r].at)

DoneIsEarned ==
    aEx.answer = {"DONE"} =>
        CASE RouteOf(aTask) \in {"codex", "native"} ->
               \E r \in aEx.own : aRunner[r].code = 0 /\ ReadOwnOrLater(r)
          [] RouteOf(aTask) = "hybrid" ->
               \E r \in aEx.own : /\ aRunner[r].code = 0 /\ ReadOwnOrLater(r)
                                  /\ aRunner[r].stage[1] = "review" /\ aRunner[r].tree = aTree
          [] RouteOf(aTask) = "brainstorm" -> \E r \in aEx.own : aRunner[r].code = 0 /\ aRunner[r].probe
          [] OTHER -> RouteOf(aTask) = "claude" /\ ~ClaudeRefuses

\* "Lock huérfano de una ejecución ya terminada": the lock a runner removes
\* is the orphan of a run that has ended (acquire_lock, rm -f of the pid file).
OrphanLockOnly == \A k \in DOMAIN aLock : ~aLock[k].stolen

-----------------------------------------------------------------------------
(***************************************************************************)
(* What makes DoneIsEarned inductive: a stage fits the engine, the runner  *)
(* that is waited for has it, and once it ended well the file holds what   *)
(* it wrote, or something later, and the tree is the one it began on.      *)
(***************************************************************************)
Hybrid == RouteOf(aTask) = "hybrid"

AShape ==
    /\ DOMAIN aEx = {"pc", "stage", "runner", "n", "answer", "own", "read"} /\ aEx.stage \in Stages
    /\ DOMAIN aRunner = Runners /\ DOMAIN aOut = Stages
    /\ \A r \in Runners : /\ DOMAIN aRunner[r] = {"pc", "stage", "kind", "code", "probe", "tree", "at"}
                          /\ aRunner[r].stage \in Stages /\ aRunner[r].at \in Nat
    /\ \A s \in Stages : \A o \in aOut[s] : aOut[s] = {o} /\ o.at \in Nat

StagesFit ==
    /\ aEx.pc \in {"claude", "launch", "wait"} => RouteOf(aTask) \in DOMAIN AdapterKind
    /\ aEx.pc \in {"launch", "wait"} => IF Hybrid THEN aEx.stage[1] = "review"
                                     ELSE aEx.stage = Only /\ RouteOf(aTask) # "claude"
    /\ aEx.pc = "claude" =>
         IF Hybrid THEN aEx.stage[1] \in {"primary", "fix"} ELSE RouteOf(aTask) = "claude" /\ aEx.stage = Only

RunnersFit ==
    \A r \in Runners : aRunner[r].pc # "none" =>
        /\ RouteOf(aTask) \in DOMAIN AdapterKind /\ aRunner[r].kind = KindOf(RouteOf(aTask))
        /\ Hybrid => aRunner[r].stage[1] = "review"

WaitsForOwn ==
    /\ aEx.pc # "wait" => aEx.runner = {}
    /\ aEx.pc = "wait" => \E r \in Runners : aEx.runner = {r} /\ aRunner[r].pc # "none" /\ aRunner[r].stage = aEx.stage

OwnWrote ==
    aEx.pc = "wait" => \A r \in aEx.runner :
        aRunner[r].pc = "exited" /\ aRunner[r].code = 0 /\ aRunner[r].kind # "brainstorm" =>
            /\ aOut[aEx.stage] # {}
            /\ \A o \in aOut[aEx.stage] : o.by = r \/ o.at > aRunner[r].at
            /\ \A o \in aOut[aEx.stage] : o.at >= aRunner[r].at

ReviewIsFresh ==
    Hybrid /\ aEx.pc = "wait" => \A r \in aEx.runner :
        aRunner[r].pc = "codex" \/ (aRunner[r].pc = "exited" /\ aRunner[r].code = 0) => aRunner[r].tree = aTree

AnsweredIsOver ==
    /\ aEx.answer # {} => aEx.pc = "over"
    /\ \A r \in aEx.own : r \in Runners /\ aRunner[r].pc \in {"orphan", "exited"}
    /\ \A r \in Runners : aRunner[r].pc = "orphan" => aRunner[r].code # 0

AdaptersInv ==
    /\ AShape /\ StagesFit /\ RunnersFit /\ WaitsForOwn /\ OwnWrote /\ ReviewIsFresh
    /\ AnsweredIsOver /\ DoneIsEarned
=============================================================================
