---------------------------- MODULE Brainstorm ----------------------------
(***************************************************************************)
(* BrainstormAdapter (brainstorm.py): two engines are called for six       *)
(* stages, one after the other, and every step leaves a file in the job's  *)
(* directory.  The worker may die between any two of those writes and run  *)
(* the same attempt again, the controller may hand the job out as a new    *)
(* attempt in the same directory, an output may be removed while no run    *)
(* holds it, and the repository may be changed by somebody else.           *)
(*                                                                         *)
(* A file is the set {} when absent and {content} when present, and the    *)
(* checkpoints are the set ck of what they hold, one of a name; a SHA-256  *)
(* is compared as the content it is taken of.                              *)
(***************************************************************************)
EXTENDS BrainstormCore

CONSTANTS BTasks,             \* task snapshots the adapter may be given
          ProposalReplies(_), \* engine -> proposals payloads it may return
          EvaluationReplies(_), \* engine -> evaluation payloads (candidates 1..2*count)
          Verdicts,           \* verdicts a validation may carry
          LongIdeas,          \* ideas that make the Markdown report too long
          HashKey,            \* [author, idea -> Nat]: SHA-256 of job, author, idea as an order
          StageCap,           \* STAGE_TIMEOUT_CAP_SECONDS
          MaxAttempts,
          MaxFaults           \* crashes, losses, repository changes, bad replies

ASSUME BrainstormAssumption == StageCap \in Nat

VARIABLES bTask, bFiles, bRun, bWorld, bGhost, bResult

bVars == <<bTask, bFiles, bRun, bWorld, bGhost, bResult>>

MaxStageRetries == 1
MaxTotalRetries == 2
MaxSeconds == 7200
Kinds == <<"proposals", "proposals", "evaluation", "evaluation", "refinement", "validation">>
Outputs == <<"codex-proposals", "claude-proposals", "claude-evaluation",
             "codex-evaluation", "winner-refinement", "winner-validation">>
StageNames == {<<e, k>> : e \in Engines, k \in Range(Kinds)}

IdleRun == [pc |-> "idle", stage |-> 1, res |-> [s \in 1..6 |-> {}], reply |-> {},
            deadline |-> 0, validated |-> {}]

BInit ==
    /\ bTask \in BTasks
    /\ bFiles = [baseline |-> {}, budget |-> {}, out |-> [n \in Range(Outputs) |-> {}],
                 ck |-> {}, bundle |-> {}, ranking |-> {},
                 report |-> {}, inline |-> {}]
    /\ bRun = IdleRun
    /\ bWorld = [now |-> 0, repo |-> 0, attempt |-> 1, faults |-> 0]
    /\ bGhost = [calls |-> {}, reverted |-> FALSE, start |-> {}, made |-> 0, crashes |-> 0, losses |-> 0]
    /\ bResult = {}

-----------------------------------------------------------------------------
(* What a run computes from the stages it has in memory.                   *)

Val(run, s) == CHOOSE p \in run.res[s] : TRUE
BundleOf(claude, codex) == Anonymize(claude, codex, HashKey)
RunBundle(run) == BundleOf(Val(run, 2), Val(run, 1))
AuthorsOf(bundle) == [c \in DOMAIN bundle |-> bundle[c].author]
RankingOf(claudeEval, codexEval, bundle) ==
    Rank(ScoreOf(claudeEval, bTask.config.rubric), ScoreOf(codexEval, bTask.config.rubric),
         AuthorsOf(bundle))
RunRanking(run) == RankingOf(Val(run, 3), Val(run, 4), RunBundle(run))

EngineOf(run, s) ==
    CASE s \in {1, 4} -> "codex" [] s \in {2, 3} -> "claude"
      [] s = 5 -> RunRanking(run).author [] s = 6 -> Other(RunRanking(run).author)
StageName(run, s) == <<EngineOf(run, s), Kinds[s]>>

Critique(payload, c) == (CHOOSE e \in Range(payload) : e.cand = c).scores

\* The files of the stage's request, the part of _input_sha256 that varies
\* between two stages of the same name in one job.
StageInput(run, s) ==
    CASE s \in {1, 2} -> <<>>
      [] s \in {3, 4} -> RunBundle(run)
      [] s = 5 -> LET w == RunRanking(run).winner
                  IN  <<RunBundle(run)[w], Critique(Val(run, 3), w), Critique(Val(run, 4), w)>>
      [] s = 6 -> <<Val(run, 5)>>

ValidReply(run, s, p) ==
    CASE s \in {1, 2} -> ValidProposals(p, bTask.config.count)
      [] s \in {3, 4} -> ValidEvaluation(p, DOMAIN RunBundle(run), bTask.config.rubric)
      [] s = 5 -> ValidRefinement(p, RunRanking(run).winner)
      [] s = 6 -> ValidValidation(p, RunRanking(run).winner)

\* External: what the engine answers.
Replies(run, s) ==
    CASE s \in {1, 2} -> ProposalReplies(EngineOf(run, s))
      [] s \in {3, 4} -> EvaluationReplies(EngineOf(run, s))
      [] s = 5 -> {[cand |-> RunRanking(run).winner]}
      [] s = 6 -> [cand : {RunRanking(run).winner}, verdict : Verdicts]

Reports == {"brainstorm-report.json", "brainstorm-report.md", "brainstorm-report.inline.md"}

Artifacts(files, names) == [names |-> names, files |-> files]

BFail(run, files, status) ==
    /\ bResult' = {[status |-> status, artifacts |-> Artifacts(files, run.validated \ Reports)]}
    /\ bRun' = [run EXCEPT !.pc = "over"]

-----------------------------------------------------------------------------
TaskAccepted(task) ==
    /\ task.profile = "brainstorm" /\ task.runtime
    /\ ValidConfig(task.config)
    /\ task.budget \in Nat /\ 1 <= task.budget /\ task.budget <= MaxSeconds
    /\ task.dirs                         \* existing, absolute, not nested
    /\ task.question # ""

MutantLoadBudget(budget) ==
    {[attempt |-> bWorld.attempt, started |-> bWorld.now, used |-> 0,
      stages |-> [n \in StageNames |-> 0]]}

\* _load_budget: the same run and attempt goes on with the budget on disk.
LoadBudget(budget) ==
    IF \E b \in budget : b.attempt = bWorld.attempt THEN budget
    ELSE {[attempt |-> bWorld.attempt, started |-> bWorld.now, used |-> 0,
           stages |-> [n \in StageNames |-> 0]]}

\* repo_fingerprint: HEAD, index, work tree and untracked files in one value.
Fingerprint == bWorld.repo

\* _check_baseline: the repository is the one the first run of the job saw.
BaselineHolds(files) == files.baseline \in {{}, {Fingerprint}}

BPrepare ==
    /\ bRun.pc = "idle" /\ bResult = {}
    /\ IF ~TaskAccepted(bTask)
       THEN BFail(bRun, bFiles, "BLOCKED") /\ UNCHANGED <<bFiles, bGhost>>
       ELSE IF ~BaselineHolds(bFiles)
       THEN BFail(bRun, bFiles, "FAILED") /\ UNCHANGED <<bFiles, bGhost>>
       ELSE /\ bFiles' = [bFiles EXCEPT !.baseline = {Fingerprint}, !.budget = LoadBudget(@)]
            /\ bRun' = [bRun EXCEPT !.pc = "stage", !.validated = {"brainstorm-input.json"}]
            /\ bGhost' = [bGhost EXCEPT !.start = IF @ = {} THEN {bWorld.now} ELSE @]
            /\ UNCHANGED bResult
    /\ UNCHANGED <<bTask, bWorld>>

\* A stage is finished: Normalize follows the second, Rank the fourth.
After(run, s, p) ==
    [run EXCEPT !.res[s] = {p}, !.validated = @ \cup {Outputs[s]}, !.reply = {},
                !.pc = CASE s = 2 -> "normalize" [] s = 4 -> "rank" [] s = 6 -> "report"
                         [] OTHER -> "stage",
                !.stage = IF s = 6 THEN 6 ELSE s + 1]

\* The checkpoint of a stage: its inputs and the output they led to.
Checkpoint(run, s, p) == [name |-> StageName(run, s), input |-> StageInput(run, s), sha |-> p]

MutantReusable(run, s) ==
    {p \in bFiles.out[Outputs[s]] :
        /\ \E k \in bFiles.ck : k.name = StageName(run, s) /\ k.sha = p
        /\ ValidReply(run, s, p)}

\* _reuse_checkpoint: the output on disk may stand for the call.
Reusable(run, s) ==
    {p \in bFiles.out[Outputs[s]] :
        /\ Checkpoint(run, s, p) \in bFiles.ck
        /\ ValidReply(run, s, p)}

BeginStage ==
    /\ bRun.pc = "stage"
    /\ LET s == bRun.stage
       IN  bRun' = IF Reusable(bRun, s) # {}
                   THEN After(bRun, s, CHOOSE p \in Reusable(bRun, s) : TRUE)
                   ELSE [bRun EXCEPT !.pc = "call"]
    /\ UNCHANGED <<bTask, bFiles, bWorld, bGhost, bResult>>

Budget == CHOOSE b \in bFiles.budget : TRUE
Remaining == bTask.budget - (bWorld.now - Budget.started)

\* _effective_timeout, _new_execution, model_calls and _save_budget.
CallEngine ==
    /\ bRun.pc = "call"
    /\ IF Remaining < 1
       THEN BFail(bRun, bFiles, "FAILED") /\ UNCHANGED bGhost
       ELSE /\ bRun' = [bRun EXCEPT !.pc = "wait",
                                    !.deadline = bWorld.now + Min({StageCap, Remaining})]
            /\ bGhost' = [bGhost EXCEPT !.made = @ + 1]
            /\ UNCHANGED bResult
    /\ UNCHANGED <<bTask, bFiles, bWorld>>

\* The engine answers at once or at the deadline; it fails, answers what
\* validates, or answers something else and the stage is retried.
EngineReturns(p, later) ==
    LET s == bRun.stage
        n == StageName(bRun, s)
    IN  /\ bRun.pc = "wait"
        /\ p \in Replies(bRun, s)
        /\ ValidReply(bRun, s, p) \/ bWorld.faults < MaxFaults
        /\ bWorld' = [bWorld EXCEPT !.now = IF later THEN bRun.deadline ELSE @,
                                    !.faults = IF ValidReply(bRun, s, p) THEN @ ELSE @ + 1]
        /\ bGhost' = IF ValidReply(bRun, s, p)
                     THEN [bGhost EXCEPT !.calls = @ \cup {<<n, bWorld.repo, StageInput(bRun, s), p>>}]
                     ELSE bGhost
        /\ IF ValidReply(bRun, s, p)
           THEN /\ bRun' = [bRun EXCEPT !.pc = "write", !.reply = {p}]
                /\ UNCHANGED <<bFiles, bResult>>
           ELSE IF Budget.stages[n] >= MaxStageRetries \/ Budget.used >= MaxTotalRetries
           THEN BFail(bRun, bFiles, "FAILED") /\ UNCHANGED bFiles
           ELSE /\ bFiles' = [bFiles EXCEPT !.budget =
                                 {[b EXCEPT !.stages[n] = @ + 1, !.used = @ + 1] : b \in @}]
                /\ bRun' = [bRun EXCEPT !.pc = "call"]
                /\ UNCHANGED bResult
        /\ UNCHANGED bTask

EngineFails(status) ==
    /\ bRun.pc = "wait"
    /\ BFail(bRun, bFiles, status)
    /\ UNCHANGED <<bTask, bFiles, bWorld, bGhost>>

WriteOutput ==
    /\ bRun.pc = "write"
    /\ bFiles' = [bFiles EXCEPT !.out[Outputs[bRun.stage]] = bRun.reply]
    /\ bRun' = [bRun EXCEPT !.pc = "checkpoint"]
    /\ UNCHANGED <<bTask, bWorld, bGhost, bResult>>

WriteCheckpoint ==
    LET s == bRun.stage
        p == CHOOSE x \in bRun.reply : TRUE
    IN  /\ bRun.pc = "checkpoint"
        /\ bFiles' = [bFiles EXCEPT !.ck = {k \in @ : k.name # StageName(bRun, s)}
                                           \cup {Checkpoint(bRun, s, p)}]
        /\ bRun' = After(bRun, s, p)
        /\ UNCHANGED <<bTask, bWorld, bGhost, bResult>>

Normalize ==
    /\ bRun.pc = "normalize"
    /\ bFiles' = [bFiles EXCEPT !.bundle = {RunBundle(bRun)}]
    /\ bRun' = [bRun EXCEPT !.pc = "stage", !.validated = @ \cup {"candidates-anonymized.json"}]
    /\ UNCHANGED <<bTask, bWorld, bGhost, bResult>>

RankStage ==
    /\ bRun.pc = "rank"
    /\ bFiles' = [bFiles EXCEPT !.ranking = {RunRanking(bRun)}]
    /\ bRun' = [bRun EXCEPT !.pc = "stage", !.validated = @ \cup {"ranking.json"}]
    /\ UNCHANGED <<bTask, bWorld, bGhost, bResult>>

TooLong(bundle) == \E c \in DOMAIN bundle : bundle[c].idea \in LongIdeas

\* The report, its Markdown and, when that is too long to inline, the
\* summary; an inline summary of an earlier run is removed otherwise.
ReportStage ==
    LET report == BuildReport(RunBundle(bRun), RunRanking(bRun), Val(bRun, 5), Val(bRun, 6))
        long   == TooLong(RunBundle(bRun))
    IN  /\ bRun.pc = "report"
        /\ IF ~ReportFits(RunRanking(bRun), Val(bRun, 5), Val(bRun, 6))
           THEN BFail(bRun, bFiles, "FAILED") /\ UNCHANGED bFiles
           ELSE /\ bFiles' = [bFiles EXCEPT !.report = {report},
                                            !.inline = IF long THEN {report} ELSE {}]
                /\ bRun' = [bRun EXCEPT !.pc = "verify",
                              !.validated = @ \cup (Reports \ IF long THEN {} ELSE {"brainstorm-report.inline.md"})]
                /\ UNCHANGED bResult
        /\ UNCHANGED <<bTask, bWorld, bGhost>>

\* _verify_final_fingerprint
Unchanged(files) == files.baseline = {Fingerprint}

Verify ==
    /\ bRun.pc = "verify"
    /\ IF ~Unchanged(bFiles)
       THEN BFail(bRun, bFiles, "FAILED")
       ELSE /\ bResult' = {[status |-> "DONE", artifacts |-> Artifacts(bFiles, bRun.validated)]}
            /\ bRun' = [bRun EXCEPT !.pc = "over"]
    /\ UNCHANGED <<bTask, bFiles, bWorld, bGhost>>

-----------------------------------------------------------------------------
(* The environment.                                                        *)

\* The worker dies; its successor runs the same attempt from the start.
BCrash ==
    /\ bRun.pc \notin {"idle", "over"} /\ bWorld.faults < MaxFaults
    /\ bRun' = IdleRun
    /\ bWorld' = [bWorld EXCEPT !.faults = @ + 1]
    /\ bGhost' = [bGhost EXCEPT !.crashes = @ + 1]
    /\ UNCHANGED <<bTask, bFiles, bResult>>

\* The lease of the dead worker expired: a new attempt in the same directory.
BReassign ==
    /\ bRun.pc = "idle" /\ bResult = {} /\ bGhost.crashes > 0 /\ bWorld.attempt < MaxAttempts
    /\ bWorld' = [bWorld EXCEPT !.attempt = @ + 1]
    /\ bGhost' = [bGhost EXCEPT !.start = {}, !.made = 0, !.crashes = 0, !.losses = 0]
    /\ UNCHANGED <<bTask, bFiles, bRun, bResult>>

BLose(n) ==
    /\ bRun.pc = "idle" /\ bResult = {} /\ bWorld.faults < MaxFaults /\ bFiles.out[n] # {}
    /\ bFiles' = [bFiles EXCEPT !.out[n] = {}]
    /\ bWorld' = [bWorld EXCEPT !.faults = @ + 1]
    /\ bGhost' = [bGhost EXCEPT !.losses = @ + 1]
    /\ UNCHANGED <<bTask, bRun, bResult>>

\* The repository becomes r, something new or what it was before: before a
\* run, during a call or before the final fingerprint, the moments that the
\* adapter or an engine can tell apart.  The ghost `reverted` records that a
\* change was undone, which no fingerprint shows.
RepoChanges(r) ==
    /\ bRun.pc \in {"idle", "wait", "verify"} /\ bWorld.faults < MaxFaults /\ r # bWorld.repo
    /\ bWorld' = [bWorld EXCEPT !.repo = r, !.faults = @ + 1]
    /\ bGhost' = [bGhost EXCEPT !.reverted = @ \/ r \in bFiles.baseline]
    /\ UNCHANGED <<bTask, bFiles, bRun, bResult>>

BNext ==
    \/ BPrepare \/ BeginStage \/ CallEngine
    \/ \E later \in BOOLEAN, p \in IF bRun.pc = "wait" THEN Replies(bRun, bRun.stage) ELSE {} :
          EngineReturns(p, later)
    \/ \E status \in {"BLOCKED", "FAILED"} : EngineFails(status)
    \/ WriteOutput \/ WriteCheckpoint \/ Normalize \/ RankStage \/ ReportStage \/ Verify
    \/ BCrash \/ BReassign
    \/ \E r \in 0..(bWorld.repo + 1) : RepoChanges(r)
    \/ \E n \in Range(Outputs) : BLose(n)

BSpec == BInit /\ [][BNext]_bVars

-----------------------------------------------------------------------------
(* The inductive invariant: what a run has in memory is what is on disk,   *)
(* and what is on disk was paid for.                                       *)

BWorking == bRun.pc \notin {"idle", "over"}
InCall == {"wait", "write", "checkpoint"}      \* an engine was called, its answer is not kept
Finished == IF bRun.pc \in {"report", "verify"} THEN 6 ELSE bRun.stage - 1

\* An engine answered a call of this stage for these inputs with p; on the
\* repository as it is, when that is still the one of the baseline.
OnBaseline == bWorld.repo \in bFiles.baseline /\ ~bGhost.reverted
Called(name, input, p) ==
    \E call \in bGhost.calls :
        call = <<name, call[2], input, p>> /\ (OnBaseline => call[2] = bWorld.repo)

BShape ==
    /\ DOMAIN bRun = DOMAIN IdleRun /\ DOMAIN bRun.res = 1..6 /\ bRun.stage \in 1..6
    /\ bRun.pc \in InCall \cup {"idle", "stage", "call", "normalize", "rank", "report", "verify", "over"}
    /\ DOMAIN bFiles = {"baseline", "budget", "out", "ck", "bundle", "ranking", "report", "inline"}
    /\ DOMAIN bFiles.out = Range(Outputs)
    /\ \A n \in Range(Outputs) : \A p \in bFiles.out[n] : bFiles.out[n] = {p}
    /\ DOMAIN bWorld = {"now", "repo", "attempt", "faults"}
    /\ bWorld.now \in Nat /\ bWorld.repo \in Nat /\ bWorld.attempt \in Nat /\ bRun.deadline \in Nat
    /\ DOMAIN bGhost = {"calls", "reverted", "start", "made", "crashes", "losses"}
    /\ bGhost.made \in Nat /\ bGhost.crashes \in Nat /\ bGhost.losses \in Nat
    /\ bResult # {} => bRun.pc = "over"
    /\ bRun.pc = "idle" => bRun.stage = 1
    /\ BWorking => bTask.budget \in Nat /\ bGhost.start # {}

\* The output and the checkpoint of the stage stand for its call.
Secured(run, s) ==
    \E p \in bFiles.out[Outputs[s]] :
        /\ run.res[s] = {p} /\ bFiles.out[Outputs[s]] = {p}
        /\ ValidReply(run, s, p) /\ Checkpoint(run, s, p) \in bFiles.ck

\* The run another worker would find.
DiskRun == [res |-> [s \in 1..6 |-> bFiles.out[Outputs[s]]]]
SecuredUpTo(n) == \A s \in 1..n : Secured(DiskRun, s)

RunOnDisk ==
    BWorking =>
        /\ \A s \in 1..Finished : Secured(bRun, s)
        /\ bRun.pc \in {"write", "checkpoint"} =>
             \E p \in bRun.reply : bRun.reply = {p} /\ ValidReply(bRun, bRun.stage, p)
        /\ bRun.pc = "checkpoint" => bFiles.out[Outputs[bRun.stage]] = bRun.reply
        /\ bRun.pc = "normalize" => bRun.stage = 3
        /\ bRun.pc = "rank" => bRun.stage = 5
        /\ bRun.pc \in {"report", "verify"} => bRun.stage = 6
        /\ bRun.stage >= 3 /\ bRun.pc # "normalize" => bFiles.bundle = {RunBundle(bRun)}
        /\ bRun.stage >= 5 /\ bRun.pc # "rank" => bFiles.ranking = {RunRanking(bRun)}
        /\ bRun.pc = "verify" =>
             LET report == BuildReport(RunBundle(bRun), RunRanking(bRun), Val(bRun, 5), Val(bRun, 6))
             IN  /\ bFiles.report = {report}
                 /\ bFiles.inline = IF TooLong(RunBundle(bRun)) THEN {report} ELSE {}

\* Every checkpoint, and every answer about to be written, is of a call.
CallsBehindFiles ==
    /\ bFiles.baseline = {} => bFiles.ck = {} /\ ~BWorking
    /\ \A b \in bFiles.baseline : bFiles.baseline = {b}
    /\ \A k \in bFiles.ck : Called(k.name, k.input, k.sha)
    /\ bRun.pc \in {"write", "checkpoint"} =>
         \A p \in bRun.reply : Called(StageName(bRun, bRun.stage), StageInput(bRun, bRun.stage), p)

\* The budget on disk is the one of the attempt that runs.
BudgetOfAttempt ==
    /\ bGhost.start = {} =>
         bGhost.made = 0 /\ \A b \in bFiles.budget : b.attempt \in Nat /\ b.attempt < bWorld.attempt
    /\ bGhost.start # {} =>
         \E b \in bFiles.budget :
             /\ bFiles.budget = {b} /\ DOMAIN b = {"attempt", "started", "used", "stages"}
             /\ b.attempt = bWorld.attempt /\ bGhost.start = {b.started}
             /\ b.started \in Nat /\ b.started <= bWorld.now /\ b.used \in 0..MaxTotalRetries
    /\ bRun.pc = "wait" =>
         bWorld.now <= bRun.deadline /\ \A t \in bGhost.start : bRun.deadline <= t + bTask.budget

\* Every call is a stage on disk, a retry, the call under way, or lost with
\* a crash or with the outputs somebody removed.
CallsCounted ==
    bGhost.start # {} /\ bRun.pc # "over" =>
        \E n \in 0..6, b \in bFiles.budget :
            /\ SecuredUpTo(n)
            /\ bRun.pc \in {"call"} \cup InCall => n <= bRun.stage - 1
            /\ bGhost.made <= n + b.used + (IF bRun.pc \in InCall THEN 1 ELSE 0)
                                + bGhost.crashes + 6 * bGhost.losses

-----------------------------------------------------------------------------
(* Properties.                                                             *)

\* Everything a DONE result publishes belongs together, whatever was lost,
\* repeated or resumed on the way: each stage's output was returned by an
\* engine for exactly the inputs that are published beside it, and bundle,
\* ranking, report and inline summary are those of the published outputs
\* (_reuse_checkpoint).  The repository is at the end the one the job started
\* from, and unless a change was undone on the way, which the fingerprints at
\* the two ends cannot show, every output was produced on it
\* (_check_baseline, _verify_final_fingerprint).
PublishedFitsTogether ==
    \A r \in bResult : r.status = "DONE" =>
        LET f    == r.artifacts.files
            run  == [res |-> [s \in 1..6 |-> f.out[Outputs[s]]]]
        IN  /\ \A s \in 1..6 : \E p \in f.out[Outputs[s]], call \in bGhost.calls :
                  /\ call = <<StageName(run, s), call[2], StageInput(run, s), p>>
                  /\ bGhost.reverted \/ call[2] \in f.baseline
            /\ f.bundle = {RunBundle(run)} /\ f.ranking = {RunRanking(run)}
            /\ f.report = {BuildReport(RunBundle(run), RunRanking(run), Val(run, 5), Val(run, 6))}
            /\ f.inline = (IF TooLong(RunBundle(run)) THEN f.report ELSE {})
            /\ bWorld.repo \in f.baseline

\* An attempt costs what its budget allows even when the worker dies and
\* resumes it: no engine call may run past the attempt's first start plus
\* its budget, and the calls are at most one per stage plus the two retries
\* plus one for each crash (and what a lost output makes repeat).
AttemptBudgetKept ==
    /\ bRun.pc = "wait" => \A t \in bGhost.start : bRun.deadline <= t + bTask.budget
    /\ bGhost.made <= 6 + MaxTotalRetries + bGhost.crashes + 6 * bGhost.losses

\* The published confidence is the one the six published outputs earn.  HIGH
\* exactly when the engines give the winner 75 points on average and differ by
\* at most 10, put it 5 points ahead of every other candidate, and its author
\* does not prefer its own ideas by 10 or more on average, over all pairs of
\* one of its own and one of the other engine's; MEDIUM otherwise, when it has
\* 65 on average and they differ by at most 20.  Nobody is preferred to the
\* winner by both engines, the author named is the engine whose proposals hold
\* the idea, in spite of the anonymous order, and the other engine validated
\* it (rank, _base_confidence, anonymize, validator_for; a and b count in
\* tenths of a point).
ConfidenceEarned ==
    \A r \in bResult : r.status = "DONE" =>
        LET f      == r.artifacts.files
            k      == CHOOSE x \in f.ranking : TRUE
            run    == [res |-> [s \in 1..6 |-> f.out[Outputs[s]]]]
            a      == ScoreOf(Val(run, 3), bTask.config.rubric)
            b      == ScoreOf(Val(run, 4), bTask.config.rubric)
            w      == k.winner
            own    == IF k.author = "claude" THEN a ELSE b
            Mine   == {c \in DOMAIN a : RunBundle(run)[c].author = k.author}
            Pairs  == Mine \X (DOMAIN a \ Mine)
            biased == MapThenSumSet(LAMBDA p : own[p[1]] - own[p[2]], Pairs) >= 100 * Cardinality(Pairs)
            leads  == \A c \in DOMAIN a \ {w} : a[w] + b[w] - a[c] - b[c] >= 100
            apart  == Max({a[w] - b[w], b[w] - a[w]})
        IN  /\ k.confidence = "HIGH" <=> a[w] + b[w] >= 1500 /\ apart <= 100 /\ leads /\ ~biased
            /\ k.confidence # "LOW" <=> a[w] + b[w] >= 1300 /\ apart <= 200
            /\ \A c \in DOMAIN a : ~(a[c] > a[w] /\ b[c] > b[w])
            /\ RunBundle(run)[w].idea \in Range(Val(run, IF k.author = "claude" THEN 2 ELSE 1))
            /\ \E call \in bGhost.calls : call[1] = <<Other(k.author), "validation">>

BrainstormInv ==
    BShape /\ RunOnDisk /\ CallsBehindFiles /\ BudgetOfAttempt /\ CallsCounted
    /\ PublishedFitsTogether /\ AttemptBudgetKept
=============================================================================
