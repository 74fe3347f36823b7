---------------------------- MODULE MCHermesWork ----------------------------
(***************************************************************************)
(* What happens around the controller's queue, for TLC: the brainstorm     *)
(* workflow, the adapters and their runners, the way of a task from a      *)
(* manifest to a result, the GitHub handler and the gate bridge.  They     *)
(* share no state; a behaviour is one of one of them, named by `part`.     *)
(* The brainstorm has two parts: `brainstorm` with two evaluations and all *)
(* faults, `scores` with finer evaluations and no fault.                   *)
(***************************************************************************)
EXTENDS Brainstorm, Adapters, TaskBuild, GitHubHandler, GateBridge

VARIABLE part

Parts == {"brainstorm", "scores", "adapters", "build", "github", "gates"}

One(S) == {CHOOSE x \in S : TRUE}

\* What the candidates are given for each criterion.
Evaluation(scores) == [i \in DOMAIN scores |-> [cand |-> i, scores |-> scores[i]]]

\* Two evaluations that lead to three winners, and one that forgets a candidate.
Disagreeing == {Evaluation(<<<<4, 4, 5>>, <<6, 6, 6>>, <<7, 7, 8>>, <<6, 7, 7>>>>),
                Evaluation(<<<<8, 7, 9>>, <<7, 7, 7>>, <<3, 3, 4>>, <<4, 4, 6>>>>)}
Forgetful == {Evaluation(<<<<8, 8, 8>>, <<8, 8, 8>>, <<8, 8, 8>>>>)}

\* With these the pairs of evaluations, one of each engine, meet every
\* threshold of rank() exactly (an average of 75 or 65, a difference of 10 or
\* 20, a lead of 5, a preference of 10), miss each by as little as scores can,
\* and tie at the top.
Finer == {Evaluation(<<<<6, 8, 6>>, <<4, 5, 4>>, <<7, 6, 8>>, <<8, 9, 9>>>>),
          Evaluation(<<<<7, 7, 7>>, <<6, 6, 5>>, <<8, 9, 8>>, <<7, 9, 7>>>>),
          Evaluation(<<<<8, 8, 8>>, <<7, 6, 7>>, <<6, 5, 6>>, <<6, 6, 8>>>>)}

NoReplyOf(evaluations) == bRun.stage \in {3, 4} => bRun.reply \cap evaluations = {}

WInit ==
    /\ part \in Parts
    /\ BInit /\ AInit /\ PInit /\ GInit /\ GBInit
    /\ part \notin {"brainstorm", "scores"} => bTask \in One(BTasks)
    /\ part # "adapters" => aTask \in One(ATasks)
    /\ part # "github" => gTask \in One(GTasks)

WNext ==
    /\ UNCHANGED part
    /\ \/ /\ part = "brainstorm" /\ BNext /\ NoReplyOf(Finer)'
          /\ UNCHANGED <<aVars, pVars, gVars, gbVars>>
       \/ /\ part = "scores" /\ BNext /\ bWorld'.faults = 0 /\ NoReplyOf(Forgetful)'
          /\ UNCHANGED <<aVars, pVars, gVars, gbVars>>
       \/ part = "adapters" /\ ANext /\ UNCHANGED <<bVars, pVars, gVars, gbVars>>
       \/ part = "build" /\ PNext /\ UNCHANGED <<bVars, aVars, gVars, gbVars>>
       \/ part = "github" /\ GNext /\ UNCHANGED <<bVars, aVars, pVars, gbVars>>
       \/ part = "gates" /\ GBNext /\ UNCHANGED <<bVars, aVars, pVars, gVars>>

wVars == <<part, bVars, aVars, pVars, gVars, gbVars>>

WSpec == WInit /\ [][WNext]_wVars

\* The runners only.
RunnerSpec == WInit /\ part = "adapters" /\ [][WNext]_wVars

-----------------------------------------------------------------------------
(* Brainstorm: two proposals of each engine, another two and a reply with  *)
(* too few of Codex; three criteria; a task with a wrong rubric and one    *)
(* without a question.                                                     *)

Rubric == <<[id |-> "a", weight |-> 50], [id |-> "b", weight |-> 30], [id |-> "c", weight |-> 20]>>
Question == [profile |-> "brainstorm", runtime |-> TRUE, config |-> BuildConfig(2, Rubric), budget |-> 2,
             dirs |-> TRUE, question |-> "q"]
MCBTasks == {Question, [Question EXCEPT !.config.rubric_id = "general-v1"], [Question EXCEPT !.question = ""]}
MCProposals(e) == IF e = "codex" THEN {<<1, 2>>, <<3, 1>>, <<1>>} ELSE {<<1, 2>>}
MCEvaluations(e) == Disagreeing \cup Finer \cup (IF e = "claude" THEN Forgetful ELSE {})
MCHash == [a \in Engines, i \in 1..3 |-> IF a = "claude" THEN 2 * i ELSE 7 - 2 * i]
MCLongIdeas == {3}

-----------------------------------------------------------------------------
(* Adapters: every engine, with and without a defect in the task.          *)

Work(engine, capabilities, defect) == [engine |-> engine, capabilities |-> capabilities, defect |-> defect]
MCATasks == {Work("codex", {}, "none"), Work("hybrid", {}, "none"), Work("none", {"codex"}, "schema"),
             Work("none", {"git"}, "none"), Work("brainstorm", {}, "none"), Work("native", {}, "none"),
             Work("claude", {}, "path"), Work("codex", {}, "git")}
MCAdapterKind == [e \in {"codex", "claude", "hybrid", "brainstorm", "native"} |-> IF e = "native" THEN "cxh" ELSE e]

-----------------------------------------------------------------------------
(* Tasks: manifests whose repository, engines and integrations change and  *)
(* two that are refused; tasks built for each engine, for GitHub, and some *)
(* written by hand; worker configurations, two of them refused.            *)

Manifest == [id |-> "p", shape |-> "ok", runtime |-> "outside", engines |-> {"codex", "claude", "brainstorm"},
             default |-> "auto", capabilities |-> {}, integrations |-> {"github_api"}, repository |-> "gh1",
             gates |-> {"deploy"}, policy |-> "manual_reconcile", type |-> "development", workspaces |-> {}]
MCManifests == {Manifest, [Manifest EXCEPT !.repository = "gh2"],
                [Manifest EXCEPT !.integrations = {}, !.default = "native", !.engines = {"native", "brainstorm"},
                                 !.policy = "safe_retry"],
                [Manifest EXCEPT !.default = "brainstorm"], [Manifest EXCEPT !.runtime = "inside"]}
Request == [project |-> "p", engine |-> {}, text |-> "t", phrases |-> {"claude"}, integrations |-> {},
            request |-> {}, candidates |-> {}, key |-> {}, workspaces |-> {}]
MCRequests == {Request, [Request EXCEPT !.engine = {"brainstorm"}], [Request EXCEPT !.engine = {"hybrid"}],
               [Request EXCEPT !.engine = {"brainstorm"}, !.candidates = {7}],
               [Request EXCEPT !.integrations = {"github_api"}, !.request = {"valid"}, !.key = {"k"}],
               [Request EXCEPT !.engine = {"native"}], [Request EXCEPT !.engine = {"auto"}]}
ByHand == [shape |-> "ok", project |-> "p", repository |-> "gh1", github |-> {}, inline |-> FALSE,
           text |-> "t", commit |-> "c", type |-> "development", profile |-> "hermes", engine |-> {},
           capabilities |-> {"codex"}, integrations |-> {}, request |-> {}, gates |-> {"deploy"},
           policy |-> "safe_retry", output |-> "runtime", brainstorm |-> {}, key |-> {}]
MCHandTasks == {ByHand, [ByHand EXCEPT !.capabilities = {}, !.inline = TRUE, !.commit = "t", !.output = "repo"],
                [ByHand EXCEPT !.engine = {"codex"}, !.integrations = {"github_api"},
                               !.capabilities = {"codex", "github_api"}, !.request = {"valid"}],
                [ByHand EXCEPT !.capabilities = {"github_api"}], [ByHand EXCEPT !.output = "repo"]}
Daemon == [default |-> "codex",
           adapters |-> [codex |-> [kind |-> "codex-run", refs |-> <<>>], claude |-> [kind |-> "claude-agent", refs |-> <<>>],
                         brainstorm |-> [kind |-> "brainstorm", refs |-> <<"claude", "codex">>]]]
MCWorkerConfigs == {Daemon, [Daemon EXCEPT !.default = "hybrid"],
                    [Daemon EXCEPT !.adapters.brainstorm.refs = <<"codex", "codex">>]}
Reply(status, gate, artifacts) == [status |-> status, gate |-> gate, artifacts |-> artifacts]
MCAnswers == {Reply("DONE", {}, "ok"), Reply("WAIT_USER", {"deploy"}, "ok"), Reply("WAIT_USER", {"other"}, "ok"),
              Reply("DONE", {"deploy"}, "bad"), Reply("FAILED", {"deploy"}, "ok")}

-----------------------------------------------------------------------------
(* GitHub and gates.                                                       *)

MCGTasks == [verb : {"pr_create", "pr_list", "x"}, request : {"valid", "bad"}, repository : {"canonical", "other"}]
MCDeclaredGates == [j1 |-> {"a", "b"}, j2 |-> {"a"}]
MCPrefixes == {{"j1"}, {"j1", "j2"}}
=============================================================================
