-------------------------- MODULE GitHubHandler --------------------------
(***************************************************************************)
(* GitHubApiHandler (github_api.py): one job with one request, executed    *)
(* again when its worker dies.  GitHub is external: a call may fail, may   *)
(* do its work and lose the answer, or may answer with something that the  *)
(* handler cannot make sense of; people open and close pull requests       *)
(* meanwhile.  A request whose client died is done or dropped by then, and *)
(* GitHub refuses a second open pull request for one head and base.        *)
(***************************************************************************)
EXTENDS Integers, Sequences

CONSTANTS GTasks,           \* [verb, request, repository]: the job's request
          MaxPulls,         \* pull requests for the head and base, all told
          MaxHandlerRuns    \* how often the job is executed

VARIABLES gTask, gPulls, gEx

gVars == <<gTask, gPulls, gEx>>

GithubVerbs == {"pr_create", "pr_get", "pr_list", "actions_status", "commit_status"}

GInit ==
    /\ gTask \in GTasks
    /\ gPulls = <<>>
    /\ gEx = [pc |-> "start", n |-> 1, answer |-> "none", pull |-> {}]

Finish(answer, pull) == gEx' = [gEx EXCEPT !.pc = "over", !.answer = answer, !.pull = pull]
GoTo(pc) == gEx' = [gEx EXCEPT !.pc = pc]

\* validate_github_api_request and github_task_repository.
RequestValid == gTask.verb \in GithubVerbs /\ gTask.request = "valid" /\ gTask.repository = "canonical"

\* execute: the reading verbs are one call, and only a failed transport makes
\* the job FAILED.
HandleRequest ==
    /\ gEx.pc = "start"
    /\ IF ~RequestValid THEN Finish("BLOCKED", {})
       ELSE IF gTask.verb = "pr_create" THEN GoTo("reconcile")
       ELSE \E a \in {"DONE", "BLOCKED", "FAILED"} : Finish(a, {})
    /\ UNCHANGED <<gTask, gPulls>>

MutantMatching(pulls) == {i \in DOMAIN pulls : pulls[i].open}

\* pr_list(state="all"): every pull request for the head and the base.
Matching(pulls) == DOMAIN pulls

\* _reconcile: exactly one match, open and identified, is the answer; none
\* lets the handler create (before the POST) or give up (after it).
Reconcile(clear) ==
    LET found == Matching(gPulls)
    IN  /\ gEx.pc \in {"reconcile", "reconcile2"}
        /\ IF ~clear THEN Finish("BLOCKED", {})
           ELSE IF found = {} /\ gEx.pc = "reconcile" THEN GoTo("post")
           ELSE IF \E i \in found : found = {i} /\ gPulls[i].open THEN Finish("DONE", found)
           ELSE Finish("BLOCKED", {})
        /\ UNCHANGED <<gTask, gPulls>>

Open == \E i \in DOMAIN gPulls : gPulls[i].open

\* The POST: created and answered, created without a usable answer, or not.
Post(created, answered) ==
    /\ gEx.pc = "post" /\ Len(gPulls) < MaxPulls
    /\ created => ~Open
    /\ answered => created
    /\ gPulls' = IF created THEN Append(gPulls, [open |-> TRUE, byHandler |-> TRUE]) ELSE gPulls
    /\ IF answered THEN Finish("DONE", {Len(gPulls) + 1}) ELSE GoTo("reconcile2")
    /\ UNCHANGED gTask

\* The worker dies; what it was sending may still have been done.
HandlerCrash(created) ==
    /\ gEx.pc # "over" /\ gEx.n < MaxHandlerRuns
    /\ created => gEx.pc = "post" /\ ~Open /\ Len(gPulls) < MaxPulls
    /\ gPulls' = IF created THEN Append(gPulls, [open |-> TRUE, byHandler |-> TRUE]) ELSE gPulls
    /\ gEx' = [gEx EXCEPT !.pc = "start", !.n = @ + 1]
    /\ UNCHANGED gTask

PersonOpens ==
    /\ ~Open /\ Len(gPulls) < MaxPulls
    /\ gPulls' = Append(gPulls, [open |-> TRUE, byHandler |-> FALSE])
    /\ UNCHANGED <<gTask, gEx>>

PersonCloses ==
    /\ \E i \in DOMAIN gPulls : gPulls[i].open /\ gPulls' = [gPulls EXCEPT ![i].open = FALSE]
    /\ UNCHANGED <<gTask, gEx>>

GNext ==
    \/ HandleRequest \/ PersonOpens \/ PersonCloses
    \/ \E b \in BOOLEAN : Reconcile(b) \/ HandlerCrash(b)
    \/ \E b, c \in BOOLEAN : Post(b, c)

GSpec == GInit /\ [][GNext]_gVars

\* The idempotency the handler promises across restarts: one job creates at
\* most one pull request, whatever answers are lost, whenever the worker dies
\* and whoever closes the pull request in between; and a job that is DONE
\* names a pull request that exists (comments of _reconcile and pr_create).
CreatedAtMostOnce ==
    /\ \A i, j \in DOMAIN gPulls : gPulls[i].byHandler /\ gPulls[j].byHandler => i = j
    /\ gEx.answer = "DONE" /\ gTask.verb = "pr_create" => gEx.pull # {} /\ gEx.pull \subseteq DOMAIN gPulls

-----------------------------------------------------------------------------
(***************************************************************************)
(* What makes it inductive: a handler about to POST found no pull request, *)
(* so none there is its own, and only a finished execution has an answer.  *)
(***************************************************************************)
Pull == [open: BOOLEAN, byHandler: BOOLEAN]

GTypeOK ==
    /\ gPulls \in Seq(Pull)
    /\ gEx \in [pc: {"start", "reconcile", "post", "reconcile2", "over"}, n: Nat,
                answer: {"none", "DONE", "BLOCKED", "FAILED"}, pull: SUBSET Nat]

PostsFirst == gEx.pc = "post" => \A i \in DOMAIN gPulls : ~gPulls[i].byHandler

AnswersAtEnd ==
    /\ gEx.pc # "over" => gEx.answer = "none"
    /\ gEx.pc \in {"reconcile", "post", "reconcile2"} => gTask.verb = "pr_create"

HandlerInv == GTypeOK /\ PostsFirst /\ AnswersAtEnd /\ CreatedAtMostOnce
=============================================================================
