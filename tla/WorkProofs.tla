----------------------------- MODULE WorkProofs -----------------------------
(***************************************************************************)
(* Proofs about what happens around the controller's queue: the GitHub     *)
(* handler, the gate bridge, the way of a task from its project to a       *)
(* result, the adapters, the budget of a brainstorm and its workflow.      *)
(***************************************************************************)
EXTENDS Brainstorm, Adapters, TaskBuild, GitHubHandler, GateBridge, TLAPS

-----------------------------------------------------------------------------
(***************************************************************************)
(* GitHubApiHandler                                                        *)
(***************************************************************************)
GPc == {"start", "reconcile", "post", "reconcile2", "over"}
GAnswer == {"none", "DONE", "BLOCKED", "FAILED"}
GExRow == [pc: GPc, n: Nat, answer: GAnswer, pull: SUBSET Nat]

\* A pull request more, and the ones there were.
LEMMA OnePullMore ==
  ASSUME gPulls \in Seq(Pull), NEW p \in Pull
  PROVE  /\ Append(gPulls, p) \in Seq(Pull)
         /\ Len(gPulls) \in Nat /\ DOMAIN gPulls = 1..Len(gPulls)
         /\ DOMAIN Append(gPulls, p) = 1..(Len(gPulls) + 1)
         /\ \A i \in DOMAIN gPulls : Append(gPulls, p)[i] = gPulls[i]
         /\ Append(gPulls, p)[Len(gPulls) + 1] = p
OBVIOUS

\* The handler's own steps that leave GitHub alone.
LEMMA HandlerMovesKeep ==
  ASSUME HandlerInv, UNCHANGED <<gTask, gPulls>>, gEx' \in GExRow,
         gEx'.pc = "post" => \A i \in DOMAIN gPulls : ~gPulls[i].byHandler,
         gEx'.pc # "over" => gEx'.answer = "none",
         gEx'.pc \in {"reconcile", "post", "reconcile2"} => gTask.verb = "pr_create",
         gEx'.answer = "DONE" /\ gTask.verb = "pr_create" => gEx'.pull # {} /\ gEx'.pull \subseteq DOMAIN gPulls
  PROVE  HandlerInv'
BY DEF HandlerInv, GTypeOK, PostsFirst, AnswersAtEnd, CreatedAtMostOnce, GExRow, GPc, GAnswer

\* A pull request is opened, by the handler or by a person.
LEMMA OpenedKeeps ==
  ASSUME HandlerInv, UNCHANGED gTask, gEx' \in GExRow, NEW p \in Pull, gPulls' = Append(gPulls, p),
         p.byHandler => gEx.pc = "post" /\ gEx'.pc # "post",
         gEx'.pc = "post" => gEx.pc = "post",
         gEx'.pc # "over" => gEx'.answer = "none",
         gEx'.pc \in {"reconcile", "post", "reconcile2"} => gTask.verb = "pr_create",
         gEx'.answer = "DONE" => gEx' = gEx \/ gEx'.pull = {Len(gPulls) + 1}
  PROVE  HandlerInv'
<1>1. /\ gPulls' \in Seq(Pull) /\ Len(gPulls) \in Nat /\ DOMAIN gPulls = 1..Len(gPulls)
      /\ DOMAIN gPulls' = 1..(Len(gPulls) + 1)
      /\ \A i \in DOMAIN gPulls : gPulls'[i] = gPulls[i]
      /\ gPulls'[Len(gPulls) + 1] = p
  BY OnePullMore DEF HandlerInv, GTypeOK
<1>2. GTypeOK'
  BY <1>1 DEF GTypeOK, GExRow, GPc, GAnswer
<1>3. DOMAIN gPulls \subseteq DOMAIN gPulls' /\ Len(gPulls) + 1 \in DOMAIN gPulls'
  BY <1>1
<1>4. \A i \in DOMAIN gPulls' : i \in DOMAIN gPulls \/ i = Len(gPulls) + 1
  BY <1>1
<1>5. PostsFirst'
  BY <1>1, <1>4 DEF HandlerInv, PostsFirst
<1>6. \A i, j \in DOMAIN gPulls' : gPulls'[i].byHandler /\ gPulls'[j].byHandler => i = j
  <2>1. p.byHandler => \A i \in DOMAIN gPulls : ~gPulls[i].byHandler
    BY DEF HandlerInv, PostsFirst
  <2> QED BY <1>1, <1>4, <2>1 DEF HandlerInv, CreatedAtMostOnce
<1>7. gEx'.answer = "DONE" /\ gTask'.verb = "pr_create" => gEx'.pull # {} /\ gEx'.pull \subseteq DOMAIN gPulls'
  BY <1>3 DEF HandlerInv, CreatedAtMostOnce
<1> QED BY <1>2, <1>5, <1>6, <1>7 DEF HandlerInv, AnswersAtEnd, CreatedAtMostOnce

\* Every step of the handler, of GitHub and of people keeps the invariant.
LEMMA HandlerStep == HandlerInv /\ [GNext]_gVars => HandlerInv'
<1> SUFFICES ASSUME HandlerInv, [GNext]_gVars PROVE HandlerInv'
  OBVIOUS
<1>0. /\ gEx \in GExRow /\ gPulls \in Seq(Pull) /\ Len(gPulls) \in Nat /\ DOMAIN gPulls = 1..Len(gPulls)
      /\ gEx.pc # "over" => gEx.answer = "none"
      /\ gEx.pc \in {"reconcile", "post", "reconcile2"} => gTask.verb = "pr_create"
  BY DEF HandlerInv, GTypeOK, AnswersAtEnd, GExRow, GPc, GAnswer
<1>1. CASE UNCHANGED gVars
  BY <1>1 DEF gVars, HandlerInv, GTypeOK, PostsFirst, AnswersAtEnd, CreatedAtMostOnce
<1>2. CASE HandleRequest
  <2>0. gEx.pc = "start" /\ UNCHANGED <<gTask, gPulls>>
    BY <1>2 DEF HandleRequest
  <2>1. CASE \E a \in GAnswer : gEx' = [gEx EXCEPT !.pc = "over", !.answer = a, !.pull = {}]
                                /\ (a = "DONE" => gTask.verb # "pr_create")
    <3>1. gEx' \in GExRow /\ gEx'.pc = "over" /\ (gEx'.answer = "DONE" => gTask.verb # "pr_create")
      BY <1>0, <2>1 DEF GExRow, GPc, GAnswer
    <3> QED BY <2>0, <3>1, HandlerMovesKeep
  <2>2. CASE gTask.verb = "pr_create" /\ gEx' = [gEx EXCEPT !.pc = "reconcile"]
    <3>1. gEx' \in GExRow /\ gEx'.pc = "reconcile" /\ gEx'.answer = "none"
      BY <1>0, <2>0, <2>2 DEF GExRow, GPc, GAnswer
    <3> QED BY <2>0, <2>2, <3>1, HandlerMovesKeep
  <2> QED BY <1>2, <2>1, <2>2 DEF HandleRequest, Finish, GoTo, GAnswer
<1>3. ASSUME NEW clear \in BOOLEAN, Reconcile(clear) PROVE HandlerInv'
  <2> DEFINE found == Matching(gPulls)
  <2>0. gEx.pc \in {"reconcile", "reconcile2"} /\ UNCHANGED <<gTask, gPulls>> /\ found \subseteq Nat
        /\ found = DOMAIN gPulls
    BY <1>0, <1>3 DEF Reconcile, Matching
  <2>1. CASE \E a \in {"BLOCKED", "DONE"}, s \in SUBSET Nat :
               /\ gEx' = [gEx EXCEPT !.pc = "over", !.answer = a, !.pull = s]
               /\ a = "DONE" => s # {} /\ s \subseteq DOMAIN gPulls
    <3>1. /\ gEx' \in GExRow /\ gEx'.pc = "over"
          /\ gEx'.answer = "DONE" => gEx'.pull # {} /\ gEx'.pull \subseteq DOMAIN gPulls
      BY <1>0, <2>1 DEF GExRow, GPc, GAnswer
    <3> QED BY <2>0, <3>1, HandlerMovesKeep
  <2>2. CASE found = {} /\ gEx' = [gEx EXCEPT !.pc = "post"]
    <3>1. gEx' \in GExRow /\ gEx'.pc = "post" /\ gEx'.answer = "none"
      BY <1>0, <2>0, <2>2 DEF GExRow, GPc, GAnswer
    <3> QED BY <1>0, <2>0, <2>2, <3>1, HandlerMovesKeep
  <2> QED BY <1>3, <2>0, <2>1, <2>2 DEF Reconcile, Finish, GoTo
<1>4. ASSUME NEW created \in BOOLEAN, NEW answered \in BOOLEAN, Post(created, answered) PROVE HandlerInv'
  <2> DEFINE p == [open |-> TRUE, byHandler |-> TRUE]
  <2>0. /\ gEx.pc = "post" /\ UNCHANGED gTask /\ (answered => created)
        /\ gPulls' = IF created THEN Append(gPulls, p) ELSE gPulls
        /\ \/ answered /\ gEx' = [gEx EXCEPT !.pc = "over", !.answer = "DONE", !.pull = {Len(gPulls) + 1}]
           \/ ~answered /\ gEx' = [gEx EXCEPT !.pc = "reconcile2"]
    BY <1>4 DEF Post, Finish, GoTo
  <2>1. /\ gEx' \in GExRow
        /\ answered => gEx'.pc = "over" /\ gEx'.answer = "DONE" /\ gEx'.pull = {Len(gPulls) + 1}
        /\ ~answered => gEx'.pc = "reconcile2" /\ gEx'.answer = "none"
    <3>1. {Len(gPulls) + 1} \in SUBSET Nat
      BY <1>0
    <3> QED BY <1>0, <2>0, <3>1 DEF GExRow, GPc, GAnswer
  <2>2. CASE created
    <3>1. p \in Pull /\ gPulls' = Append(gPulls, p)
      BY <2>0, <2>2 DEF Pull
    <3> QED BY <1>0, <2>0, <2>1, <3>1, OpenedKeeps
  <2>3. CASE ~created
    BY <1>0, <2>0, <2>1, <2>3, HandlerMovesKeep
  <2> QED BY <2>2, <2>3
<1>5. ASSUME NEW created \in BOOLEAN, HandlerCrash(created) PROVE HandlerInv'
  <2> DEFINE p == [open |-> TRUE, byHandler |-> TRUE]
  <2>0. /\ gEx.pc # "over" /\ (created => gEx.pc = "post") /\ UNCHANGED gTask
        /\ gPulls' = IF created THEN Append(gPulls, p) ELSE gPulls
        /\ gEx' = [gEx EXCEPT !.pc = "start", !.n = gEx.n + 1]
    BY <1>5 DEF HandlerCrash
  <2>1. gEx' \in GExRow /\ gEx'.pc = "start" /\ gEx'.answer = "none"
    <3>1. gEx.n + 1 \in Nat
      BY <1>0 DEF GExRow
    <3> QED BY <1>0, <2>0, <3>1 DEF GExRow, GPc, GAnswer
  <2>2. CASE created
    <3>1. p \in Pull /\ gPulls' = Append(gPulls, p)
      BY <2>0, <2>2 DEF Pull
    <3> QED BY <1>0, <2>0, <2>1, <2>2, <3>1, OpenedKeeps
  <2>3. CASE ~created
    BY <1>0, <2>0, <2>1, <2>3, HandlerMovesKeep
  <2> QED BY <2>2, <2>3
<1>6. CASE PersonOpens
  <2>1. PICK p \in Pull : p = [open |-> TRUE, byHandler |-> FALSE]
    BY DEF Pull
  <2>2. gPulls' = Append(gPulls, p) /\ UNCHANGED <<gTask, gEx>>
    BY <1>6, <2>1 DEF PersonOpens
  <2> QED BY <1>0, <2>1, <2>2, OpenedKeeps
<1>7. CASE PersonCloses
  <2>1. PICK i \in DOMAIN gPulls : gPulls' = [gPulls EXCEPT ![i].open = FALSE]
    BY <1>7 DEF PersonCloses
  <2>2. gPulls' \in Seq(Pull) /\ DOMAIN gPulls' = DOMAIN gPulls
    <3>1. [gPulls[i] EXCEPT !.open = FALSE] \in Pull
      <4>1. gPulls[i] \in Pull
        BY <1>0
      <4> QED BY <4>1 DEF Pull
    <3> QED BY <1>0, <2>1, <3>1
  <2>3. \A j \in DOMAIN gPulls : gPulls'[j].byHandler = gPulls[j].byHandler
    BY <1>0, <2>1 DEF Pull
  <2>4. UNCHANGED <<gTask, gEx>>
    BY <1>7 DEF PersonCloses
  <2> QED BY <2>2, <2>3, <2>4 DEF HandlerInv, GTypeOK, PostsFirst, AnswersAtEnd, CreatedAtMostOnce
<1> QED BY <1>1, <1>2, <1>3, <1>4, <1>5, <1>6, <1>7 DEF GNext

\* One job creates at most one pull request, whatever answers are lost, however often the
\* worker dies and whoever opens or closes pull requests meanwhile; and DONE names a pull
\* request that exists (_reconcile before and after the POST of pr_create).
THEOREM PullCreatedOnce == GSpec => []CreatedAtMostOnce
<1>1. GInit => HandlerInv
  <2> SUFFICES ASSUME GInit PROVE HandlerInv
    OBVIOUS
  <2>1. gPulls = <<>> /\ gEx = [pc |-> "start", n |-> 1, answer |-> "none", pull |-> {}]
    BY DEF GInit
  <2>2. GTypeOK
    BY <2>1 DEF GTypeOK
  <2> QED BY <2>1, <2>2 DEF HandlerInv, PostsFirst, AnswersAtEnd, CreatedAtMostOnce
<1>2. HandlerInv => CreatedAtMostOnce
  BY DEF HandlerInv
<1> QED BY <1>1, <1>2, HandlerStep, PTL DEF GSpec

-----------------------------------------------------------------------------
(***************************************************************************)
(* The gate bridge                                                         *)
(***************************************************************************)
OpFields == {"pc", "seen", "decision", "target", "reply"}

\* What is listed is a declared gate of a waiting job, with the run that asked for it.
LEMMA PendingDeclared ==
  ASSUME BridgeInv, NEW p \in PendingGates
  PROVE  <<p.job, p.gate>> \in GateRefs /\ p.job \in GateJobs /\ p.run \in Nat
<1>1. PICK j \in GateJobs : /\ gbJob[j].state = "WAIT_USER"
                            /\ p = [job |-> j, gate |-> CHOOSE g \in gbJob[j].gate : TRUE, run |-> gbJob[j].run]
  BY DEF PendingGates
<1>2. PICK g \in DeclaredGates[j] : gbJob[j].gate = {g}
  BY <1>1 DEF BridgeInv, WaitsForOne
<1>3. p.job = j /\ p.gate = g /\ p.run = gbJob[j].run /\ p.run \in Nat
  BY <1>1, <1>2 DEF BridgeInv, GBTypeOK
<1> QED BY <1>3 DEF GateRefs

\* A job ends a run: decisions and operators are where they were.
LEMMA JobRunsKeeps ==
  ASSUME BridgeInv, NEW j \in GateJobs, NEW g, g = {} \/ \E x \in DeclaredGates[j] : g = {x}, JobRuns(j, g)
  PROVE  BridgeInv'
<1>1. PICK row : /\ gbJob' = [gbJob EXCEPT ![j] = row]
                 /\ \/ g # {} /\ row = [state |-> "WAIT_USER", gate |-> g, run |-> gbJob[j].run + 1]
                    \/ row = [state |-> "DONE", gate |-> {}, run |-> gbJob[j].run + 1]
  BY DEF JobRuns
<1>2. UNCHANGED <<gbDecision, gbOp>> /\ gbJob[j].state = "QUEUED"
  BY DEF JobRuns
<1>3. gbJob[j].run + 1 \in Nat
  BY DEF BridgeInv, GBTypeOK
<1>4. g \in SUBSET UNION {DeclaredGates[i] : i \in GateJobs}
  OBVIOUS
<1>5. row \in [state: {"QUEUED", "WAIT_USER", "DONE", "CANCELLED"},
               gate: SUBSET UNION {DeclaredGates[i] : i \in GateJobs}, run: Nat]
      /\ (row.state = "WAIT_USER" => row.gate = g /\ g # {}) /\ row.state # "CANCELLED"
  BY <1>1, <1>3, <1>4
<1>6. gbJob'[j] = row /\ \A i \in GateJobs : i # j => gbJob'[i] = gbJob[i]
  BY <1>1 DEF BridgeInv, GBTypeOK
<1>7. GBTypeOK'
  BY <1>1, <1>2, <1>5 DEF BridgeInv, GBTypeOK
<1>8. WaitsForOne'
  BY <1>5, <1>6 DEF BridgeInv, WaitsForOne
<1>9. TargetsDeclared' /\ PostsOne'
  BY <1>2 DEF BridgeInv, TargetsDeclared, PostsOne
<1>10. ConfirmedIsRecorded'
  BY <1>2, <1>6 DEF BridgeInv, ConfirmedIsRecorded
<1> QED BY <1>7, <1>8, <1>9, <1>10 DEF BridgeInv

\* An operator lists, or picks a target: no answer is shown after it.
LEMMA OperatorMovesKeep ==
  ASSUME BridgeInv, NEW o \in Operators, NEW row, gbOp' = [gbOp EXCEPT ![o] = row], DOMAIN row = OpFields,
         UNCHANGED <<gbJob, gbDecision>>, row.reply # "ok",
         \A t \in row.target : t \in PendingGates,
         row.pc = "post" => /\ \E t \in row.target : row.target = {t}
                            /\ row.reply = "none" /\ row.decision \in {"APPROVED", "REJECTED"}
  PROVE  BridgeInv'
<1>1. gbOp'[o] = row /\ DOMAIN gbOp' = Operators /\ \A q \in Operators : q # o => gbOp'[q] = gbOp[q]
  BY DEF BridgeInv, GBTypeOK
<1>2. GBTypeOK' /\ WaitsForOne'
  BY <1>1 DEF BridgeInv, GBTypeOK, WaitsForOne, OpFields
<1>3. TargetsDeclared'
  BY <1>1, PendingDeclared DEF BridgeInv, TargetsDeclared
<1>4. PostsOne'
  BY <1>1 DEF BridgeInv, PostsOne
<1>5. ConfirmedIsRecorded'
  <2>1. gbJob' = gbJob /\ gbDecision' = gbDecision /\ ConfirmedIsRecorded
    BY DEF BridgeInv
  <2>2. \A q \in Operators : gbOp'[q].reply = "ok" => gbOp'[q] = gbOp[q]
    BY <1>1
  <2> HIDE DEF BridgeInv
  <2> QED BY <2>1, <2>2 DEF ConfirmedIsRecorded
<1> QED BY <1>2, <1>3, <1>4, <1>5 DEF BridgeInv

\* The POST: the controller's verdict is what the answer says, unless it is lost.
LEMMA PostKeeps ==
  ASSUME BridgeInv, NEW o \in Operators, NEW lost \in BOOLEAN, PostDecision(o, lost)
  PROVE  BridgeInv'
<1>1. gbOp[o].pc = "post"
  BY DEF PostDecision
<1>2. PICK t \in gbOp[o].target : gbOp[o].target = {t}
  BY <1>1 DEF BridgeInv, PostsOne
<1>3. t = CHOOSE x \in gbOp[o].target : TRUE
  BY <1>2
<1>4. PICK d \in {"APPROVED", "REJECTED"} : d = gbOp[o].decision
  BY <1>1 DEF BridgeInv, PostsOne
<1>5. <<t.job, t.gate>> \in GateRefs /\ t.job \in GateJobs /\ t.run \in Nat
  BY DEF BridgeInv, TargetsDeclared
<1> DEFINE verdict == ResolveGate(t, d)
           reply == IF lost THEN "unavailable" ELSE IF verdict = "conflict" THEN "409" ELSE "ok"
<1>6. /\ gbOp' = [gbOp EXCEPT ![o].pc = "idle", ![o].reply = reply]
      /\ IF verdict # "applied" THEN UNCHANGED <<gbJob, gbDecision>>
         ELSE /\ gbDecision' = [gbDecision EXCEPT ![<<t.job, t.gate>>] = [decision |-> d, run |-> t.run]]
              /\ gbJob' = [gbJob EXCEPT ![t.job].state = IF d = "APPROVED" THEN "QUEUED" ELSE "CANCELLED",
                                        ![t.job].gate = {}]
  BY <1>3, <1>4 DEF PostDecision
<1>7. /\ DOMAIN gbOp' = Operators /\ \A q \in Operators : q # o => gbOp'[q] = gbOp[q]
      /\ DOMAIN gbOp'[o] = OpFields /\ gbOp'[o].pc = "idle" /\ gbOp'[o].reply = reply
      /\ gbOp'[o].target = {t} /\ gbOp'[o].decision = d
  BY <1>2, <1>4, <1>6 DEF BridgeInv, GBTypeOK, OpFields
<1>8. TargetsDeclared' /\ PostsOne'
  BY <1>2, <1>7 DEF BridgeInv, TargetsDeclared, PostsOne
<1>9. CASE verdict # "applied"
  <2>1. UNCHANGED <<gbJob, gbDecision>>
    BY <1>6, <1>9
  <2>2. GBTypeOK' /\ WaitsForOne'
    BY <1>7, <2>1 DEF BridgeInv, GBTypeOK, WaitsForOne, OpFields
  <2>3. reply = "ok" => gbDecision[<<t.job, t.gate>>].decision = d /\ gbDecision[<<t.job, t.gate>>].run = t.run
    BY <1>9 DEF ResolveGate
  <2>4. ConfirmedIsRecorded'
    <3> SUFFICES ASSUME NEW q \in Operators, gbOp'[q].reply = "ok", NEW x \in gbOp'[q].target
                 PROVE  /\ gbDecision[<<x.job, x.gate>>].decision = gbOp'[q].decision
                        /\ gbDecision[<<x.job, x.gate>>].run = x.run
      BY <2>1 DEF BridgeInv, ConfirmedIsRecorded
    <3>1. CASE q = o
      BY <1>7, <2>3, <3>1
    <3>2. CASE q # o
      BY <1>7, <3>2 DEF BridgeInv, ConfirmedIsRecorded
    <3> QED BY <3>1, <3>2
  <2> QED BY <1>8, <2>2, <2>4 DEF BridgeInv
<1>10. CASE verdict = "applied"
  <2>1. gbDecision[<<t.job, t.gate>>] = Undecided /\ gbJob[t.job].state = "WAIT_USER"
    BY <1>10 DEF ResolveGate
  <2>2. /\ gbDecision' = [gbDecision EXCEPT ![<<t.job, t.gate>>] = [decision |-> d, run |-> t.run]]
        /\ gbJob' = [gbJob EXCEPT ![t.job].state = IF d = "APPROVED" THEN "QUEUED" ELSE "CANCELLED",
                                  ![t.job].gate = {}]
    BY <1>6, <1>10
  <2>3. /\ gbDecision' \in [GateRefs -> [decision: GateDecision, run: Nat]]
        /\ gbDecision'[<<t.job, t.gate>>].decision = d /\ gbDecision'[<<t.job, t.gate>>].run = t.run
        /\ \A x \in GateRefs : x # <<t.job, t.gate>> => gbDecision'[x] = gbDecision[x]
    <3>1. [decision |-> d, run |-> t.run] \in [decision: GateDecision, run: Nat]
      BY <1>5 DEF GateDecision
    <3> QED BY <1>5, <2>2, <3>1 DEF BridgeInv, GBTypeOK
  <2>4. /\ gbJob' \in [GateJobs -> [state: {"QUEUED", "WAIT_USER", "DONE", "CANCELLED"},
                                    gate: SUBSET UNION {DeclaredGates[j] : j \in GateJobs}, run: Nat]]
        /\ gbJob'[t.job].state = (IF d = "APPROVED" THEN "QUEUED" ELSE "CANCELLED")
        /\ \A i \in GateJobs : i # t.job => gbJob'[i] = gbJob[i]
    BY <1>5, <2>2 DEF BridgeInv, GBTypeOK
  <2>5. GBTypeOK'
    <3>1. \A q \in Operators : DOMAIN gbOp'[q] = OpFields
      BY <1>7 DEF BridgeInv, GBTypeOK, OpFields
    <3> QED BY <1>7, <2>3, <2>4, <3>1 DEF GBTypeOK, OpFields
  <2>6. WaitsForOne'
    BY <2>4 DEF BridgeInv, WaitsForOne
  <2>7. \A q \in Operators : gbOp'[q].reply = "ok" =>
          \A x \in gbOp'[q].target : /\ gbDecision'[<<x.job, x.gate>>].decision = gbOp'[q].decision
                                     /\ gbDecision'[<<x.job, x.gate>>].run = x.run
    <3> SUFFICES ASSUME NEW q \in Operators, gbOp'[q].reply = "ok", NEW x \in gbOp'[q].target
                 PROVE  /\ gbDecision'[<<x.job, x.gate>>].decision = gbOp'[q].decision
                        /\ gbDecision'[<<x.job, x.gate>>].run = x.run
      OBVIOUS
    <3>1. CASE q = o
      BY <1>7, <2>3, <3>1
    <3>2. CASE q # o
      <4>1. /\ gbDecision[<<x.job, x.gate>>].decision = gbOp[q].decision
            /\ gbDecision[<<x.job, x.gate>>].run = x.run /\ <<x.job, x.gate>> \in GateRefs
        BY <1>7, <3>2 DEF BridgeInv, ConfirmedIsRecorded, TargetsDeclared
      <4>2. CASE <<x.job, x.gate>> # <<t.job, t.gate>>
        BY <1>7, <2>3, <3>2, <4>1, <4>2
      <4>3. CASE <<x.job, x.gate>> = <<t.job, t.gate>>
        <5>1. gbOp[q].decision = "none" /\ x.run = 0
          BY <2>1, <4>1, <4>3 DEF Undecided
        <5> QED BY <1>7, <3>2, <5>1 DEF BridgeInv, PostsOne
      <4> QED BY <4>2, <4>3
    <3> QED BY <3>1, <3>2
  <2>8. \A j \in GateJobs : (\E g \in DeclaredGates[j] : gbDecision'[<<j, g>>].decision = "REJECTED")
                              => gbJob'[j].state = "CANCELLED"
    <3> SUFFICES ASSUME NEW j \in GateJobs, NEW g \in DeclaredGates[j], gbDecision'[<<j, g>>].decision = "REJECTED"
                 PROVE  gbJob'[j].state = "CANCELLED"
      OBVIOUS
    <3>0. <<j, g>> \in GateRefs
      BY DEF GateRefs
    <3>1. CASE <<j, g>> = <<t.job, t.gate>>
      BY <2>3, <2>4, <3>1
    <3>2. CASE <<j, g>> # <<t.job, t.gate>>
      <4>1. gbJob[j].state = "CANCELLED"
        BY <2>3, <3>0, <3>2 DEF BridgeInv, ConfirmedIsRecorded
      <4> QED BY <2>1, <2>4, <4>1
    <3> QED BY <3>1, <3>2
  <2>9. ConfirmedIsRecorded'
    BY <2>7, <2>8 DEF ConfirmedIsRecorded
  <2> QED BY <1>8, <2>5, <2>6, <2>9 DEF BridgeInv
<1> QED BY <1>9, <1>10

\* Every step of the jobs and of the operators keeps the invariant.
LEMMA BridgeStep == BridgeInv /\ [GBNext]_gbVars => BridgeInv'
<1> SUFFICES ASSUME BridgeInv, [GBNext]_gbVars PROVE BridgeInv'
  OBVIOUS
<1>1. CASE UNCHANGED gbVars
  BY <1>1 DEF gbVars, BridgeInv, GBTypeOK, WaitsForOne, TargetsDeclared, PostsOne, ConfirmedIsRecorded
<1>2. ASSUME NEW j \in GateJobs, JobRuns(j, {}) \/ \E g \in DeclaredGates[j] : JobRuns(j, {g}) PROVE BridgeInv'
  BY <1>2, JobRunsKeeps
<1>3. ASSUME NEW o \in Operators, HandleGates(o) PROVE BridgeInv'
  <2>1. PICK row : row = [gbOp[o] EXCEPT !.seen = PendingGates, !.reply = "none", !.target = {}]
    OBVIOUS
  <2>2. gbOp' = [gbOp EXCEPT ![o] = row] /\ gbOp[o].pc = "idle" /\ UNCHANGED <<gbJob, gbDecision>>
    BY <1>3, <2>1 DEF HandleGates, BridgeInv, GBTypeOK
  <2>3. DOMAIN row = OpFields /\ row.reply = "none" /\ row.target = {} /\ row.pc = "idle"
    BY <2>1, <2>2 DEF BridgeInv, GBTypeOK, OpFields
  <2> QED BY <2>2, <2>3, OperatorMovesKeep
<1>4. ASSUME NEW o \in Operators, NEW p \in JobPrefixes, NEW d \in {"APPROVED", "REJECTED"}, HandleGate(o, p, d)
      PROVE  BridgeInv'
  <2> DEFINE matches == {x \in PendingGates : x.job \in p}
  <2>0. gbOp[o].pc = "idle" /\ UNCHANGED <<gbJob, gbDecision>>
    BY <1>4 DEF HandleGate
  <2>1. CASE \E x \in matches : matches = {x}
    <3>1. PICK row : row = [gbOp[o] EXCEPT !.pc = "post", !.decision = d, !.target = matches, !.reply = "none"]
      OBVIOUS
    <3>2. gbOp' = [gbOp EXCEPT ![o] = row]
      BY <1>4, <2>1, <3>1 DEF HandleGate, BridgeInv, GBTypeOK
    <3>3. DOMAIN row = OpFields /\ row.reply = "none" /\ row.target = matches /\ row.decision = d
      BY <3>1 DEF BridgeInv, GBTypeOK, OpFields
    <3> QED BY <2>0, <2>1, <3>2, <3>3, OperatorMovesKeep
  <2>2. CASE ~\E x \in matches : matches = {x}
    <3>1. PICK row : row = [gbOp[o] EXCEPT !.reply = "no gate", !.target = {}]
      OBVIOUS
    <3>2. gbOp' = [gbOp EXCEPT ![o] = row]
      BY <1>4, <2>2, <3>1 DEF HandleGate, BridgeInv, GBTypeOK
    <3>3. DOMAIN row = OpFields /\ row.reply = "no gate" /\ row.target = {} /\ row.pc = "idle"
      BY <2>0, <3>1 DEF BridgeInv, GBTypeOK, OpFields
    <3> QED BY <2>0, <3>2, <3>3, OperatorMovesKeep
  <2> QED BY <2>1, <2>2
<1>5. ASSUME NEW o \in Operators, NEW lost \in BOOLEAN, PostDecision(o, lost) PROVE BridgeInv'
  BY <1>5, PostKeeps
<1> QED BY <1>1, <1>2, <1>3, <1>4, <1>5 DEF GBNext

\* What the bridge confirms is on record, for the gate and the run the operator chose, with
\* any number of operators deciding at once; and a rejected job is never decided on again
\* (bridge.py handle_gate, controller.py _resolve_gate).
THEOREM ConfirmationsAreTrue == GBSpec => []ConfirmedIsRecorded
<1>1. GBInit => BridgeInv
  <2> SUFFICES ASSUME GBInit PROVE BridgeInv
    OBVIOUS
  <2>1. /\ gbJob = [j \in GateJobs |-> [state |-> "QUEUED", gate |-> {}, run |-> 0]]
        /\ gbDecision = [x \in GateRefs |-> Undecided] /\ gbOp = [o \in Operators |-> Idle]
    BY DEF GBInit, GateRefs
  <2>2. Undecided \in [decision: GateDecision, run: Nat] /\ Undecided.decision = "none"
    BY DEF Undecided, GateDecision
  <2>3. /\ DOMAIN Idle = {"pc", "seen", "decision", "target", "reply"}
        /\ Idle.pc = "idle" /\ Idle.target = {} /\ Idle.reply = "none"
    BY DEF Idle
  <2>4. GBTypeOK
    BY <2>1, <2>2, <2>3 DEF GBTypeOK
  <2>5. WaitsForOne /\ TargetsDeclared /\ PostsOne
    BY <2>1, <2>3 DEF WaitsForOne, TargetsDeclared, PostsOne
  <2>6. \A j \in GateJobs : \A g \in DeclaredGates[j] : gbDecision[<<j, g>>] = Undecided
    BY <2>1 DEF GateRefs
  <2>7. ConfirmedIsRecorded
    BY <2>1, <2>2, <2>3, <2>6 DEF ConfirmedIsRecorded
  <2> QED BY <2>4, <2>5, <2>7 DEF BridgeInv
<1>2. BridgeInv => ConfirmedIsRecorded
  BY DEF BridgeInv
<1> QED BY <1>1, <1>2, BridgeStep, PTL DEF GBSpec

-----------------------------------------------------------------------------
(***************************************************************************)
(* From a project to a result                                              *)
(***************************************************************************)
\* The engines by name.
LEMMA EngineNames == KnownEngines = {"codex", "claude", "hybrid", "native", "brainstorm"}
BY DEF KnownEngines, EngineCapabilities

\* The first of four that is allowed.
LEMMA FirstIsAllowed ==
  ASSUME NEW a, NEW b, NEW c, NEW d, NEW allowed, a \in allowed \/ b \in allowed \/ c \in allowed \/ d \in allowed
  PROVE  FirstOf(<<a, b, c, d>>, allowed) \in allowed
<1> DEFINE order == <<a, b, c, d>>
           First(i) == order[i] \in allowed /\ \A j \in 1..(i - 1) : order[j] \notin allowed
<1>1. DOMAIN order = 1..4 /\ order[1] = a /\ order[2] = b /\ order[3] = c /\ order[4] = d
  OBVIOUS
<1>2. \E i \in DOMAIN order : First(i)
  <2>1. CASE a \in allowed
    BY <1>1, <2>1
  <2>2. CASE a \notin allowed /\ b \in allowed
    BY <1>1, <2>2
  <2>3. CASE a \notin allowed /\ b \notin allowed /\ c \in allowed
    BY <1>1, <2>3
  <2>4. CASE a \notin allowed /\ b \notin allowed /\ c \notin allowed /\ d \in allowed
    <3>1. \A j \in 1..(4 - 1) : j = 1 \/ j = 2 \/ j = 3
      OBVIOUS
    <3> QED BY <1>1, <2>4, <3>1
  <2> QED BY <2>1, <2>2, <2>3, <2>4
<1>3. PICK i \in DOMAIN order : i = (CHOOSE n \in DOMAIN order : First(n)) /\ First(i)
  BY <1>2
<1>4. FirstOf(order, allowed) = order[i]
  BY <1>3 DEF FirstOf
<1> QED BY <1>3, <1>4

\* auto never selects an engine that must be asked for by name (select_engine).
LEMMA AutoNeverBrainstorm ==
  ASSUME NEW phrases, NEW allowed \in SUBSET KnownEngines, allowed \ ExplicitOnlyEngines # {}
  PROVE  SelectEngine(phrases, allowed) \in allowed \ ExplicitOnlyEngines
<1> DEFINE free == allowed \ ExplicitOnlyEngines
<1>1. "hybrid" \in free \/ "claude" \in free \/ "codex" \in free \/ "native" \in free
  BY EngineNames DEF ExplicitOnlyEngines
<1>2. PICK order : order = Preference(phrases)
  OBVIOUS
<1>3. \/ order = <<"hybrid", "claude", "codex", "native">>
      \/ order = <<"claude", "codex", "hybrid", "native">>
      \/ order = <<"codex", "claude", "hybrid", "native">>
  BY <1>2 DEF Preference
<1>4. FirstOf(order, free) \in free
  BY <1>1, <1>3, FirstIsAllowed
<1> QED BY <1>2, <1>4 DEF SelectEngine

\* What build_project_task makes keeps to its manifest and its request.
LEMMA BuiltKeepsTo ==
  ASSUME NEW q \in ProjectRequests, NEW m, ValidProject(m), NEW b \in Built(q, m)
  PROVE  b.manifest = m /\ b.request = q /\ BuiltFits(b)
<1>0. PICK t \in BuildTask(q, m) : b = [task |-> t, request |-> q, manifest |-> m]
  BY DEF Built
<1>f. b.task = t /\ b.manifest = m /\ b.request = q
  BY <1>0
<1> DEFINE asked == IF q.engine = {} THEN m.default ELSE The(q.engine)
           only == q.integrations = {"github_api"}
           chosen == IF only THEN {}
                     ELSE IF asked = "auto" THEN {SelectEngine(q.phrases, m.engines)} ELSE {asked}
           config == BuildConfig(IF q.candidates = {} THEN DefaultCandidateCount ELSE The(q.candidates), <<>>)
           base == [shape |-> "ok", project |-> m.id, repository |-> m.repository,
                    github |-> IF only THEN {m.repository} ELSE {}, inline |-> TRUE, text |-> q.text,
                    commit |-> q.text, type |-> m.type, profile |-> "hermes", engine |-> chosen,
                    capabilities |-> m.capabilities \cup q.integrations
                                       \cup UNION {EngineCapabilities[e] : e \in chosen},
                    integrations |-> q.integrations,
                    request |-> IF q.integrations = {} THEN {} ELSE q.request,
                    gates |-> m.gates, policy |-> m.policy, output |-> "runtime", brainstorm |-> {},
                    key |-> q.key]
<1>1. /\ t = IF chosen = {"brainstorm"} THEN ForBrainstorm(base, config) ELSE base
      /\ only \/ asked = "auto" \/ asked \in m.engines
      /\ q.integrations \subseteq m.integrations
  BY DEF BuildTask
<1>2. base.engine = chosen /\ base.gates = m.gates /\ base.integrations = q.integrations
  OBVIOUS
<1>3. /\ ForBrainstorm(base, config).engine = chosen /\ ForBrainstorm(base, config).gates = {}
      /\ ForBrainstorm(base, config).integrations = q.integrations
  BY DEF ForBrainstorm
<1>4. /\ t.engine = chosen /\ t.integrations = q.integrations /\ t.gates \subseteq m.gates
      /\ chosen = {"brainstorm"} => t.gates = {}
  <2>1. CASE chosen = {"brainstorm"}
    <3>1. t = ForBrainstorm(base, config)
      BY <1>1, <2>1
    <3> QED BY <1>3, <2>1, <3>1
  <2>2. CASE chosen # {"brainstorm"}
    <3>1. t = base
      BY <1>1, <2>2
    <3> QED BY <1>2, <2>2, <3>1
  <2> QED BY <2>1, <2>2
<1>5. /\ m.engines \in SUBSET KnownEngines /\ m.default # "brainstorm"
      /\ m.engines \ ExplicitOnlyEngines # {} \/ "brainstorm" \in m.engines
      /\ q.integrations = {} \/ only
  BY <1>1 DEF ValidProject, ExplicitOnlyEngines, KnownIntegrations
<1>6. m.default = "auto" => m.engines \ ExplicitOnlyEngines # {}
  BY DEF ValidProject
<1>7. m.engines \ ExplicitOnlyEngines # {}
  <2>1. CASE m.default = "auto"
    BY <1>6, <2>1
  <2>2. CASE m.default # "auto"
    BY <2>2 DEF ValidProject
  <2> QED BY <2>1, <2>2
<1>8. SelectEngine(q.phrases, m.engines) \in m.engines \ ExplicitOnlyEngines
  BY <1>5, <1>7, AutoNeverBrainstorm
<1>9. chosen \subseteq m.engines /\ (chosen = {} => only) /\ \A e \in chosen : chosen = {e}
  BY <1>1, <1>8
<1>10. q.engine \notin {{}, {"auto"}} /\ q.integrations = {} => chosen = {The(q.engine)}
  BY BuildAssumption DEF The
<1>11. chosen = {"brainstorm"} => q.engine = {"brainstorm"}
  BY <1>5, <1>8, BuildAssumption DEF The, ExplicitOnlyEngines
<1>12. only => "github_api" \in q.integrations
  OBVIOUS
<1> HIDE DEF asked, only, chosen, config, base
<1>13. BuiltFits(b)
  BY <1>f, <1>4, <1>9, <1>10, <1>11, <1>12 DEF BuiltFits
<1> QED BY <1>f, <1>13

\* The three places that work out a task's engine agree on the tasks enqueue lets in.
LEMMA OneEngine ==
  ASSUME NEW t, ValidTask(t)
  PROVE  /\ EnvelopeEngine(t) = TaskEngine(t)
         /\ "github_api" \notin t.integrations => Routed(t) = TaskEngine(t)
         /\ Routed(t) \in KnownEngines
<1>1. t.engine \subseteq KnownEngines
  BY DEF ValidTask
<1>2. t.engine # {} => The(t.engine) \in KnownEngines
  BY <1>1 DEF The
<1>3. "codex" \in KnownEngines /\ "native" \in KnownEngines
  BY EngineNames
<1> QED BY <1>1, <1>2, <1>3 DEF EnvelopeEngine, TaskEngine, Routed

ResultStatuses == {"DONE", "WAIT_USER", "BLOCKED", "FAILED"}

\* _normalize_gate and _normalize_artifacts: what the daemon sends is a result the
\* controller takes, and it waits only for a declared gate.
LEMMA NormalizedIsAccepted ==
  ASSUME NEW t, NEW approved, NEW raw, DOMAIN raw = {"status", "gate", "artifacts"}, raw.status \in ResultStatuses,
         NEW a, a = NormalizeArtifacts(NormalizeGate(raw, t, approved))
  PROVE  /\ a.artifacts = "ok" /\ a.status \in ResultStatuses /\ (a.gate = {} \/ a.gate = raw.gate)
         /\ a.gate \subseteq t.gates
         /\ (a.status = "WAIT_USER") = (a.gate # {} /\ a.gate \subseteq t.gates)
<1>1. PICK n : n = NormalizeGate(raw, t, approved)
  OBVIOUS
<1>2. /\ n.status \in ResultStatuses /\ (n.gate = {} \/ n.gate = raw.gate) /\ n.gate \subseteq t.gates
      /\ (n.status = "WAIT_USER") = (n.gate # {} /\ n.gate \subseteq t.gates)
  <2>1. CASE raw.status # "WAIT_USER"
    BY <1>1, <2>1 DEF NormalizeGate, ResultStatuses
  <2>2. CASE raw.status = "WAIT_USER" /\ raw.gate # {} /\ raw.gate \subseteq t.gates \ approved
    BY <1>1, <2>2 DEF NormalizeGate, ResultStatuses
  <2>3. CASE raw.status = "WAIT_USER" /\ ~(raw.gate # {} /\ raw.gate \subseteq t.gates \ approved)
    BY <1>1, <2>3 DEF NormalizeGate, ResultStatuses
  <2> QED BY <2>1, <2>2, <2>3
<1>3. CASE n.artifacts = "ok"
  BY <1>1, <1>2, <1>3 DEF NormalizeArtifacts
<1>4. CASE n.artifacts # "ok"
  <2>1. a = [status |-> "FAILED", gate |-> {}, artifacts |-> "ok"]
    BY <1>1, <1>4 DEF NormalizeArtifacts
  <2> QED BY <2>1 DEF ResultStatuses
<1> QED BY <1>3, <1>4

\* A job's record after some of its fields were set.
LEMMA JobUpdate ==
  ASSUME NEW jobs \in Seq(JobRow), NEW j \in DOMAIN jobs, NEW row \in JobRow
  PROVE  /\ [jobs EXCEPT ![j] = row] \in Seq(JobRow) /\ DOMAIN [jobs EXCEPT ![j] = row] = DOMAIN jobs
         /\ [jobs EXCEPT ![j] = row][j] = row
         /\ \A i \in DOMAIN jobs : i # j => [jobs EXCEPT ![j] = row][i] = jobs[i]
OBVIOUS

\* What is true of every job, one by one.
JobFits(job) ==
  /\ ValidTask(job.task) /\ IntegrationAtEnqueue(job)
  /\ \A b \in job.from : b.task = job.task /\ BuiltFits(b)
  /\ job.asked \cup job.approved \subseteq job.task.gates
  /\ job.state \in {"WAIT_USER", "NEEDS_RECONCILIATION"} => job.task.gates # {}
  /\ ~job.refused /\ (job.ran # "none" => job.ran = TaskEngine(job.task))

LEMMA JobsOneByOne ==
  BuildInv <=> ProjectsValid /\ pJobs \in Seq(JobRow) /\ \A j \in DOMAIN pJobs : JobFits(pJobs[j])
BY DEF BuildInv, JobsAdmitted, EnginesAgree, JobFits

LEMMA JobsOneByOneAfter ==
  ASSUME ProjectsValid', pJobs' \in Seq(JobRow), \A j \in DOMAIN pJobs' : JobFits(pJobs'[j])
  PROVE  BuildInv'
BY DEF BuildInv, JobsAdmitted, EnginesAgree, JobFits

\* A job moves on: its task and what it was enqueued with stay.
LEMMA JobMovesKeep ==
  ASSUME BuildInv, NEW j \in DOMAIN pJobs, NEW row \in JobRow, pJobs' = [pJobs EXCEPT ![j] = row],
         UNCHANGED <<pProjects, pBuilt, pWorker>>, JobFits(row)
  PROVE  BuildInv'
<1>1. /\ pJobs' \in Seq(JobRow) /\ DOMAIN pJobs' = DOMAIN pJobs /\ pJobs'[j] = row
      /\ \A i \in DOMAIN pJobs : i # j => pJobs'[i] = pJobs[i]
  BY JobUpdate DEF BuildInv, JobsAdmitted
<1>2. ProjectsValid'
  BY DEF BuildInv, ProjectsValid
<1>3. \A i \in DOMAIN pJobs' : JobFits(pJobs'[i])
  BY <1>1, JobsOneByOne
<1> QED BY <1>1, <1>2, <1>3, JobsOneByOneAfter

\* One execution: the envelope is accepted, and labelled with the engine that ran.
LEMMA ExecuteKeeps ==
  ASSUME BuildInv, NEW j \in DOMAIN pJobs, NEW answer \in AdapterAnswers, ExecuteJob(j, answer)
  PROVE  BuildInv'
<1>1. PICK t : t = pJobs[j].task
  OBVIOUS
<1>2. PICK approved : approved = pJobs[j].approved
  OBVIOUS
<1>3. pJobs[j] \in JobRow /\ JobFits(pJobs[j]) /\ ValidTask(t) /\ pJobs \in Seq(JobRow)
  BY <1>1, JobsOneByOne DEF JobFits
<1>4. PICK ran : ran = Ran(t, approved)
  OBVIOUS
<1>5. ran \in KnownEngines \cup {"github_api", "none"} /\ (ran # "none" => ran = TaskEngine(t))
  BY <1>3, <1>4, OneEngine DEF Ran, TaskEngine
<1>6. PICK raw : raw = IF ran = "none" THEN Blocked ELSE answer
  OBVIOUS
<1>7. /\ DOMAIN raw = {"status", "gate", "artifacts"} /\ raw.status \in ResultStatuses
      /\ raw.gate \subseteq AnyGate
  BY <1>6, BuildAssumption DEF Blocked, ResultStatuses, AnyGate
<1>8. PICK a : a = NormalizeArtifacts(NormalizeGate(raw, t, approved))
  OBVIOUS
<1>9. /\ a.artifacts = "ok" /\ a.status \in ResultStatuses /\ (a.gate = {} \/ a.gate = raw.gate)
      /\ a.gate \subseteq t.gates
      /\ (a.status = "WAIT_USER") = (a.gate # {} /\ a.gate \subseteq t.gates)
  BY <1>7, <1>8, NormalizedIsAccepted
<1>10. PICK state : state = Ingest(t, approved, EnvelopeEngine(t), a)
  OBVIOUS
<1>11. state \in ResultStatuses /\ (state = "WAIT_USER" => t.gates # {})
  <2>1. EnvelopeEngine(t) = TaskEngine(t)
    BY <1>3, OneEngine
  <2>2. state = IF a.gate \subseteq approved /\ a.gate # {} THEN "BLOCKED" ELSE a.status
    BY <1>9, <1>10, <2>1 DEF Ingest
  <2> QED BY <1>9, <2>2 DEF ResultStatuses
<1>12. PICK row : row = [pJobs[j] EXCEPT !.state = state, !.ran = ran, !.asked = a.gate, !.refused = (state = "RUNNING")]
  OBVIOUS
<1>13. pJobs' = [pJobs EXCEPT ![j].state = state, ![j].ran = ran, ![j].asked = a.gate, ![j].refused = (state = "RUNNING")]
       /\ UNCHANGED <<pProjects, pBuilt, pWorker>>
  BY <1>1, <1>2, <1>4, <1>6, <1>8, <1>10 DEF ExecuteJob
<1>14. pJobs' = [pJobs EXCEPT ![j] = row]
  BY <1>12, <1>13
<1>15. a.gate \subseteq AnyGate
  BY <1>7, <1>9
<1>16. /\ row \in JobRow /\ row.task = t /\ row.under = pJobs[j].under /\ row.from = pJobs[j].from
       /\ row.state = state /\ row.ran = ran /\ row.asked = a.gate /\ row.approved = pJobs[j].approved /\ ~row.refused
  BY <1>1, <1>3, <1>5, <1>11, <1>12, <1>15 DEF JobRow, ResultStatuses
<1>17. JobFits(row)
  BY <1>1, <1>3, <1>5, <1>9, <1>11, <1>16 DEF JobFits, IntegrationAtEnqueue, ResultStatuses
<1>18. UNCHANGED <<pProjects, pBuilt, pWorker>>
  BY <1>13
<1> QED BY <1>14, <1>16, <1>17, <1>18, JobMovesKeep

\* A gate is approved: the job is queued again or waits to be reconciled.
LEMMA ApproveKeeps ==
  ASSUME BuildInv, NEW j \in DOMAIN pJobs, NEW g \in pJobs[j].asked, ApproveGate(j, g)
  PROVE  BuildInv'
<1>1. PICK state \in {"QUEUED", "NEEDS_RECONCILIATION"} :
        state = IF pJobs[j].task.policy = "safe_retry" THEN "QUEUED" ELSE "NEEDS_RECONCILIATION"
  OBVIOUS
<1>2. PICK row : row = [pJobs[j] EXCEPT !.state = state, !.approved = @ \cup {g}]
  OBVIOUS
<1>3. /\ pJobs[j].state = "WAIT_USER" /\ UNCHANGED <<pProjects, pBuilt, pWorker>>
      /\ pJobs' = [pJobs EXCEPT ![j].state = state, ![j].approved = @ \cup {g}]
  BY <1>1 DEF ApproveGate
<1>4. pJobs' = [pJobs EXCEPT ![j] = row]
  BY <1>2, <1>3
<1>5. pJobs[j] \in JobRow /\ JobFits(pJobs[j])
  BY JobsOneByOne
<1>6. /\ row \in JobRow /\ row.task = pJobs[j].task /\ row.under = pJobs[j].under /\ row.from = pJobs[j].from
      /\ row.ran = pJobs[j].ran /\ row.refused = pJobs[j].refused /\ row.asked = pJobs[j].asked
      /\ row.approved = pJobs[j].approved \cup {g}
  BY <1>2, <1>5 DEF JobRow
<1>7. pJobs[j].task.gates # {} /\ row.asked \cup row.approved \subseteq row.task.gates
  BY <1>3, <1>5, <1>6 DEF JobFits
<1>8. JobFits(row)
  BY <1>5, <1>6, <1>7 DEF JobFits, IntegrationAtEnqueue
<1> QED BY <1>3, <1>4, <1>6, <1>8, JobMovesKeep

\* Projects come from the operator's manifests and are valid.
LEMMA ProjectIsValid ==
  ASSUME BuildInv, NEW id, NEW m \in ProjectOf(id)
  PROVE  m \in Manifests /\ ValidProject(m)
BY DEF BuildInv, ProjectsValid, ProjectOf

\* A task is enqueued: it passed the checks against the project of this moment.
LEMMA EnqueueTaskKeeps ==
  ASSUME BuildInv, NEW t \in AnyTask, NEW from \in SUBSET AnyBuilt, Enqueue(t, from),
         \A b \in from : b.task = t /\ BuiltFits(b)
  PROVE  BuildInv'
<1>1. PICK row : row = [task |-> t, under |-> ProjectOf(t.project), from |-> from, state |-> "QUEUED",
                        asked |-> {}, approved |-> {}, ran |-> "none", refused |-> FALSE]
  OBVIOUS
<1>2. /\ ValidTask(t) /\ IntegrationAllowed(t) /\ pJobs' = Append(pJobs, row)
      /\ UNCHANGED <<pProjects, pBuilt, pWorker>>
  BY <1>1 DEF Enqueue
<1>4. ProjectOf(t.project) \in SUBSET Manifests
  BY ProjectIsValid
<1>5. /\ row \in JobRow /\ row.task = t /\ row.under = ProjectOf(t.project) /\ row.state = "QUEUED"
      /\ row.ran = "none" /\ ~row.refused /\ row.from = from /\ row.asked = {} /\ row.approved = {}
  BY <1>1, <1>4 DEF JobRow
<1>6. /\ pJobs' \in Seq(JobRow)
      /\ \A i \in DOMAIN pJobs' : pJobs'[i] = row \/ (i \in DOMAIN pJobs /\ pJobs'[i] = pJobs[i])
  <2>1. pJobs \in Seq(JobRow)
    BY JobsOneByOne
  <2> QED BY <1>2, <1>5, <2>1
<1>7. ProjectsValid'
  BY <1>2 DEF BuildInv, ProjectsValid
<1>8. t.integrations # {} => \E u \in ProjectOf(t.project) : "github_api" \in u.integrations /\ t.repository = u.repository
  <2>1. t.integrations # {} => t.integrations = {"github_api"}
    BY <1>2 DEF ValidTask, KnownIntegrations
  <2> QED BY <1>2, <2>1 DEF IntegrationAllowed
<1>9. JobFits(row)
  BY <1>2, <1>5, <1>8 DEF JobFits, IntegrationAtEnqueue
<1>10. \A i \in DOMAIN pJobs' : JobFits(pJobs'[i])
  BY <1>6, <1>9, JobsOneByOne
<1> QED BY <1>6, <1>7, <1>10, JobsOneByOneAfter

\* The jobs are left alone: the projects or what was built from one of them changes.
LEMMA ProjectStepKeeps ==
  ASSUME BuildInv, UNCHANGED pJobs, ProjectsValid'
  PROVE  BuildInv'
<1>1. pJobs' \in Seq(JobRow) /\ \A j \in DOMAIN pJobs' : JobFits(pJobs'[j])
  BY JobsOneByOne
<1> QED BY <1>1, JobsOneByOneAfter

\* Every step from a manifest to a result keeps the invariant.
LEMMA BuildStep == BuildInv /\ [PNext]_pVars => BuildInv'
<1> SUFFICES ASSUME BuildInv, [PNext]_pVars PROVE BuildInv'
  OBVIOUS
<1>0. /\ pProjects \in [{m.id : m \in Manifests} -> SUBSET Manifests]
      /\ \A p \in DOMAIN pProjects : \A m \in pProjects[p] : ValidProject(m)
      /\ pBuilt \subseteq AnyBuilt /\ \A b \in pBuilt : BuiltFits(b)
  BY DEF BuildInv, ProjectsValid
<1>1. CASE UNCHANGED pVars
  BY <1>0, <1>1, ProjectStepKeeps DEF pVars, ProjectsValid
<1>2. ASSUME NEW m \in Manifests, RegisterProject(m) PROVE BuildInv'
  <2>1. ValidProject(m) /\ pProjects' = [pProjects EXCEPT ![m.id] = {m}] /\ UNCHANGED <<pBuilt, pJobs, pWorker>>
    BY <1>2 DEF RegisterProject
  <2>2. \A p \in DOMAIN pProjects' : p \in DOMAIN pProjects /\ (pProjects'[p] = {m} \/ pProjects'[p] = pProjects[p])
    BY <1>0, <2>1
  <2>3. pProjects' \in [{x.id : x \in Manifests} -> SUBSET Manifests]
    BY <1>0, <2>1
  <2> QED BY <1>0, <2>1, <2>2, <2>3, ProjectStepKeeps DEF ProjectsValid
<1>3. ASSUME NEW p \in DOMAIN pProjects, RemoveProject(p) PROVE BuildInv'
  <2>1. pProjects' = [pProjects EXCEPT ![p] = {}] /\ UNCHANGED <<pBuilt, pJobs, pWorker>>
    BY <1>3 DEF RemoveProject
  <2>2. \A i \in DOMAIN pProjects' : i \in DOMAIN pProjects /\ pProjects'[i] \subseteq pProjects[i]
    BY <1>0, <2>1
  <2>3. pProjects' \in [{x.id : x \in Manifests} -> SUBSET Manifests]
    BY <1>0, <2>1
  <2> QED BY <1>0, <2>1, <2>2, <2>3, ProjectStepKeeps DEF ProjectsValid
<1>4. ASSUME NEW q \in ProjectRequests, BuildProjectTask(q) PROVE BuildInv'
  <2>1. PICK m : m = The(ProjectOf(q.project))
    OBVIOUS
  <2>2. m \in ProjectOf(q.project) /\ pBuilt' = Built(q, m) /\ UNCHANGED <<pProjects, pJobs, pWorker>>
    BY <1>4, <2>1 DEF BuildProjectTask, The
  <2>3. m \in Manifests /\ ValidProject(m)
    BY <2>2, ProjectIsValid
  <2>4. \A b \in Built(q, m) : BuiltFits(b)
    BY <2>3, BuiltKeepsTo
  <2>5. Built(q, m) \subseteq AnyBuilt
    BY <2>3 DEF AnyBuilt
  <2> QED BY <1>0, <2>2, <2>4, <2>5, ProjectStepKeeps DEF ProjectsValid
<1>5. ASSUME NEW b \in pBuilt, Enqueue(b.task, {b}) PROVE BuildInv'
  <2>1. PICK t \in AnyTask : t = b.task
    BY <1>0 DEF AnyTask
  <2>2. PICK from \in SUBSET AnyBuilt : from = {b}
    BY <1>0
  <2>3. Enqueue(t, from) /\ \A c \in from : c.task = t /\ BuiltFits(c)
    BY <1>0, <1>5, <2>1, <2>2
  <2> QED BY <2>3, EnqueueTaskKeeps
<1>9. ASSUME NEW t \in HandTasks, Enqueue(t, {}) PROVE BuildInv'
  <2>1. PICK from \in SUBSET AnyBuilt : from = {}
    OBVIOUS
  <2>2. t \in AnyTask /\ Enqueue(t, from) /\ \A c \in from : c.task = t /\ BuiltFits(c)
    BY <1>9, <2>1 DEF AnyTask
  <2> QED BY <2>2, EnqueueTaskKeeps
<1>6. ASSUME NEW c \in WorkerConfigs, StartWorker(c) PROVE BuildInv'
  BY <1>0, <1>6, ProjectStepKeeps DEF StartWorker, ProjectsValid
<1>7. ASSUME NEW j \in DOMAIN pJobs, NEW a \in AdapterAnswers, ExecuteJob(j, a) PROVE BuildInv'
  BY <1>7, ExecuteKeeps
<1>8. ASSUME NEW j \in DOMAIN pJobs, NEW g \in pJobs[j].asked, ApproveGate(j, g) PROVE BuildInv'
  BY <1>8, ApproveKeeps
<1> QED BY <1>1, <1>2, <1>3, <1>4, <1>5, <1>6, <1>7, <1>8, <1>9 DEF PNext

\* Nothing is registered, built or enqueued at the start.
LEMMA BuildStart == PInit => BuildInv
<1> SUFFICES ASSUME PInit PROVE BuildInv
  OBVIOUS
<1>1. /\ pProjects = [p \in {m.id : m \in Manifests} |-> {}] /\ pBuilt = {} /\ pJobs = <<>>
  BY DEF PInit
<1>2. ProjectsValid
  BY <1>1 DEF ProjectsValid
<1>3. pJobs \in Seq(JobRow) /\ DOMAIN pJobs = {}
  BY <1>1
<1> QED BY <1>2, <1>3 DEF BuildInv, JobsAdmitted, EnginesAgree

\* Controller, daemon and router work out the same engine for every task enqueue lets in,
\* built or written by hand: no result is refused, and the one accepted carries the label of
\* the engine that ran (_task_engine, _execution_engine_for_task, EngineRoutingAdapter).
THEOREM EnginesAlwaysAgree == PSpec => []EnginesAgree
<1>1. BuildInv => EnginesAgree
  BY DEF BuildInv
<1> QED BY <1>1, BuildStart, BuildStep, PTL DEF PSpec

\* A job that was built for a project runs on an engine or by an integration of the manifest
\* it was built from, on the engine its request names if it names one, waits only at that
\* manifest's gates, and is a brainstorm only when asked for by name; a GitHub job works on
\* the repository its project had when it was enqueued.  For any manifests, requests, worker
\* configurations and answers; what a project withdraws from its engines and gates after
\* the building is not looked at (build_project_task, select_engine, enqueue, ingest_result).
THEOREM JobsAlwaysFitManifest == PSpec => []JobsFitManifest
<1>1. BuildInv => JobsFitManifest
  <2> SUFFICES ASSUME BuildInv, NEW j \in DOMAIN pJobs
               PROVE  /\ pJobs[j].ran = "github_api" =>
                           \E u \in pJobs[j].under : "github_api" \in u.integrations /\ pJobs[j].task.repository = u.repository
                      /\ \A b \in pJobs[j].from :
                           LET m == b.manifest
                               q == b.request
                           IN  /\ pJobs[j].ran \in {"none"} \cup m.engines \cup q.integrations
                               /\ q.engine \notin {{}, {"auto"}} /\ q.integrations = {} => pJobs[j].ran \in {"none", The(q.engine)}
                               /\ pJobs[j].asked \cup pJobs[j].approved \subseteq m.gates
                               /\ pJobs[j].ran = "brainstorm" =>
                                    /\ q.engine = {"brainstorm"}
                                    /\ pJobs[j].state \notin {"WAIT_USER", "NEEDS_RECONCILIATION"}
    BY DEF JobsFitManifest
  <2>1. PICK job : job = pJobs[j]
    OBVIOUS
  <2>2. JobFits(job)
    BY <2>1, JobsOneByOne
  <2>3. PICK t : t = job.task
    OBVIOUS
  <2>4. ValidTask(t) /\ t.engine \subseteq KnownEngines
    BY <2>2, <2>3 DEF JobFits, ValidTask
  <2>5. /\ job.ran = "github_api" => t.integrations # {}
        /\ job.ran \in {"none", "github_api"} \/ job.ran \in t.engine \/ t.engine = {}
        /\ job.ran # "github_api" /\ job.ran # "none" => "github_api" \notin t.integrations
        /\ job.ran = "github_api" => "github_api" \in t.integrations
    <3>1. job.ran = "none" \/ job.ran = TaskEngine(t)
      BY <2>2, <2>3 DEF JobFits
    <3>2. "github_api" \notin KnownEngines
      BY EngineNames
    <3>3. t.engine # {} => The(t.engine) \in t.engine
      BY DEF The
    <3> QED BY <2>4, <3>1, <3>2, <3>3 DEF TaskEngine
  <2>6. job.ran = "github_api" =>
           \E u \in job.under : "github_api" \in u.integrations /\ job.task.repository = u.repository
    BY <2>2, <2>3, <2>5 DEF JobFits, IntegrationAtEnqueue
  <2>7. ASSUME NEW b \in job.from
        PROVE  /\ job.ran \in {"none"} \cup b.manifest.engines \cup b.request.integrations
               /\ b.request.engine \notin {{}, {"auto"}} /\ b.request.integrations = {} => job.ran \in {"none", The(b.request.engine)}
               /\ job.asked \cup job.approved \subseteq b.manifest.gates
               /\ job.ran = "brainstorm" =>
                    /\ b.request.engine = {"brainstorm"}
                    /\ job.state \notin {"WAIT_USER", "NEEDS_RECONCILIATION"}
    <3>1. b.task = t /\ BuiltFits(b) /\ job.asked \cup job.approved \subseteq t.gates
          /\ (job.state \in {"WAIT_USER", "NEEDS_RECONCILIATION"} => t.gates # {})
      BY <2>2, <2>3 DEF JobFits
    <3>2. /\ t.engine \subseteq b.manifest.engines /\ t.gates \subseteq b.manifest.gates
          /\ \A e \in t.engine : t.engine = {e}
          /\ t.integrations = b.request.integrations
          /\ t.engine = {} => "github_api" \in b.request.integrations
          /\ b.request.engine \notin {{}, {"auto"}} /\ b.request.integrations = {} => t.engine = {The(b.request.engine)}
          /\ t.engine = {"brainstorm"} => b.request.engine = {"brainstorm"} /\ t.gates = {}
      BY <3>1 DEF BuiltFits
    <3>3. job.ran = "brainstorm" => t.engine = {"brainstorm"}
      <4>1. job.ran = "brainstorm" => job.ran = TaskEngine(t)
        BY <2>2, <2>3 DEF JobFits
      <4>2. t.engine # {} => The(t.engine) \in t.engine
        BY DEF The
      <4>3. job.ran = "brainstorm" => "brainstorm" \in t.engine
        BY <4>1, <4>2 DEF TaskEngine
      <4> QED BY <4>3, <3>2
    <3> QED BY <2>5, <3>1, <3>2, <3>3
  <2> QED BY <2>1, <2>6, <2>7
<1> QED BY <1>1, BuildStart, BuildStep, PTL DEF PSpec

-----------------------------------------------------------------------------
(***************************************************************************)
(* The adapters and their runners                                          *)
(***************************************************************************)
ExFields == {"pc", "stage", "runner", "n", "answer", "own", "read"}
RunnerFields == {"pc", "stage", "kind", "code", "probe", "tree", "at"}

\* A runner goes on with the stage and the kind it was started with; what it
\* was when its adapter saw it end stays.
RowKept(old, row) ==
  /\ DOMAIN row = RunnerFields /\ row.stage = old.stage /\ row.kind = old.kind /\ row.at \in Nat
  /\ row.pc = "none" <=> old.pc = "none"
  /\ row.pc = "orphan" => row.code # 0
  /\ old.pc \in {"orphan", "exited"} =>
       /\ row.pc \in {"orphan", "exited"} /\ row.code = old.code /\ row.probe = old.probe
       /\ row.tree = old.tree /\ row.at = old.at

RunnersKept == DOMAIN aRunner' = Runners /\ \A r \in Runners : RowKept(aRunner[r], aRunner'[r])

\* What is written comes later than what was there.
OutLater ==
  /\ DOMAIN aOut' = Stages
  /\ \A s \in Stages : \A o \in aOut'[s] :
       /\ aOut'[s] = {o} /\ o.at \in Nat
       /\ aOut'[s] = aOut[s] \/ \A p \in aOut[s] : o.at > p.at
  /\ \A s \in Stages : aOut[s] # {} => aOut'[s] # {}

\* A runner that ends well has just written; one that has read the tree read it as it is.
EndsWell(r) ==
  aRunner'[r].pc = "exited" /\ aRunner'[r].code = 0 /\ aRunner[r].kind # "brainstorm" =>
    \/ aRunner[r].pc = "exited"
    \/ /\ aOut'[aRunner[r].stage] # {}
       /\ \A o \in aOut'[aRunner[r].stage] : o.by = r /\ o.at = aRunner'[r].at

Reads(row) == row.pc = "codex" \/ (row.pc = "exited" /\ row.code = 0)

Saw(r) ==
  Reads(aRunner'[r]) =>
    aRunner'[r].tree = aTree \/ (aRunner'[r].tree = aRunner[r].tree /\ Reads(aRunner[r]))

\* The execution moves on, and waits for no runner afterwards.
LEMMA ExecutionKeeps ==
  ASSUME AdaptersInv, UNCHANGED aTask, OutLater, RunnersKept,
         DOMAIN aEx' = ExFields, aEx'.stage \in Stages, aEx'.pc # "wait", aEx'.runner = {}, StagesFit',
         aEx'.answer # {} => aEx'.pc = "over",
         \A r \in aEx'.own : r \in Runners /\ aRunner'[r].pc \in {"orphan", "exited"},
         DoneIsEarned'
  PROVE  AdaptersInv'
<1>1. AShape'
  BY DEF AdaptersInv, AShape, RunnersKept, RowKept, OutLater, ExFields, RunnerFields
<1>2. RunnersFit'
  BY DEF AdaptersInv, RunnersFit, RunnersKept, RowKept, Hybrid
<1>3. WaitsForOwn' /\ OwnWrote' /\ ReviewIsFresh'
  BY DEF WaitsForOwn, OwnWrote, ReviewIsFresh
<1>4. AnsweredIsOver'
  BY DEF AnsweredIsOver, RunnersKept, RowKept
<1> QED BY <1>1, <1>2, <1>3, <1>4 DEF AdaptersInv

\* The runners move on while the worker does not.
LEMMA RunnersKeep ==
  ASSUME AdaptersInv, UNCHANGED <<aTask, aEx>>, RunnersKept, OutLater, Hybrid => aTree' = aTree,
         \A r \in Runners : EndsWell(r) /\ Saw(r)
  PROVE  AdaptersInv'
<1>1. AShape'
  BY DEF AdaptersInv, AShape, RunnersKept, RowKept, OutLater, RunnerFields
<1>2. StagesFit'
  BY DEF AdaptersInv, StagesFit, Hybrid
<1>3. RunnersFit'
  BY DEF AdaptersInv, RunnersFit, RunnersKept, RowKept, Hybrid
<1>4. WaitsForOwn'
  BY DEF AdaptersInv, WaitsForOwn, RunnersKept, RowKept
<1>k. \A r \in Runners : RowKept(aRunner[r], aRunner'[r])
  BY DEF RunnersKept
<1>5. OwnWrote'
  <2> SUFFICES ASSUME aEx.pc = "wait", NEW r \in aEx.runner, aRunner'[r].pc = "exited", aRunner'[r].code = 0,
                      aRunner'[r].kind # "brainstorm"
               PROVE  /\ aOut'[aEx.stage] # {}
                      /\ \A o \in aOut'[aEx.stage] : o.by = r \/ o.at > aRunner'[r].at
                      /\ \A o \in aOut'[aEx.stage] : o.at >= aRunner'[r].at
    BY DEF OwnWrote
  <2>1. /\ r \in Runners /\ aRunner[r].stage = aEx.stage /\ aEx.stage \in Stages
    BY DEF AdaptersInv, WaitsForOwn, AShape
  <2>2. aRunner[r].kind # "brainstorm" /\ aRunner'[r].at \in Nat
    BY <1>k, <2>1 DEF RowKept
  <2>3. CASE aRunner[r].pc # "exited"
    <3>1. /\ aOut'[aEx.stage] # {}
          /\ \A o \in aOut'[aEx.stage] : o.by = r /\ o.at = aRunner'[r].at
      BY <2>1, <2>2, <2>3 DEF EndsWell
    <3> QED BY <2>2, <3>1
  <2>4. CASE aRunner[r].pc = "exited"
    <3>1. aRunner'[r].code = aRunner[r].code /\ aRunner'[r].at = aRunner[r].at
      BY <1>k, <2>1, <2>4 DEF RowKept
    <3>2. /\ aOut[aEx.stage] # {}
          /\ \A o \in aOut[aEx.stage] : o.by = r \/ o.at > aRunner[r].at
          /\ \A o \in aOut[aEx.stage] : o.at >= aRunner[r].at
      BY <2>2, <2>4, <3>1 DEF AdaptersInv, OwnWrote
    <3>3. aOut'[aEx.stage] # {}
      BY <2>1, <3>2 DEF OutLater
    <3>4. ASSUME NEW o \in aOut'[aEx.stage]
          PROVE  (o.by = r \/ o.at > aRunner[r].at) /\ o.at >= aRunner[r].at
      <4>1. CASE aOut'[aEx.stage] = aOut[aEx.stage]
        BY <3>2, <3>4, <4>1
      <4>2. CASE aOut'[aEx.stage] # aOut[aEx.stage]
        <5>1. PICK p \in aOut[aEx.stage] : p.at >= aRunner[r].at
          BY <3>2
        <5>2. o.at > p.at /\ o.at \in Nat
          BY <2>1, <3>4, <4>2 DEF OutLater
        <5>3. p.at \in Nat /\ aRunner[r].at \in Nat
          BY <2>1 DEF AdaptersInv, AShape
        <5> QED BY <5>1, <5>2, <5>3
      <4> QED BY <4>1, <4>2
    <3> QED BY <3>1, <3>3, <3>4
  <2> QED BY <2>3, <2>4
<1>6. ReviewIsFresh'
  <2> SUFFICES ASSUME Hybrid, aEx.pc = "wait", NEW r \in aEx.runner,
                      aRunner'[r].pc = "codex" \/ (aRunner'[r].pc = "exited" /\ aRunner'[r].code = 0)
               PROVE  aRunner'[r].tree = aTree'
    BY DEF ReviewIsFresh, Hybrid
  <2>1. r \in Runners /\ aTree' = aTree
    BY DEF AdaptersInv, WaitsForOwn
  <2>2. aRunner'[r].tree = aTree \/ (aRunner'[r].tree = aRunner[r].tree /\ Reads(aRunner[r]))
    BY <2>1 DEF Saw, Reads
  <2>3. Reads(aRunner[r]) => aRunner[r].tree = aTree
    BY DEF AdaptersInv, ReviewIsFresh, Reads
  <2> QED BY <2>1, <2>2, <2>3
<1>7. AnsweredIsOver'
  <2>1. /\ aEx.answer # {} => aEx.pc = "over"
        /\ \A r \in aEx.own : r \in Runners /\ aRunner[r].pc \in {"orphan", "exited"}
    BY DEF AdaptersInv, AnsweredIsOver
  <2>2. \A r \in Runners : aRunner'[r].pc = "orphan" => aRunner'[r].code # 0
    BY <1>k DEF RowKept
  <2>3. \A r \in aEx.own : r \in Runners /\ aRunner'[r].pc \in {"orphan", "exited"}
    BY <1>k, <2>1 DEF RowKept
  <2> QED BY <2>1, <2>2, <2>3 DEF AnsweredIsOver
<1>8. DoneIsEarned'
  <2> SUFFICES ASSUME aEx.answer = {"DONE"} PROVE DoneIsEarned'
    BY DEF DoneIsEarned
  <2>1. ASSUME NEW r \in aEx.own
        PROVE  /\ aRunner'[r].code = aRunner[r].code /\ aRunner'[r].probe = aRunner[r].probe
               /\ aRunner'[r].tree = aRunner[r].tree /\ aRunner'[r].stage = aRunner[r].stage
               /\ ReadOwnOrLater(r)' <=> ReadOwnOrLater(r)
    <3>1. r \in Runners /\ aRunner[r].pc \in {"orphan", "exited"}
      BY DEF AdaptersInv, AnsweredIsOver
    <3>2. /\ aRunner'[r].code = aRunner[r].code /\ aRunner'[r].probe = aRunner[r].probe
          /\ aRunner'[r].tree = aRunner[r].tree /\ aRunner'[r].stage = aRunner[r].stage
          /\ aRunner'[r].at = aRunner[r].at
      BY <1>k, <3>1 DEF RowKept
    <3> QED BY <3>2 DEF ReadOwnOrLater
  <2>2. CASE RouteOf(aTask) \in {"codex", "native"}
    BY <2>1, <2>2 DEF AdaptersInv, DoneIsEarned
  <2>3. CASE RouteOf(aTask) = "hybrid"
    BY <2>1, <2>3 DEF AdaptersInv, DoneIsEarned, Hybrid
  <2>4. CASE RouteOf(aTask) = "brainstorm"
    BY <2>1, <2>4 DEF AdaptersInv, DoneIsEarned
  <2>5. CASE RouteOf(aTask) \notin {"codex", "native", "hybrid", "brainstorm"}
    BY <2>5 DEF AdaptersInv, DoneIsEarned, ClaudeRefuses
  <2> QED BY <2>2, <2>3, <2>4, <2>5
<1> QED BY <1>1, <1>2, <1>3, <1>4, <1>5, <1>6, <1>7, <1>8 DEF AdaptersInv

\* Steps that leave the runners, or the files, alone.
LEMMA RunnersStay == ASSUME AdaptersInv, UNCHANGED aRunner PROVE RunnersKept
<1>1. \A r \in Runners : aRunner[r].pc = "orphan" => aRunner[r].code # 0
  BY DEF AdaptersInv, AnsweredIsOver
<1>2. AShape
  BY DEF AdaptersInv
<1> QED BY <1>1, <1>2 DEF AShape, RunnersKept, RowKept, RunnerFields

LEMMA OutStays == ASSUME AdaptersInv, UNCHANGED aOut PROVE OutLater
BY DEF AdaptersInv, AShape, OutLater

\* One runner takes a step, by which it does not end well.
LEMMA RunnerGoes ==
  ASSUME AdaptersInv, UNCHANGED <<aTask, aEx>>, OutLater, Hybrid => aTree' = aTree, NEW r \in Runners,
         DOMAIN aRunner' = Runners, \A q \in Runners : q # r => aRunner'[q] = aRunner[q],
         RowKept(aRunner[r], aRunner'[r]), EndsWell(r), Saw(r)
  PROVE  AdaptersInv'
<1>1. \A q \in Runners : aRunner[q].pc = "orphan" => aRunner[q].code # 0
  BY DEF AdaptersInv, AnsweredIsOver
<1>2. AShape
  BY DEF AdaptersInv
<1>3. \A q \in Runners : RowKept(aRunner[q], aRunner[q])
  BY <1>1, <1>2 DEF AShape, RowKept, RunnerFields
<1>4. RunnersKept
  BY <1>3 DEF RunnersKept
<1>5. \A q \in Runners : EndsWell(q) /\ Saw(q)
  <2> SUFFICES ASSUME NEW q \in Runners, q # r PROVE EndsWell(q) /\ Saw(q)
    OBVIOUS
  <2>1. aRunner'[q] = aRunner[q]
    OBVIOUS
  <2> QED BY <2>1 DEF EndsWell, Saw
<1> QED BY <1>4, <1>5, RunnersKeep

\* Argument checks and acquire_lock: a runner that ends there ends badly.
LEMMA LockStepKeeps ==
  ASSUME AdaptersInv, NEW r \in Runners, aRunner[r].pc \notin {"none", "codex", "orphan", "exited"},
         UNCHANGED <<aTask, aEx, aOut, aTree>>,
         NEW pc, pc \notin {"none", "codex", "orphan", "exited"}, NEW code, code # 0,
         \/ RunnerTo(r, pc) \/ RunnerExits(r, code)
         \/ aRunner' = [aRunner EXCEPT ![r].pc = "codex", ![r].tree = aTree]
  PROVE  AdaptersInv'
<1>0. AShape /\ aRunner[r].at \in Nat
  BY DEF AdaptersInv, AShape
<1>1. DOMAIN aRunner' = Runners /\ \A q \in Runners : q # r => aRunner'[q] = aRunner[q]
  BY <1>0 DEF AShape, RunnerTo, RunnerExits
<1>2. /\ DOMAIN aRunner'[r] = RunnerFields /\ aRunner'[r].stage = aRunner[r].stage
      /\ aRunner'[r].kind = aRunner[r].kind /\ aRunner'[r].at = aRunner[r].at
      /\ \/ aRunner'[r].pc = pc
         \/ aRunner'[r].pc = "exited" /\ aRunner'[r].code = code
         \/ aRunner'[r].pc = "codex" /\ aRunner'[r].tree = aTree
  <2>1. CASE RunnerTo(r, pc)
    BY <1>0, <2>1 DEF AShape, RunnerTo, RunnerFields
  <2>2. CASE RunnerExits(r, code)
    BY <1>0, <2>2 DEF AShape, RunnerExits, RunnerFields
  <2>3. CASE aRunner' = [aRunner EXCEPT ![r].pc = "codex", ![r].tree = aTree]
    BY <1>0, <2>3 DEF AShape, RunnerFields
  <2> QED BY <2>1, <2>2, <2>3
<1>3. RowKept(aRunner[r], aRunner'[r])
  BY <1>0, <1>2 DEF RowKept
<1>4. EndsWell(r) /\ Saw(r)
  BY <1>2 DEF EndsWell, Saw, Reads
<1> QED BY <1>1, <1>3, <1>4, OutStays, RunnerGoes

\* An answer ends the execution; otherwise the next stage of the hybrid engine begins.
LEMMA HybridStepCases ==
  ASSUME AShape, NEW stage \in Stages, NEW status \in Statuses, NEW x, x = HybridStep(stage, status)
  PROVE  /\ DOMAIN x = ExFields /\ x.read = aEx.read /\ x.runner = {}
         /\ \/ /\ x.pc = "over" /\ x.answer = {status} /\ x.own = aEx.runner /\ x.stage = aEx.stage
               /\ status = "DONE" => stage = Only \/ stage[1] = "review"
            \/ /\ stage # Only /\ x.answer = aEx.answer /\ x.own = aEx.own /\ x.stage \in Stages
               /\ (x.pc = "launch" /\ x.stage[1] = "review") \/ (x.pc = "claude" /\ x.stage[1] = "fix")
<1>0. DOMAIN aEx = ExFields
  BY DEF AShape, ExFields
<1>1. CASE x = Answer(status) /\ (status = "DONE" => stage = Only \/ stage[1] = "review")
  BY <1>0, <1>1 DEF Answer, ExFields
<1>R. ASSUME NEW pc, NEW s, x = RunStage(pc, s)
      PROVE  /\ DOMAIN x = ExFields /\ x.read = aEx.read /\ x.runner = {} /\ x.answer = aEx.answer
             /\ x.own = aEx.own /\ x.stage = s /\ x.pc = pc
  BY <1>0, <1>R DEF RunStage, ExFields
<1>2. CASE stage # Only /\ \E s \in Stages : x = RunStage("launch", s) /\ s[1] = "review"
  <2>1. PICK s \in Stages : x = RunStage("launch", s) /\ s[1] = "review"
    BY <1>2
  <2>2. /\ DOMAIN x = ExFields /\ x.read = aEx.read /\ x.runner = {} /\ x.answer = aEx.answer
        /\ x.own = aEx.own /\ x.stage = s /\ x.pc = "launch"
    BY <2>1, <1>R
  <2>3. x.stage[1] = "review" /\ x.stage \in Stages /\ stage # Only
    BY <1>2, <2>1, <2>2
  <2> QED BY <2>2, <2>3, Zenon
<1>3. CASE stage # Only /\ \E s \in Stages : x = RunStage("claude", s) /\ s[1] = "fix"
  BY <1>3, <1>R
<1>4. \/ stage = Only \/ stage = <<"primary", 0>>
      \/ \E i \in 0..MaxReviewRounds : stage = <<"review", i>> \/ stage = <<"fix", i>>
  BY DEF Stages
<1>5. Only = <<"only", 0>> /\ MaxReviewRounds \in Nat
  BY AdapterAssumption DEF Only
<1>6. CASE stage = Only
  <2>1. stage[1] = "only"
    BY <1>5, <1>6
  <2> QED BY <1>1, <1>6, <2>1 DEF HybridStep
<1>7. CASE stage = <<"primary", 0>>
  <2>0. stage # Only /\ stage[1] = "primary"
    BY <1>5, <1>7
  <2>1. CASE status # "DONE"
    BY <1>1, <2>0, <2>1 DEF HybridStep
  <2>2. CASE status = "DONE"
    <3>1. x = RunStage("launch", <<"review", 0>>)
      BY <2>0, <2>2 DEF HybridStep
    <3>2. <<"review", 0>> \in Stages /\ <<"review", 0>>[1] = "review"
      BY <1>5 DEF Stages
    <3> QED BY <1>2, <2>0, <3>1, <3>2
  <2> QED BY <2>1, <2>2
<1>8. ASSUME NEW i \in 0..MaxReviewRounds, stage = <<"fix", i>>
      PROVE  (x = Answer(status) /\ status # "DONE") \/ \E s \in Stages : x = RunStage("launch", s) /\ s[1] = "review"
  <2>0. stage # Only /\ stage[1] = "fix" /\ stage[2] = i
    BY <1>5, <1>8
  <2>1. CASE status # "DONE"
    BY <2>0, <2>1 DEF HybridStep
  <2>2. CASE status = "DONE"
    <3>1. x = RunStage("launch", <<"review", i>>)
      BY <2>0, <2>2 DEF HybridStep
    <3>2. <<"review", i>> \in Stages /\ <<"review", i>>[1] = "review"
      BY DEF Stages
    <3> QED BY <3>1, <3>2
  <2> QED BY <2>1, <2>2
<1>9. ASSUME NEW i \in 0..MaxReviewRounds, stage = <<"review", i>>
      PROVE  x = Answer(status) \/ \E s \in Stages : x = RunStage("claude", s) /\ s[1] = "fix"
  <2>0. stage # Only /\ stage[1] = "review" /\ stage[2] = i
    BY <1>5, <1>9
  <2>1. CASE status # "BLOCKED" \/ i >= MaxReviewRounds
    BY <2>0, <2>1 DEF HybridStep
  <2>2. CASE ~(status # "BLOCKED" \/ i >= MaxReviewRounds)
    <3>1. x = RunStage("claude", <<"fix", i + 1>>)
      BY <2>0, <2>2 DEF HybridStep
    <3>2. <<"fix", i + 1>> \in Stages /\ <<"fix", i + 1>>[1] = "fix"
      BY <1>5, <2>2 DEF Stages
    <3> QED BY <3>1, <3>2
  <2> QED BY <2>1, <2>2
<1> QED BY <1>1, <1>2, <1>3, <1>4, <1>5, <1>6, <1>7, <1>8, <1>9

\* A stage ends without DONE having been read: refused, failed, timed out, or Claude's.
LEMMA StageEndsKeeps ==
  ASSUME AdaptersInv, UNCHANGED aTask, OutLater, RunnersKept, NEW status \in Statuses,
         aEx.pc \in {"claude", "launch", "wait"}, aEx' = HybridStep(aEx.stage, status),
         status = "DONE" => aEx.pc = "claude" /\ ~ClaudeRefuses,
         \A r \in aEx.runner : r \in Runners /\ aRunner'[r].pc \in {"orphan", "exited"}
  PROVE  AdaptersInv'
<1>0. AShape /\ aEx.stage \in Stages
  BY DEF AdaptersInv, AShape
<1>1. /\ DOMAIN aEx' = ExFields /\ aEx'.runner = {}
      /\ \/ /\ aEx'.pc = "over" /\ aEx'.answer = {status} /\ aEx'.own = aEx.runner /\ aEx'.stage = aEx.stage
            /\ status = "DONE" => aEx.stage = Only \/ aEx.stage[1] = "review"
         \/ /\ aEx.stage # Only /\ aEx'.answer = aEx.answer /\ aEx'.own = aEx.own /\ aEx'.stage \in Stages
            /\ (aEx'.pc = "launch" /\ aEx'.stage[1] = "review") \/ (aEx'.pc = "claude" /\ aEx'.stage[1] = "fix")
  BY <1>0, HybridStepCases
<1>2. aEx.answer = {}
  BY DEF AdaptersInv, AnsweredIsOver
<1>3. \A r \in aEx'.own : r \in Runners /\ aRunner'[r].pc \in {"orphan", "exited"}
  <2>1. \A r \in aEx.own : r \in Runners /\ aRunner[r].pc \in {"orphan", "exited"}
    BY DEF AdaptersInv, AnsweredIsOver
  <2>2. \A r \in aEx.own : r \in Runners /\ aRunner'[r].pc \in {"orphan", "exited"}
    BY <2>1 DEF RunnersKept, RowKept
  <2> QED BY <1>1, <2>2
<1>4. RouteOf(aTask) \in DOMAIN AdapterKind /\ (aEx.stage # Only => Hybrid)
  BY DEF AdaptersInv, StagesFit
<1>5. StagesFit'
  <2>1. CASE aEx'.pc = "over"
    BY <2>1 DEF StagesFit
  <2>2. CASE aEx'.pc # "over"
    BY <1>1, <1>4, <2>2 DEF StagesFit, Hybrid
  <2> QED BY <2>1, <2>2
<1>6. DoneIsEarned'
  <2> SUFFICES ASSUME aEx'.answer = {"DONE"} PROVE DoneIsEarned'
    BY DEF DoneIsEarned
  <2>1. /\ status = "DONE" /\ aEx.pc = "claude" /\ (aEx.stage = Only \/ aEx.stage[1] = "review")
        /\ ~ClaudeRefuses
    BY <1>1, <1>2
  <2>2. ~Hybrid
    <3>1. Only[1] = "only"
      BY DEF Only
    <3> QED BY <2>1, <3>1 DEF AdaptersInv, StagesFit
  <2>3. RouteOf(aTask) = "claude"
    BY <2>1, <2>2 DEF AdaptersInv, StagesFit
  <2> QED BY <2>1, <2>3 DEF DoneIsEarned, ClaudeRefuses
<1>7. aEx'.stage \in Stages /\ aEx'.pc # "wait" /\ (aEx'.answer # {} => aEx'.pc = "over")
  BY <1>0, <1>1, <1>2
<1> QED BY <1>1, <1>3, <1>5, <1>6, <1>7, ExecutionKeeps

\* The adapter routes the task.
LEMMA RouteKeeps == ASSUME AdaptersInv, Route PROVE AdaptersInv'
<1> DEFINE e == RouteOf(aTask)
<1>0. /\ aEx.pc = "route" /\ UNCHANGED <<aTask, aRunner, aLock, aOut, aTree>> /\ aEx.stage \in Stages
      /\ DOMAIN aEx = ExFields /\ aEx.runner = {} /\ aEx.answer = {}
  BY DEF Route, AdaptersInv, AShape, ExFields, WaitsForOwn, AnsweredIsOver
<1>1. \A r \in aEx.own : r \in Runners /\ aRunner'[r].pc \in {"orphan", "exited"}
  BY <1>0 DEF AdaptersInv, AnsweredIsOver
<1>2. CASE e \notin DOMAIN AdapterKind
  <2>1. aEx' = Answer("BLOCKED")
    BY <1>2 DEF Route
  <2>2. /\ DOMAIN aEx' = ExFields /\ aEx'.pc = "over" /\ aEx'.answer = {"BLOCKED"} /\ aEx'.own = {}
        /\ aEx'.runner = {} /\ aEx'.stage = aEx.stage
    BY <1>0, <2>1 DEF Answer, ExFields
  <2>3. StagesFit' /\ DoneIsEarned'
    BY <2>2 DEF StagesFit, DoneIsEarned
  <2> QED BY <1>0, <2>2, <2>3, RunnersStay, OutStays, ExecutionKeeps
<1>3. ASSUME NEW pc \in {"claude", "launch"}, NEW s \in Stages, aEx' = RunStage(pc, s), e \in DOMAIN AdapterKind,
             \/ pc = "claude" /\ e = "claude" /\ s = Only
             \/ pc = "claude" /\ e = "hybrid" /\ s[1] = "primary"
             \/ pc = "launch" /\ e \notin {"hybrid", "claude"} /\ s = Only
      PROVE  AdaptersInv'
  <2>1. /\ DOMAIN aEx' = ExFields /\ aEx'.pc = pc /\ aEx'.answer = {} /\ aEx'.own = aEx.own
        /\ aEx'.runner = {} /\ aEx'.stage = s
    BY <1>0, <1>3 DEF RunStage, ExFields
  <2>2. StagesFit'
    BY <1>0, <1>3, <2>1 DEF StagesFit, Hybrid
  <2>3. DoneIsEarned'
    BY <2>1 DEF DoneIsEarned
  <2> QED BY <1>0, <1>1, <2>1, <2>2, <2>3, RunnersStay, OutStays, ExecutionKeeps
<1>4. Only \in Stages /\ <<"primary", 0>> \in Stages /\ <<"primary", 0>>[1] = "primary"
  BY DEF Stages
<1>5. e \in DOMAIN AdapterKind =>
        \/ aEx' = RunStage("claude", Only) /\ e = "claude"
        \/ aEx' = RunStage("claude", <<"primary", 0>>) /\ e = "hybrid"
        \/ aEx' = RunStage("launch", Only) /\ e \notin {"hybrid", "claude"}
  BY DEF Route
<1> QED BY <1>2, <1>3, <1>4, <1>5

\* A runner is started for the stage, or refused.
LEMMA LaunchKeeps == ASSUME AdaptersInv, NEW r \in Runners, Launch(r) PROVE AdaptersInv'
<1>0. /\ aEx.pc = "launch" /\ aRunner[r].pc = "none" /\ UNCHANGED <<aTask, aLock, aOut, aTree>>
      /\ AShape /\ aEx.runner = {}
  BY DEF Launch, AdaptersInv, WaitsForOwn
<1>1. CASE AdapterRefuses
  <2>1. aEx' = HybridStep(aEx.stage, "BLOCKED") /\ UNCHANGED aRunner /\ "BLOCKED" \in Statuses
    BY <1>1 DEF Launch, Statuses
  <2> QED BY <1>0, <2>1, RunnersStay, OutStays, StageEndsKeeps
<1>2. CASE ~AdapterRefuses
  <2>1. PICK row : row = [NoRunner EXCEPT !.pc = "start", !.stage = aEx.stage, !.kind = KindOf(RouteOf(aTask))]
    OBVIOUS
  <2>2. aEx' = [aEx EXCEPT !.pc = "wait", !.runner = {r}] /\ aRunner' = [aRunner EXCEPT ![r] = row]
    BY <1>2, <2>1 DEF Launch
  <2>3. /\ DOMAIN row = RunnerFields /\ row.pc = "start" /\ row.stage = aEx.stage
        /\ row.kind = KindOf(RouteOf(aTask)) /\ row.at = 0
    BY <2>1 DEF NoRunner, RunnerFields
  <2>4. /\ DOMAIN aEx' = ExFields /\ aEx'.pc = "wait" /\ aEx'.runner = {r} /\ aEx'.stage = aEx.stage
        /\ aEx'.answer = aEx.answer /\ aEx'.own = aEx.own /\ aEx'.read = aEx.read
    BY <1>0, <2>2 DEF AShape, ExFields
  <2>5. aRunner'[r] = row /\ DOMAIN aRunner' = Runners /\ \A q \in Runners : q # r => aRunner'[q] = aRunner[q]
    BY <1>0, <2>2 DEF AShape
  <2>6. aEx.answer = {} /\ aEx.stage \in Stages
    BY <1>0 DEF AdaptersInv, AnsweredIsOver, AShape
  <2>7. AShape'
    BY <1>0, <2>3, <2>4, <2>5, <2>6 DEF AShape, ExFields, RunnerFields
  <2>8. StagesFit'
    BY <1>0, <2>4 DEF AdaptersInv, StagesFit, Hybrid
  <2>9. RunnersFit'
    BY <1>0, <2>3, <2>5 DEF AdaptersInv, RunnersFit, StagesFit, Hybrid
  <2>10. WaitsForOwn' /\ OwnWrote' /\ ReviewIsFresh'
    BY <2>3, <2>4, <2>5 DEF WaitsForOwn, OwnWrote, ReviewIsFresh
  <2>11. AnsweredIsOver'
    BY <1>0, <2>3, <2>4, <2>5, <2>6 DEF AdaptersInv, AnsweredIsOver
  <2>12. DoneIsEarned'
    BY <2>4, <2>6 DEF DoneIsEarned
  <2> QED BY <2>7, <2>8, <2>9, <2>10, <2>11, <2>12 DEF AdaptersInv
<1> QED BY <1>1, <1>2

\* A status is read from what the runner left.
LEMMA ReadStatus ==
  ASSUME NEW code, NEW out, NEW probe
  PROVE  /\ ReadResult(code, out) \in Statuses /\ StructuredStatus(code, probe) \in Statuses
         /\ ReadResult(code, out) = "DONE" => code = 0 /\ \E o \in out : o.status = "DONE"
         /\ StructuredStatus(code, probe) = "DONE" => code = 0 /\ probe
<1>1. StructuredStatus(code, probe) \in Statuses /\ (StructuredStatus(code, probe) = "DONE" => code = 0 /\ probe)
  BY DEF StructuredStatus, Statuses
<1>2. CASE out = {}
  BY <1>1, <1>2 DEF ReadResult, Statuses
<1>3. CASE out # {}
  <2>1. PICK o \in out : o = CHOOSE x \in out : TRUE
    BY <1>3
  <2>2. ReadResult(code, out) = IF o.status \notin Statuses \/ (code # 0 /\ o.status = "DONE") THEN "FAILED" ELSE o.status
    BY <1>3, <2>1 DEF ReadResult
  <2> QED BY <1>1, <2>2 DEF Statuses
<1> QED BY <1>2, <1>3

\* The adapter reads what its runner left.
LEMMA ReadsKeeps == ASSUME AdaptersInv, NEW r \in Runners, AdapterReads(r) PROVE AdaptersInv'
<1>0. /\ aEx.pc = "wait" /\ aEx.runner = {r} /\ aRunner[r].pc = "exited"
      /\ UNCHANGED <<aTask, aRunner, aLock, aOut, aTree>>
  BY DEF AdapterReads
<1>1. /\ AShape /\ aEx.stage \in Stages /\ aEx.answer = {} /\ RouteOf(aTask) \in DOMAIN AdapterKind
      /\ IF Hybrid THEN aEx.stage[1] = "review" ELSE aEx.stage = Only /\ RouteOf(aTask) # "claude"
      /\ aRunner[r].kind = KindOf(RouteOf(aTask)) /\ aRunner[r].stage = aEx.stage
  BY <1>0 DEF AdaptersInv, AShape, AnsweredIsOver, StagesFit, RunnersFit, WaitsForOwn
<1>2. PICK c : c = aRunner[r].code
  OBVIOUS
<1>3. PICK status : status = IF aRunner[r].kind = "brainstorm" THEN StructuredStatus(c, aRunner[r].probe)
                             ELSE ReadResult(c, aOut[aEx.stage])
  OBVIOUS
<1>4. /\ status \in Statuses
      /\ status = "DONE" => IF aRunner[r].kind = "brainstorm" THEN c = 0 /\ aRunner[r].probe
                            ELSE c = 0 /\ \E o \in aOut[aEx.stage] : o.status = "DONE"
  BY <1>3, ReadStatus
<1>5. PICK x : x = HybridStep(aEx.stage, status)
  OBVIOUS
<1>6. aEx' = [x EXCEPT !.read = aOut[aEx.stage]]
  BY <1>2, <1>3, <1>5 DEF AdapterReads
<1>7. /\ DOMAIN x = ExFields /\ x.runner = {}
      /\ \/ /\ x.pc = "over" /\ x.answer = {status} /\ x.own = aEx.runner /\ x.stage = aEx.stage
         \/ /\ aEx.stage # Only /\ x.answer = aEx.answer /\ x.own = aEx.own /\ x.stage \in Stages
            /\ (x.pc = "launch" /\ x.stage[1] = "review") \/ (x.pc = "claude" /\ x.stage[1] = "fix")
  BY <1>1, <1>4, <1>5, HybridStepCases
<1>8. /\ DOMAIN aEx' = ExFields /\ aEx'.pc = x.pc /\ aEx'.answer = x.answer /\ aEx'.own = x.own
      /\ aEx'.stage = x.stage /\ aEx'.runner = x.runner /\ aEx'.read = aOut[aEx.stage]
  BY <1>6, <1>7 DEF ExFields
<1>9. \A q \in aEx'.own : q \in Runners /\ aRunner'[q].pc \in {"orphan", "exited"}
  BY <1>0, <1>7, <1>8 DEF AdaptersInv, AnsweredIsOver
<1>10. StagesFit'
  <2>1. CASE x.pc = "over"
    BY <1>8, <2>1 DEF StagesFit
  <2>2. CASE x.pc # "over"
    BY <1>0, <1>1, <1>7, <1>8, <2>2 DEF StagesFit, Hybrid
  <2> QED BY <2>1, <2>2
<1>11. DoneIsEarned'
  <2> SUFFICES ASSUME aEx'.answer = {"DONE"} PROVE DoneIsEarned'
    BY DEF DoneIsEarned
  <2>1. status = "DONE" /\ aEx'.own = {r} /\ aEx'.stage = aEx.stage
    BY <1>0, <1>1, <1>7, <1>8
  <2>r. aRunner[r].kind # "brainstorm" => aRunner[r].code = 0 /\ ReadOwnOrLater(r)'
    <3> SUFFICES ASSUME aRunner[r].kind # "brainstorm" PROVE aRunner[r].code = 0 /\ ReadOwnOrLater(r)'
      OBVIOUS
    <3>1. PICK o \in aOut[aEx.stage] : c = 0 /\ o.status = "DONE"
      BY <1>4, <2>1
    <3>2. o.by = r \/ o.at > aRunner[r].at
      BY <1>0, <1>2, <3>1 DEF AdaptersInv, OwnWrote
    <3> QED BY <1>0, <1>2, <1>8, <3>1, <3>2 DEF ReadOwnOrLater
  <2>2. CASE RouteOf(aTask) \in {"codex", "native"}
    <3>1. aRunner[r].kind # "brainstorm"
      BY <1>1, <2>2, AdapterAssumption DEF KindOf
    <3> QED BY <1>0, <2>r, <2>1, <2>2, <3>1 DEF DoneIsEarned
  <2>3. CASE RouteOf(aTask) = "hybrid"
    <3>1. aRunner[r].kind # "brainstorm" /\ Hybrid /\ aRunner[r].stage[1] = "review"
      BY <1>1, <2>3 DEF KindOf, Hybrid
    <3>2. aRunner[r].tree = aTree
      BY <1>0, <2>r, <3>1 DEF AdaptersInv, ReviewIsFresh
    <3> QED BY <1>0, <2>r, <2>1, <2>3, <3>1, <3>2 DEF DoneIsEarned
  <2>4. CASE RouteOf(aTask) = "brainstorm"
    <3>1. aRunner[r].kind = "brainstorm"
      BY <1>1, <2>4, AdapterAssumption DEF KindOf
    <3> QED BY <1>0, <1>2, <1>4, <2>1, <2>4, <3>1 DEF DoneIsEarned
  <2>5. RouteOf(aTask) \in {"codex", "native", "hybrid", "brainstorm"}
    <3>1. "claude" = "claude" /\ (Hybrid <=> RouteOf(aTask) = "hybrid")
      BY DEF Hybrid
    <3> QED BY <1>1, <3>1, AdapterAssumption
  <2> QED BY <2>2, <2>3, <2>4, <2>5
<1>12. aEx'.stage \in Stages /\ aEx'.pc # "wait" /\ aEx'.runner = {} /\ (aEx'.answer # {} => aEx'.pc = "over")
  BY <1>1, <1>7, <1>8
<1> QED BY <1>0, <1>8, <1>9, <1>10, <1>11, <1>12, RunnersStay, OutStays, ExecutionKeeps

\* What Codex leaves is later than all before; a review leaves the tree alone.
LEMMA LeavesLater ==
  ASSUME AdaptersInv, NEW r \in Runners, aRunner[r].pc # "none", NEW status, CodexLeaves(r, status)
  PROVE  /\ OutLater /\ (Hybrid => aTree' = aTree) /\ NextAt(aRunner[r].stage) \in Nat
         /\ aRunner[r].kind # "brainstorm" /\ status # "crash" =>
              /\ aOut'[aRunner[r].stage] # {}
              /\ \A o \in aOut'[aRunner[r].stage] : o.by = r /\ o.at = NextAt(aRunner[r].stage)
<1>1. PICK s \in Stages : s = aRunner[r].stage
  BY DEF AdaptersInv, AShape
<1>2. DOMAIN aOut = Stages /\ \A x \in Stages : \A o \in aOut[x] : aOut[x] = {o} /\ o.at \in Nat
  BY DEF AdaptersInv, AShape
<1>3. PICK n : n = NextAt(s)
  OBVIOUS
<1>4. n \in Nat /\ \A p \in aOut[s] : n > p.at
  <2>1. CASE aOut[s] = {}
    BY <1>3, <2>1 DEF NextAt
  <2>2. CASE aOut[s] # {}
    <3>1. PICK o \in aOut[s] : o = CHOOSE x \in aOut[s] : TRUE
      BY <2>2
    <3>2. n = o.at + 1
      BY <1>3, <2>2, <3>1 DEF NextAt
    <3>3. aOut[s] = {o} /\ o.at \in Nat
      BY <1>2, <3>1
    <3> QED BY <3>2, <3>3
  <2> QED BY <2>1, <2>2
<1>5. Hybrid => aTree' = aTree
  <2>1. Hybrid => s[1] = "review"
    BY <1>1 DEF AdaptersInv, RunnersFit
  <2> QED BY <1>1, <2>1 DEF CodexLeaves
<1>6. CASE aRunner[r].kind = "brainstorm" \/ status = "crash"
  <2>1. UNCHANGED aOut
    BY <1>6 DEF CodexLeaves
  <2> QED BY <1>1, <1>3, <1>4, <1>5, <1>6, <2>1, OutStays
<1>7. CASE aRunner[r].kind # "brainstorm" /\ status # "crash"
  <2>1. PICK o : o = [status |-> status, by |-> r, at |-> n]
    OBVIOUS
  <2>2. o.by = r /\ o.at = n
    BY <2>1
  <2>3. aOut' = [aOut EXCEPT ![s] = {o}]
    BY <1>1, <1>3, <1>7, <2>1 DEF CodexLeaves
  <2>4. DOMAIN aOut' = Stages /\ aOut'[s] = {o} /\ \A x \in Stages : x # s => aOut'[x] = aOut[x]
    BY <1>2, <2>3
  <2>5. OutLater
    BY <1>2, <1>4, <2>2, <2>4 DEF OutLater
  <2> QED BY <1>1, <1>3, <1>4, <1>5, <2>2, <2>4, <2>5
<1> QED BY <1>6, <1>7

\* The runner outlives its timeout.
LEMMA TimesOutKeeps ==
  ASSUME AdaptersInv, NEW r \in Runners, NEW status, AdapterTimesOut(r, status) PROVE AdaptersInv'
<1>0. /\ aEx.pc = "wait" /\ aEx.runner = {r} /\ aRunner[r].pc = "codex" /\ AShape
      /\ aEx' = HybridStep(aEx.stage, "FAILED") /\ UNCHANGED aTask
  BY DEF AdapterTimesOut, AdaptersInv
<1>1. ASSUME NEW pc \in {"orphan", "exited"}, NEW code, code # 0, OutLater,
             aRunner' = [aRunner EXCEPT ![r].pc = pc, ![r].code = code]
      PROVE  AdaptersInv'
  <2>1. DOMAIN aRunner' = Runners /\ \A q \in Runners : q # r => aRunner'[q] = aRunner[q]
    BY <1>0, <1>1 DEF AShape
  <2>2. /\ DOMAIN aRunner'[r] = RunnerFields /\ aRunner'[r].stage = aRunner[r].stage
        /\ aRunner'[r].kind = aRunner[r].kind /\ aRunner'[r].at = aRunner[r].at /\ aRunner[r].at \in Nat
        /\ aRunner'[r].pc = pc /\ aRunner'[r].code = code
    BY <1>0, <1>1 DEF AShape, RunnerFields
  <2>3. RowKept(aRunner[r], aRunner'[r])
    BY <1>0, <1>1, <2>2 DEF RowKept
  <2>4. \A q \in Runners : aRunner[q].pc = "orphan" => aRunner[q].code # 0
    BY DEF AdaptersInv, AnsweredIsOver
  <2>5. \A q \in Runners : RowKept(aRunner[q], aRunner[q])
    BY <1>0, <2>4 DEF AShape, RowKept, RunnerFields
  <2>6. RunnersKept
    BY <2>1, <2>3, <2>5 DEF RunnersKept
  <2>7. \A q \in aEx.runner : q \in Runners /\ aRunner'[q].pc \in {"orphan", "exited"}
    BY <1>0, <1>1, <2>2
  <2>8. "FAILED" \in Statuses /\ "FAILED" # "DONE"
    BY DEF Statuses
  <2> QED BY <1>0, <1>1, <2>6, <2>7, <2>8, StageEndsKeeps
<1>2. CASE status # "killed"
  <2>1. CodexLeaves(r, status) /\ aRunner' = [aRunner EXCEPT ![r].pc = "exited", ![r].code = 143]
    BY <1>2 DEF AdapterTimesOut
  <2>2. OutLater
    BY <1>0, <2>1, LeavesLater
  <2>3. 143 # 0 /\ "exited" \in {"orphan", "exited"}
    OBVIOUS
  <2> QED BY <1>1, <2>1, <2>2, <2>3
<1>3. CASE status = "killed"
  <2>1. UNCHANGED aOut /\ aRunner' = [aRunner EXCEPT ![r].pc = "orphan", ![r].code = 137]
    BY <1>3 DEF AdapterTimesOut
  <2>2. 137 # 0 /\ "orphan" \in {"orphan", "exited"}
    OBVIOUS
  <2> QED BY <1>1, <2>1, <2>2, OutStays
<1> QED BY <1>2, <1>3

\* The worker dies, or its answer is lost, and the job is routed again.
LEMMA DiesKeeps == ASSUME AdaptersInv, WorkerDies PROVE AdaptersInv'
<1>0. /\ AShape /\ UNCHANGED <<aTask, aRunner, aLock, aOut, aTree>>
      /\ aEx' = [aEx EXCEPT !.pc = "route", !.stage = Only, !.runner = {}, !.n = @ + 1,
                           !.answer = {}, !.own = {}, !.read = {}]
  BY DEF WorkerDies, AdaptersInv
<1>1. /\ DOMAIN aEx' = ExFields /\ aEx'.pc = "route" /\ aEx'.stage = Only /\ aEx'.runner = {}
      /\ aEx'.answer = {} /\ aEx'.own = {}
  BY <1>0 DEF AShape, ExFields
<1>2. StagesFit' /\ DoneIsEarned' /\ Only \in Stages
  BY <1>1 DEF StagesFit, DoneIsEarned, Stages
<1> QED BY <1>0, <1>1, <1>2, RunnersStay, OutStays, ExecutionKeeps

\* Codex ends: a runner that exits with 0 has written the result of its stage.
LEMMA CodexKeeps == ASSUME AdaptersInv, NEW r \in Runners, NEW status, RCodex(r, status) PROVE AdaptersInv'
<1>0. /\ aRunner[r].pc = "codex" /\ aRunner[r].kind # "brainstorm" /\ AShape
      /\ CodexLeaves(r, status) /\ UNCHANGED <<aTask, aEx>>
  BY DEF RCodex, AdaptersInv
<1>1. PICK code : code = ExitCode(status)
  OBVIOUS
<1>2. PICK n : n = NextAt(aRunner[r].stage)
  OBVIOUS
<1>3. aRunner' = [aRunner EXCEPT ![r].pc = "exited", ![r].code = code, ![r].at = n]
  BY <1>1, <1>2 DEF RCodex
<1>4. /\ OutLater /\ (Hybrid => aTree' = aTree) /\ n \in Nat
      /\ status # "crash" =>
           /\ aOut'[aRunner[r].stage] # {}
           /\ \A o \in aOut'[aRunner[r].stage] : o.by = r /\ o.at = n
  BY <1>0, <1>2, LeavesLater
<1>5. DOMAIN aRunner' = Runners /\ \A q \in Runners : q # r => aRunner'[q] = aRunner[q]
  BY <1>0, <1>3 DEF AShape
<1>6. /\ DOMAIN aRunner'[r] = RunnerFields /\ aRunner'[r].stage = aRunner[r].stage
      /\ aRunner'[r].kind = aRunner[r].kind /\ aRunner'[r].at = n
      /\ aRunner'[r].pc = "exited" /\ aRunner'[r].code = code /\ aRunner'[r].tree = aRunner[r].tree
  BY <1>0, <1>3 DEF AShape, RunnerFields
<1>7. RowKept(aRunner[r], aRunner'[r])
  BY <1>0, <1>4, <1>6 DEF RowKept
<1>8. code = 0 => status # "crash"
  BY <1>1 DEF ExitCode, Statuses
<1>9. EndsWell(r) /\ Saw(r)
  BY <1>0, <1>4, <1>6, <1>8 DEF EndsWell, Saw, Reads
<1> QED BY <1>0, <1>4, <1>5, <1>7, <1>9, RunnerGoes

\* Codex ends without its shell.
LEMMA OrphanKeeps == ASSUME AdaptersInv, NEW r \in Runners, NEW status, ROrphan(r, status) PROVE AdaptersInv'
<1>0. /\ aRunner[r].pc = "orphan" /\ AShape /\ CodexLeaves(r, status) /\ UNCHANGED <<aTask, aEx>>
      /\ aRunner' = [aRunner EXCEPT ![r].pc = "exited"] /\ aRunner[r].code # 0
  BY DEF ROrphan, RunnerTo, AdaptersInv, AnsweredIsOver
<1>1. OutLater /\ (Hybrid => aTree' = aTree)
  BY <1>0, LeavesLater
<1>2. DOMAIN aRunner' = Runners /\ \A q \in Runners : q # r => aRunner'[q] = aRunner[q]
  BY <1>0 DEF AShape
<1>3. /\ DOMAIN aRunner'[r] = RunnerFields /\ aRunner'[r].stage = aRunner[r].stage
      /\ aRunner'[r].kind = aRunner[r].kind /\ aRunner'[r].at = aRunner[r].at /\ aRunner[r].at \in Nat
      /\ aRunner'[r].pc = "exited" /\ aRunner'[r].code = aRunner[r].code
      /\ aRunner'[r].tree = aRunner[r].tree /\ aRunner'[r].probe = aRunner[r].probe
  BY <1>0 DEF AShape, RunnerFields
<1>4. RowKept(aRunner[r], aRunner'[r])
  BY <1>0, <1>3 DEF RowKept
<1>5. EndsWell(r) /\ Saw(r)
  BY <1>0, <1>3 DEF EndsWell, Saw, Reads
<1> QED BY <1>0, <1>1, <1>2, <1>4, <1>5, RunnerGoes

\* A stage of a brainstorm ends; nothing of it is written where the others write.
LEMMA BrainstormStageKeeps ==
  ASSUME AdaptersInv, NEW r \in Runners, NEW code, RBrainstorm(r, code) PROVE AdaptersInv'
<1>0. /\ aRunner[r].pc = "codex" /\ aRunner[r].kind = "brainstorm" /\ UNCHANGED <<aTask, aEx, aOut, aTree>>
      /\ aRunner' = [aRunner EXCEPT ![r].pc = "exited", ![r].code = code, ![r].probe = (code # 3)] /\ AShape
  BY DEF RBrainstorm, AdaptersInv
<1>1. DOMAIN aRunner' = Runners /\ \A q \in Runners : q # r => aRunner'[q] = aRunner[q]
  BY <1>0 DEF AShape
<1>2. /\ DOMAIN aRunner'[r] = RunnerFields /\ aRunner'[r].stage = aRunner[r].stage
      /\ aRunner'[r].kind = aRunner[r].kind /\ aRunner'[r].at = aRunner[r].at /\ aRunner[r].at \in Nat
      /\ aRunner'[r].pc = "exited" /\ aRunner'[r].tree = aRunner[r].tree
  BY <1>0 DEF AShape, RunnerFields
<1>3. RowKept(aRunner[r], aRunner'[r])
  BY <1>0, <1>2 DEF RowKept
<1>4. EndsWell(r) /\ Saw(r)
  BY <1>0, <1>2 DEF EndsWell, Saw, Reads
<1> QED BY <1>0, <1>1, <1>3, <1>4, OutStays, RunnerGoes

\* Every step of the adapters and of the runners keeps the invariant.
LEMMA AdaptersStep == AdaptersInv /\ [ANext]_aVars => AdaptersInv'
<1> SUFFICES ASSUME AdaptersInv, [ANext]_aVars PROVE AdaptersInv'
  OBVIOUS
<1>0. AShape /\ DOMAIN aOut = Stages
  BY DEF AdaptersInv, AShape
<1>1. CASE UNCHANGED aVars
  <2>1. UNCHANGED <<aTask, aEx, aRunner, aOut, aTree>>
    BY <1>1 DEF aVars
  <2>2. \A r \in Runners : EndsWell(r) /\ Saw(r)
    BY <2>1 DEF EndsWell, Saw
  <2> QED BY <2>1, <2>2, RunnersStay, OutStays, RunnersKeep
<1>2. CASE Route
  BY <1>2, RouteKeeps
<1>3. CASE WorkerDies
  BY <1>3, DiesKeeps
<1>4. ASSUME NEW s \in Statuses, ClaudeStage(s) PROVE AdaptersInv'
  <2>1. aEx.pc = "claude" /\ aEx' = HybridStep(aEx.stage, s) /\ UNCHANGED <<aTask, aRunner, aOut>>
    BY <1>4 DEF ClaudeStage
  <2>2. aEx.runner = {}
    BY <2>1 DEF AdaptersInv, WaitsForOwn
  <2>3. s = "DONE" => ~ClaudeRefuses
    BY <1>4 DEF ClaudeStage
  <2> QED BY <2>1, <2>2, <2>3, RunnersStay, OutStays, StageEndsKeeps
<1>5. ASSUME NEW r \in Runners, Launch(r) PROVE AdaptersInv'
  BY <1>5, LaunchKeeps
<1>6. ASSUME NEW r \in Runners, AdapterReads(r) PROVE AdaptersInv'
  BY <1>6, ReadsKeeps
<1>7. ASSUME NEW r \in Runners, NEW s, AdapterTimesOut(r, s) PROVE AdaptersInv'
  BY <1>7, TimesOutKeeps
<1>8. ASSUME NEW r \in Runners, NEW s, RCodex(r, s) PROVE AdaptersInv'
  BY <1>8, CodexKeeps
<1>12. ASSUME NEW r \in Runners, NEW s, ROrphan(r, s) PROVE AdaptersInv'
  BY <1>12, OrphanKeeps
<1>9. ASSUME NEW r \in Runners, RStart(r) PROVE AdaptersInv'
  <2>1. /\ aRunner[r].pc = "start" /\ UNCHANGED <<aTask, aEx, aOut, aTree>>
        /\ RunnerTo(r, "mkdir") \/ \E code : code # 0 /\ RunnerExits(r, code)
    BY <1>9 DEF RStart
  <2>2. 1 # 0 /\ "mkdir" \notin {"none", "codex", "orphan", "exited"}
    OBVIOUS
  <2>3. aRunner[r].pc \notin {"none", "codex", "orphan", "exited"}
    BY <2>1
  <2>4. CASE RunnerTo(r, "mkdir")
    <3>1. PICK pc : pc = "mkdir"
      OBVIOUS
    <3>2. PICK code : code = 1
      OBVIOUS
    <3>3. RunnerTo(r, pc) /\ pc \notin {"none", "codex", "orphan", "exited"} /\ code # 0
      BY <2>2, <2>4, <3>1, <3>2
    <3> QED BY <2>1, <2>3, <3>3, LockStepKeeps
  <2>5. ASSUME NEW code, code # 0, RunnerExits(r, code) PROVE AdaptersInv'
    BY <2>1, <2>2, <2>3, <2>5, LockStepKeeps
  <2> QED BY <2>1, <2>4, <2>5
<1>10. ASSUME NEW r \in Runners, RMkdir(r) \/ RPid(r) \/ ROwner(r) \/ RRm(r) \/ RRmdir(r) PROVE AdaptersInv'
  <2>1. /\ aRunner[r].pc \notin {"none", "codex", "orphan", "exited"} /\ UNCHANGED <<aTask, aEx, aOut, aTree>>
        /\ \/ \E pc : pc \notin {"none", "codex", "orphan", "exited"} /\ RunnerTo(r, pc)
           \/ RunnerExits(r, 1)
           \/ aRunner' = [aRunner EXCEPT ![r].pc = "codex", ![r].tree = aTree]
    <3>1. CASE RMkdir(r)
      BY <3>1 DEF RMkdir
    <3>2. CASE RPid(r)
      BY <3>2 DEF RPid
    <3>3. CASE ROwner(r)
      BY <3>3 DEF ROwner
    <3>4. CASE RRm(r)
      BY <3>4 DEF RRm
    <3>5. CASE RRmdir(r)
      BY <3>5 DEF RRmdir
    <3> QED BY <1>10, <3>1, <3>2, <3>3, <3>4, <3>5
  <2>2. 1 # 0 /\ "mkdir" \notin {"none", "codex", "orphan", "exited"}
    OBVIOUS
  <2> QED BY <2>1, <2>2, LockStepKeeps
<1>11. ASSUME NEW r \in Runners, NEW c, RBrainstorm(r, c) PROVE AdaptersInv'
  BY <1>11, BrainstormStageKeeps
<1> QED BY <1>1, <1>2, <1>3, <1>4, <1>5, <1>6, <1>7, <1>8, <1>9, <1>10, <1>11, <1>12 DEF ANext

\* DONE is earned whatever orphans, stolen locks, timeouts and deaths of the worker come in
\* between: the runner of this execution ended well, and the DONE that was read is its own or
\* was written over it later; a hybrid's runner reviewed the tree as it is; a brainstorm's
\* passed its isolation probe; no policy refuses a session's task (adapters.py,
\* CxhRunAdapter._execute, HybridAdapter, CodexRunAdapter.execute_structured).
THEOREM DoneIsAlwaysEarned == ASpec => []DoneIsEarned
<1>1. AInit => AdaptersInv
  <2> SUFFICES ASSUME AInit PROVE AdaptersInv
    OBVIOUS
  <2>1. /\ aEx = [pc |-> "route", stage |-> Only, runner |-> {}, n |-> 1, answer |-> {}, own |-> {}, read |-> {}]
        /\ aRunner = [r \in Runners |-> NoRunner] /\ aOut = [s \in Stages |-> {}]
    BY DEF AInit
  <2>2. Only \in Stages
    BY DEF Stages
  <2>3. /\ DOMAIN aEx = {"pc", "stage", "runner", "n", "answer", "own", "read"} /\ aEx.stage = Only
        /\ aEx.pc = "route" /\ aEx.runner = {} /\ aEx.answer = {} /\ aEx.own = {}
    BY <2>1
  <2>4. /\ DOMAIN NoRunner = {"pc", "stage", "kind", "code", "probe", "tree", "at"}
        /\ NoRunner.stage = Only /\ NoRunner.pc = "none" /\ NoRunner.at = 0
    BY DEF NoRunner
  <2>5. AShape
    BY <2>1, <2>2, <2>3, <2>4 DEF AShape
  <2>6. StagesFit /\ RunnersFit /\ WaitsForOwn /\ OwnWrote /\ ReviewIsFresh /\ AnsweredIsOver /\ DoneIsEarned
    BY <2>1, <2>3, <2>4 DEF StagesFit, RunnersFit, WaitsForOwn, OwnWrote, ReviewIsFresh, AnsweredIsOver, DoneIsEarned
  <2> QED BY <2>5, <2>6 DEF AdaptersInv
<1>2. AdaptersInv => DoneIsEarned
  BY DEF AdaptersInv
<1> QED BY <1>1, <1>2, AdaptersStep, PTL DEF ASpec

-----------------------------------------------------------------------------
(***************************************************************************)
(* The brainstorm workflow, for every task, every set of engine replies    *)
(* and every number of attempts and faults: what a DONE result publishes   *)
(* belongs together, and an attempt costs what its budget allows.  The     *)
(* ranking, the anonymization and the score are left as they are: nothing  *)
(* below looks inside them, only at the outputs they are computed from.    *)
(***************************************************************************)

(* The inputs of a stage are the outputs of the stages before it.          *)

\* Every stage has an output of its own.
LEMMA OutputsDiffer ==
  /\ \A s \in 1..6 : Outputs[s] \in Range(Outputs)
  /\ \A s, t \in 1..6 : Outputs[s] = Outputs[t] => s = t
  /\ \A s \in 1..6 : s \in {1, 2, 3, 4, 5, 6}
<1>1. DOMAIN Outputs = 1..6
  BY DEF Outputs
<1>2. \A s \in 1..6 : s \in {1, 2, 3, 4, 5, 6}
  OBVIOUS
<1>3. \A s, t \in {1, 2, 3, 4, 5, 6} : Outputs[s] = Outputs[t] => s = t
  BY DEF Outputs
<1> QED BY <1>1, <1>2, <1>3 DEF Range

LEMMA SameValues ==
  ASSUME NEW x, NEW y, NEW t, x.res[t] = y.res[t]
  PROVE  Val(x, t) = Val(y, t)
BY DEF Val

\* Two runs that agree on the stages before s agree on what stage s is.
LEMMA SameStage ==
  ASSUME NEW x, NEW y, NEW s \in 1..6, \A t \in 1..6 : t < s => x.res[t] = y.res[t]
  PROVE  /\ StageName(x, s) = StageName(y, s) /\ StageInput(x, s) = StageInput(y, s)
         /\ \A p : ValidReply(x, s, p) <=> ValidReply(y, s, p)
         /\ \A p : Checkpoint(x, s, p) = Checkpoint(y, s, p)
<1>1. \A t \in 1..6 : t < s => Val(x, t) = Val(y, t)
  BY SameValues
<1>2. s >= 3 => RunBundle(x) = RunBundle(y)
  BY <1>1 DEF RunBundle
<1>3. s >= 5 => RunRanking(x) = RunRanking(y)
  BY <1>1, <1>2 DEF RunRanking
<1>4. s \in {1, 2, 3, 4, 5, 6}
  BY OutputsDiffer
<1>5. StageName(x, s) = StageName(y, s)
  BY <1>3, <1>4 DEF StageName, EngineOf
<1>6. StageInput(x, s) = StageInput(y, s)
  BY <1>1, <1>2, <1>3, <1>4 DEF StageInput
<1>7. ASSUME NEW p PROVE ValidReply(x, s, p) <=> ValidReply(y, s, p)
  BY <1>2, <1>3, <1>4 DEF ValidReply
<1> QED BY <1>5, <1>6, <1>7 DEF Checkpoint

\* No step changes the task, so a run means the same before and after it.
LEMMA SameTask ==
  ASSUME bTask' = bTask, NEW x, NEW s
  PROVE  /\ RunRanking(x)' = RunRanking(x)
         /\ StageName(x, s)' = StageName(x, s) /\ StageInput(x, s)' = StageInput(x, s)
         /\ \A p : ValidReply(x, s, p)' <=> ValidReply(x, s, p)
<1>1. RunRanking(x)' = RunRanking(x)
  BY DEF RunRanking, RankingOf
<1>2. StageName(x, s)' = StageName(x, s)
  BY <1>1 DEF StageName, EngineOf
<1>3. StageInput(x, s)' = StageInput(x, s)
  BY <1>1 DEF StageInput
<1>4. ASSUME NEW p PROVE ValidReply(x, s, p)' <=> ValidReply(x, s, p)
  BY <1>1 DEF ValidReply
<1> QED BY <1>1, <1>2, <1>3, <1>4

LEMMA RunAfter ==
  ASSUME bTask' = bTask, NEW x, x = bRun', NEW s
  PROVE  /\ RunRanking(bRun)' = RunRanking(x) /\ RunBundle(bRun)' = RunBundle(x)
         /\ StageName(bRun, s)' = StageName(x, s) /\ StageInput(bRun, s)' = StageInput(x, s)
         /\ \A p : ValidReply(bRun, s, p)' <=> ValidReply(x, s, p)
         /\ \A p : Checkpoint(bRun, s, p)' = Checkpoint(x, s, p)
<1>0. RunBundle(bRun)' = RunBundle(x)
  BY DEF RunBundle, Val
<1>1. RunRanking(bRun)' = RunRanking(x)
  BY <1>0 DEF RunRanking, RankingOf
<1>2. StageName(bRun, s)' = StageName(x, s)
  BY <1>1 DEF StageName, EngineOf
<1>3. StageInput(bRun, s)' = StageInput(x, s)
  BY <1>0, <1>1 DEF StageInput
<1>4. ASSUME NEW p PROVE ValidReply(bRun, s, p)' <=> ValidReply(x, s, p)
  BY <1>0, <1>1 DEF ValidReply
<1> QED BY <1>0, <1>1, <1>2, <1>3, <1>4 DEF Checkpoint

LEMMA DiskAfter ==
  ASSUME bTask' = bTask, NEW x, x = DiskRun', NEW s
  PROVE  /\ StageName(DiskRun, s)' = StageName(x, s) /\ StageInput(DiskRun, s)' = StageInput(x, s)
         /\ \A p : ValidReply(DiskRun, s, p)' <=> ValidReply(x, s, p)
         /\ \A p : Checkpoint(DiskRun, s, p)' = Checkpoint(x, s, p)
<1>0. RunBundle(DiskRun)' = RunBundle(x)
  BY DEF RunBundle, Val
<1>1. RunRanking(DiskRun)' = RunRanking(x)
  BY <1>0 DEF RunRanking, RankingOf
<1>2. StageName(DiskRun, s)' = StageName(x, s)
  BY <1>1 DEF StageName, EngineOf
<1>3. StageInput(DiskRun, s)' = StageInput(x, s)
  BY <1>0, <1>1 DEF StageInput
<1>4. ASSUME NEW p PROVE ValidReply(DiskRun, s, p)' <=> ValidReply(x, s, p)
  BY <1>0, <1>1 DEF ValidReply
<1> QED BY <1>2, <1>3, <1>4 DEF Checkpoint

\* The stages of a run have different names.
LEMMA NamesDiffer ==
  ASSUME NEW x, NEW s \in 1..6, NEW t \in 1..6, s # t
  PROVE  StageName(x, s) # StageName(x, t)
<1>1. s \in {1, 2, 3, 4, 5, 6} /\ t \in {1, 2, 3, 4, 5, 6}
  BY OutputsDiffer
<1>2. /\ StageName(x, 1) = <<"codex", "proposals">> /\ StageName(x, 2) = <<"claude", "proposals">>
      /\ StageName(x, 3) = <<"claude", "evaluation">> /\ StageName(x, 4) = <<"codex", "evaluation">>
      /\ StageName(x, 5)[2] = "refinement" /\ StageName(x, 6)[2] = "validation"
  BY DEF StageName, EngineOf, Kinds
<1>3. /\ StageName(x, 1)[1] = "codex" /\ StageName(x, 2)[1] = "claude"
      /\ StageName(x, 3)[1] = "claude" /\ StageName(x, 4)[1] = "codex"
      /\ StageName(x, 1)[2] = "proposals" /\ StageName(x, 2)[2] = "proposals"
      /\ StageName(x, 3)[2] = "evaluation" /\ StageName(x, 4)[2] = "evaluation"
  BY <1>2
<1> QED BY <1>1, <1>2, <1>3

-----------------------------------------------------------------------------
(* A stage that is secured stays so while its output, its checkpoint and   *)
(* those of the stages before it stay.                                     *)

LEMMA RunKeeps ==
  ASSUME bTask' = bTask, NEW n \in 0..6, \A s \in 1..n : Secured(bRun, s),
         \A s \in 1..n : bRun'.res[s] = bRun.res[s] /\ bFiles'.out[Outputs[s]] = bFiles.out[Outputs[s]],
         \A s \in 1..n : \A p : Checkpoint(bRun, s, p) \in bFiles.ck => Checkpoint(bRun, s, p) \in bFiles'.ck
  PROVE  \A s \in 1..n : Secured(bRun, s)'
<1> TAKE s \in 1..n
<1>1. PICK x : x = bRun'
  OBVIOUS
<1>2. s \in 1..6 /\ \A t \in 1..6 : t < s => t \in 1..n
  OBVIOUS
<1>3. /\ \A p : ValidReply(x, s, p) <=> ValidReply(bRun, s, p)
      /\ \A p : Checkpoint(x, s, p) = Checkpoint(bRun, s, p)
  BY <1>1, <1>2, SameStage
<1>4. PICK p \in bFiles.out[Outputs[s]] :
        /\ bRun.res[s] = {p} /\ bFiles.out[Outputs[s]] = {p}
        /\ ValidReply(bRun, s, p) /\ Checkpoint(bRun, s, p) \in bFiles.ck
  BY DEF Secured
<1>5. ValidReply(bRun, s, p)' /\ Checkpoint(bRun, s, p)' = Checkpoint(bRun, s, p)
  BY <1>1, <1>3, <1>4, RunAfter
<1>6. p \in bFiles'.out[Outputs[s]] /\ bRun'.res[s] = {p} /\ bFiles'.out[Outputs[s]] = {p}
      /\ Checkpoint(bRun, s, p) \in bFiles'.ck
  BY <1>4
<1> QED BY <1>5, <1>6 DEF Secured

LEMMA DiskKeeps ==
  ASSUME bTask' = bTask, NEW n \in 0..6, SecuredUpTo(n),
         \A s \in 1..n : bFiles'.out[Outputs[s]] = bFiles.out[Outputs[s]],
         \A s \in 1..n : \A p : Checkpoint(DiskRun, s, p) \in bFiles.ck => Checkpoint(DiskRun, s, p) \in bFiles'.ck
  PROVE  SecuredUpTo(n)'
<1> SUFFICES ASSUME NEW s \in 1..n PROVE Secured(DiskRun, s)'
  BY DEF SecuredUpTo
<1>1. PICK x : x = DiskRun'
  OBVIOUS
<1>2. s \in 1..6 /\ \A t \in 1..6 : t < s => t \in 1..n
  OBVIOUS
<1>0. \A t \in 1..n : x.res[t] = DiskRun.res[t] /\ DiskRun'.res[t] = DiskRun.res[t]
  BY <1>1 DEF DiskRun
<1>3. /\ \A p : ValidReply(x, s, p) <=> ValidReply(DiskRun, s, p)
      /\ \A p : Checkpoint(x, s, p) = Checkpoint(DiskRun, s, p)
  BY <1>0, <1>2, SameStage
<1>4. PICK p \in bFiles.out[Outputs[s]] :
        /\ DiskRun.res[s] = {p} /\ bFiles.out[Outputs[s]] = {p}
        /\ ValidReply(DiskRun, s, p) /\ Checkpoint(DiskRun, s, p) \in bFiles.ck
  BY DEF Secured, SecuredUpTo
<1>5. ValidReply(DiskRun, s, p)' /\ Checkpoint(DiskRun, s, p)' = Checkpoint(DiskRun, s, p)
  BY <1>1, <1>3, <1>4, DiskAfter
<1>6. p \in bFiles'.out[Outputs[s]] /\ DiskRun'.res[s] = {p} /\ bFiles'.out[Outputs[s]] = {p}
      /\ Checkpoint(DiskRun, s, p) \in bFiles'.ck
  BY <1>0, <1>4
<1> QED BY <1>5, <1>6 DEF Secured

\* What a run has secured, the next run finds on disk.
LEMMA RunIsDisk ==
  ASSUME NEW n \in 0..6, \A s \in 1..n : Secured(bRun, s)
  PROVE  SecuredUpTo(n) /\ \A s \in 1..n : DiskRun.res[s] = bRun.res[s]
<1>0. \A s \in 1..n : s \in 1..6
  OBVIOUS
<1>1. \A s \in 1..n : DiskRun.res[s] = bRun.res[s]
  BY <1>0 DEF DiskRun, Secured
<1>2. ASSUME NEW s \in 1..n PROVE Secured(DiskRun, s)
  <2>1. s \in 1..6 /\ \A t \in 1..6 : t < s => t \in 1..n
    OBVIOUS
  <2>2. /\ \A p : ValidReply(DiskRun, s, p) <=> ValidReply(bRun, s, p)
        /\ \A p : Checkpoint(DiskRun, s, p) = Checkpoint(bRun, s, p)
    BY <1>1, <2>1, SameStage
  <2> QED BY <1>1, <2>2 DEF Secured
<1> QED BY <1>1, <1>2 DEF SecuredUpTo

LEMMA RunIsDiskAfter ==
  ASSUME bTask' = bTask, NEW n \in 0..6, \A s \in 1..n : Secured(bRun, s)'
  PROVE  SecuredUpTo(n)'
<1>0. \A s \in 1..n : s \in 1..6
  OBVIOUS
<1>1. \A s \in 1..n : DiskRun'.res[s] = bRun'.res[s]
  BY <1>0 DEF DiskRun, Secured
<1>2. PICK x, y : x = bRun' /\ y = DiskRun'
  OBVIOUS
<1>3. ASSUME NEW s \in 1..n PROVE Secured(DiskRun, s)'
  <2>1. s \in 1..6 /\ \A t \in 1..6 : t < s => x.res[t] = y.res[t]
    BY <1>1, <1>2
  <2>2. /\ \A p : ValidReply(x, s, p) <=> ValidReply(y, s, p)
        /\ \A p : Checkpoint(x, s, p) = Checkpoint(y, s, p)
    BY <2>1, SameStage
  <2>3. /\ \A p : ValidReply(bRun, s, p)' <=> ValidReply(DiskRun, s, p)'
        /\ \A p : Checkpoint(bRun, s, p)' = Checkpoint(DiskRun, s, p)'
    <3>1. /\ \A p : ValidReply(bRun, s, p)' <=> ValidReply(x, s, p)
          /\ \A p : Checkpoint(bRun, s, p)' = Checkpoint(x, s, p)
      BY <1>2, RunAfter
    <3>2. /\ \A p : ValidReply(DiskRun, s, p)' <=> ValidReply(y, s, p)
          /\ \A p : Checkpoint(DiskRun, s, p)' = Checkpoint(y, s, p)
      BY <1>2, DiskAfter
    <3> QED BY <2>2, <3>1, <3>2
  <2>4. PICK p \in bFiles'.out[Outputs[s]] :
          /\ bRun'.res[s] = {p} /\ bFiles'.out[Outputs[s]] = {p}
          /\ ValidReply(bRun, s, p)' /\ Checkpoint(bRun, s, p)' \in bFiles'.ck
    BY DEF Secured
  <2>5. DiskRun'.res[s] = {p} /\ ValidReply(DiskRun, s, p)' /\ Checkpoint(DiskRun, s, p)' \in bFiles'.ck
    BY <1>1, <2>3, <2>4
  <2> QED BY <2>4, <2>5 DEF Secured
<1> QED BY <1>3 DEF SecuredUpTo

-----------------------------------------------------------------------------
(* The steps.                                                              *)

RunFields == {"pc", "stage", "res", "reply", "deadline", "validated"}

LEMMA Fields == DOMAIN IdleRun = RunFields
BY DEF IdleRun, RunFields

LEMMA NothingPublished ==
  ASSUME bResult' = {}
  PROVE  PublishedFitsTogether'
BY DEF PublishedFitsTogether

\* The steps that touch neither outputs nor checkpoints nor the counters.
LEMMA CountedKeeps ==
  ASSUME BrainstormInv, bTask' = bTask, bRun.pc # "over",
         bFiles'.out = bFiles.out, bFiles'.ck = bFiles.ck, bFiles'.budget = bFiles.budget,
         bGhost'.made = bGhost.made, bGhost'.crashes = bGhost.crashes, bGhost'.losses = bGhost.losses,
         bGhost'.start = bGhost.start,
         bRun'.pc \in {"call"} \cup InCall => bRun.pc \in {"call"} \cup InCall /\ bRun'.stage = bRun.stage,
         bRun.pc \in InCall => bRun'.pc \in InCall
  PROVE  CallsCounted'
<1> SUFFICES ASSUME bGhost.start # {} PROVE CallsCounted'
  BY DEF CallsCounted
<1>1. PICK n \in 0..6, b \in bFiles.budget :
            /\ SecuredUpTo(n)
            /\ bRun.pc \in {"call"} \cup InCall => n <= bRun.stage - 1
            /\ bGhost.made <= n + b.used + (IF bRun.pc \in InCall THEN 1 ELSE 0)
                                + bGhost.crashes + 6 * bGhost.losses
  BY DEF BrainstormInv, CallsCounted
<1>2. SecuredUpTo(n)'
  BY <1>1, DiskKeeps
<1>3. bRun'.pc \in {"call"} \cup InCall => n <= bRun'.stage - 1
  BY <1>1
<1>4. b.used \in Nat /\ bGhost.made \in Nat /\ bGhost.crashes \in Nat /\ bGhost.losses \in Nat
  BY DEF BrainstormInv, BudgetOfAttempt, BShape, MaxTotalRetries
<1>5. bGhost'.made <= n + b.used + (IF bRun'.pc \in InCall THEN 1 ELSE 0)
                                + bGhost'.crashes + 6 * bGhost'.losses
  BY <1>1, <1>4
<1> QED BY <1>1, <1>2, <1>3, <1>5 DEF CallsCounted

\* A run that goes on with the same results means the same.
LEMMA SameResults ==
  ASSUME bTask' = bTask, bRun'.res = bRun.res, NEW s \in 1..6
  PROVE  /\ RunBundle(bRun)' = RunBundle(bRun) /\ RunRanking(bRun)' = RunRanking(bRun)
         /\ Val(bRun, s)' = Val(bRun, s)
         /\ StageName(bRun, s)' = StageName(bRun, s) /\ StageInput(bRun, s)' = StageInput(bRun, s)
         /\ \A p : ValidReply(bRun, s, p)' <=> ValidReply(bRun, s, p)
         /\ \A p : Checkpoint(bRun, s, p)' = Checkpoint(bRun, s, p)
<1>1. PICK x : x = bRun'
  OBVIOUS
<1>2. \A t : Val(x, t) = Val(bRun, t) /\ Val(bRun, t)' = Val(bRun, t)
  BY <1>1 DEF Val
<1>3. /\ StageName(x, s) = StageName(bRun, s) /\ StageInput(x, s) = StageInput(bRun, s)
      /\ \A p : ValidReply(x, s, p) <=> ValidReply(bRun, s, p)
      /\ \A p : Checkpoint(x, s, p) = Checkpoint(bRun, s, p)
  BY <1>1, SameStage
<1>4. RunBundle(x) = RunBundle(bRun) /\ RunRanking(x) = RunRanking(bRun)
  BY <1>2 DEF RunBundle, RunRanking
<1> QED BY <1>1, <1>2, <1>3, <1>4, RunAfter

\* An engine that answered has answered, as long as no step brings the
\* repository back to the baseline unnoticed.
LEMMA CalledKeeps ==
  ASSUME bGhost.calls \subseteq bGhost'.calls, OnBaseline' => OnBaseline /\ bWorld'.repo = bWorld.repo,
         NEW name, NEW input, NEW p, Called(name, input, p)
  PROVE  Called(name, input, p)'
<1>1. PICK call \in bGhost.calls : call = <<name, call[2], input, p>> /\ (OnBaseline => call[2] = bWorld.repo)
  BY DEF Called
<1> QED BY <1>1 DEF Called

\* The steps that neither call an engine nor write a checkpoint.
LEMMA BehindKeeps ==
  ASSUME BrainstormInv, bTask' = bTask, bGhost'.calls = bGhost.calls,
         OnBaseline' => OnBaseline /\ bWorld'.repo = bWorld.repo,
         bFiles'.ck = bFiles.ck, bFiles'.baseline = bFiles.baseline, BWorking' => BWorking,
         bRun'.pc \in {"write", "checkpoint"} =>
            /\ bRun.pc \in {"write", "checkpoint"} /\ bRun'.reply = bRun.reply
            /\ bRun'.res = bRun.res /\ bRun'.stage = bRun.stage
  PROVE  CallsBehindFiles'
<1>1. \A k \in bFiles.ck : Called(k.name, k.input, k.sha)'
  <2> TAKE k \in bFiles.ck
  <2>1. PICK n : n = k.name
    OBVIOUS
  <2>2. PICK i : i = k.input
    OBVIOUS
  <2>3. PICK p : p = k.sha
    OBVIOUS
  <2>4. Called(n, i, p)
    BY <2>1, <2>2, <2>3 DEF BrainstormInv, CallsBehindFiles
  <2>5. Called(n, i, p)'
    BY <2>4, CalledKeeps
  <2> QED BY <2>1, <2>2, <2>3, <2>5
<1>2. ASSUME bRun'.pc \in {"write", "checkpoint"}, NEW p \in bRun'.reply
      PROVE  Called(StageName(bRun, bRun.stage), StageInput(bRun, bRun.stage), p)'
  <2>s. PICK s \in 1..6 : s = bRun.stage
    BY DEF BrainstormInv, BShape
  <2>1. PICK n : n = StageName(bRun, s)
    OBVIOUS
  <2>2. PICK i : i = StageInput(bRun, s)
    OBVIOUS
  <2>3. StageName(bRun, bRun.stage) = n /\ StageInput(bRun, bRun.stage) = i
    BY <2>s, <2>1, <2>2
  <2>4. Called(n, i, p)
    BY <1>2, <2>3 DEF BrainstormInv, CallsBehindFiles
  <2>5. Called(n, i, p)'
    BY <2>4, CalledKeeps
  <2>6. StageName(bRun, s)' = n /\ StageInput(bRun, s)' = i
    BY <1>2, <2>1, <2>2, SameResults
  <2>7. StageName(bRun, bRun.stage)' = n /\ StageInput(bRun, bRun.stage)' = i
    BY <1>2, <2>s, <2>6 DEF StageName, EngineOf, StageInput
  <2> QED BY <2>5, <2>7 DEF Called
<1>3. /\ bFiles'.baseline = {} => bFiles'.ck = {} /\ ~BWorking'
      /\ \A b \in bFiles'.baseline : bFiles'.baseline = {b}
  BY DEF BrainstormInv, CallsBehindFiles
<1>4. \A k \in bFiles'.ck : Called(k.name, k.input, k.sha)'
  BY <1>1
<1> QED BY <1>2, <1>3, <1>4 DEF CallsBehindFiles

\* BFail: a run that ends without a result to publish leaves the files.
LEMMA FailKeeps ==
  ASSUME BrainstormInv, bRun.pc # "over", NEW status \in {"BLOCKED", "FAILED"}, BFail(bRun, bFiles, status),
         bTask' = bTask, bFiles' = bFiles, bGhost' = bGhost,
         DOMAIN bWorld' = DOMAIN bWorld, bWorld'.repo = bWorld.repo, bWorld'.attempt = bWorld.attempt,
         bWorld'.now \in Nat, bWorld.now <= bWorld'.now
  PROVE  BrainstormInv'
<1>0. DOMAIN bRun = RunFields
  BY Fields DEF BrainstormInv, BShape
<1>1. /\ DOMAIN bRun' = RunFields /\ bRun'.pc = "over" /\ bRun'.res = bRun.res /\ bRun'.stage = bRun.stage
      /\ bRun'.deadline = bRun.deadline
  BY <1>0 DEF BFail, RunFields
<1>2. ~BWorking' /\ "over" \notin InCall /\ "over" \notin {"wait", "write", "checkpoint"}
  BY <1>1 DEF BWorking, InCall
<1>3. BShape'
  BY <1>0, <1>1, <1>2, Fields DEF BrainstormInv, BShape
<1>4. RunOnDisk' /\ CallsCounted'
  BY <1>1, <1>2 DEF RunOnDisk, CallsCounted
<1>5. CallsBehindFiles'
  <2>1. OnBaseline' => OnBaseline /\ bWorld'.repo = bWorld.repo
    BY DEF OnBaseline
  <2> QED BY <1>1, <1>2, <2>1, BehindKeeps
<1>6. BudgetOfAttempt'
  BY <1>1, <1>2 DEF BrainstormInv, BudgetOfAttempt, BShape
<1>7. PublishedFitsTogether'
  <2> SUFFICES ASSUME NEW r \in bResult', r.status = "DONE" PROVE FALSE
    BY DEF PublishedFitsTogether
  <2> QED BY DEF BFail
<1>8. AttemptBudgetKept'
  BY <1>1, <1>2 DEF BrainstormInv, AttemptBudgetKept
<1> QED BY <1>3, <1>4, <1>5, <1>6, <1>7, <1>8 DEF BrainstormInv

LEMMA InitHolds == BInit => BrainstormInv
<1> SUFFICES ASSUME BInit PROVE BrainstormInv
  OBVIOUS
<1>1. /\ DOMAIN bRun = RunFields /\ bRun.pc = "idle" /\ bRun.stage = 1 /\ bRun.deadline = 0
      /\ DOMAIN bRun.res = 1..6
  BY Fields DEF BInit, IdleRun
<1>2. /\ bWorld.now = 0 /\ bWorld.repo = 0 /\ bWorld.attempt = 1 /\ bResult = {}
      /\ bGhost.start = {} /\ bGhost.made = 0 /\ bGhost.crashes = 0 /\ bGhost.losses = 0
      /\ DOMAIN bWorld = {"now", "repo", "attempt", "faults"}
      /\ DOMAIN bGhost = {"calls", "reverted", "start", "made", "crashes", "losses"}
  BY DEF BInit
<1>3. /\ bFiles.baseline = {} /\ bFiles.ck = {} /\ bFiles.budget = {}
      /\ DOMAIN bFiles = {"baseline", "budget", "out", "ck", "bundle", "ranking", "report", "inline"}
      /\ DOMAIN bFiles.out = Range(Outputs) /\ \A n \in Range(Outputs) : bFiles.out[n] = {}
  BY DEF BInit
<1>4. ~BWorking /\ bRun.pc \notin {"wait", "write", "checkpoint"}
  BY <1>1 DEF BWorking
<1>5. BShape
  BY <1>1, <1>2, <1>3, <1>4, Fields DEF BShape
<1>6. RunOnDisk /\ CallsBehindFiles /\ BudgetOfAttempt /\ CallsCounted
  BY <1>1, <1>2, <1>3, <1>4 DEF RunOnDisk, CallsBehindFiles, BudgetOfAttempt, CallsCounted
<1>7. PublishedFitsTogether
  BY <1>2 DEF PublishedFitsTogether
<1>8. AttemptBudgetKept
  BY <1>1, <1>2 DEF AttemptBudgetKept, MaxTotalRetries
<1> QED BY <1>5, <1>6, <1>7, <1>8 DEF BrainstormInv

LEMMA BPrepareKeeps == ASSUME BrainstormInv, BPrepare PROVE BrainstormInv'
<1>0. /\ bRun.pc = "idle" /\ bResult = {} /\ bTask' = bTask /\ bWorld' = bWorld
      /\ DOMAIN bRun = RunFields /\ bWorld.now \in Nat /\ bWorld.repo \in Nat
  BY Fields DEF BPrepare, BrainstormInv, BShape
<1>1. CASE ~(TaskAccepted(bTask) /\ BaselineHolds(bFiles))
  <2>1. PICK status \in {"BLOCKED", "FAILED"} : BFail(bRun, bFiles, status)
    BY <1>1 DEF BPrepare
  <2>2. bFiles' = bFiles /\ bGhost' = bGhost
    BY <1>1 DEF BPrepare
  <2> QED BY <1>0, <2>1, <2>2, FailKeeps
<1>2. CASE TaskAccepted(bTask) /\ BaselineHolds(bFiles)
  <2>1. /\ bFiles' = [bFiles EXCEPT !.baseline = {Fingerprint}, !.budget = LoadBudget(@)]
        /\ bRun' = [bRun EXCEPT !.pc = "stage", !.validated = {"brainstorm-input.json"}]
        /\ bGhost' = [bGhost EXCEPT !.start = IF @ = {} THEN {bWorld.now} ELSE @]
        /\ bResult' = {}
    BY <1>0, <1>2 DEF BPrepare
  <2>2. /\ DOMAIN bRun' = RunFields /\ bRun'.pc = "stage" /\ bRun'.res = bRun.res /\ bRun'.stage = bRun.stage
        /\ bRun'.deadline = bRun.deadline
    BY <1>0, <2>1 DEF RunFields
  <2>3. /\ DOMAIN bFiles' = DOMAIN bFiles /\ bFiles'.out = bFiles.out /\ bFiles'.ck = bFiles.ck
        /\ bFiles'.baseline = {bWorld.repo} /\ bFiles'.budget = LoadBudget(bFiles.budget)
        /\ bFiles'.bundle = bFiles.bundle /\ bFiles'.ranking = bFiles.ranking
    BY <2>1 DEF BrainstormInv, BShape, Fingerprint
  <2>4. /\ DOMAIN bGhost' = DOMAIN bGhost /\ bGhost'.made = bGhost.made /\ bGhost'.crashes = bGhost.crashes
        /\ bGhost'.losses = bGhost.losses /\ bGhost'.calls = bGhost.calls /\ bGhost'.reverted = bGhost.reverted
        /\ bGhost'.start = IF bGhost.start = {} THEN {bWorld.now} ELSE bGhost.start
    BY <2>1 DEF BrainstormInv, BShape
  <2>5. bTask.budget \in Nat
    BY <1>2 DEF TaskAccepted
  <2>6. BShape'
    BY <1>0, <2>1, <2>2, <2>3, <2>4, <2>5, Fields DEF BrainstormInv, BShape, InCall
  <2>7. ~BWorking /\ BWorking' /\ Finished' = 0 /\ bRun'.stage = 1
    BY <1>0, <2>2 DEF BWorking, Finished, BrainstormInv, BShape
  <2>8. RunOnDisk'
    BY <2>2, <2>7 DEF RunOnDisk
  <2>9. CallsBehindFiles'
    <3>1. bFiles'.baseline = {bWorld.repo} /\ bRun'.pc \notin {"write", "checkpoint"}
      BY <2>2, <2>3
    <3>2. CASE bFiles.baseline = {}
      <4>1. bFiles.ck = {}
        BY <3>2 DEF BrainstormInv, CallsBehindFiles
      <4> QED BY <2>3, <3>1, <4>1 DEF CallsBehindFiles
    <3>3. CASE bFiles.baseline = {bWorld.repo}
      <4>1. OnBaseline' => OnBaseline /\ bWorld'.repo = bWorld.repo
        BY <1>0, <2>4, <3>1, <3>3 DEF OnBaseline
      <4>2. \A k \in bFiles.ck : Called(k.name, k.input, k.sha)'
        BY <2>4, <4>1, CalledKeeps DEF BrainstormInv, CallsBehindFiles
      <4> QED BY <2>3, <3>1, <4>2 DEF CallsBehindFiles
    <3> QED BY <1>2, <3>2, <3>3 DEF BaselineHolds, Fingerprint
  <2>10. PICK n \in 0..6, b \in bFiles'.budget : /\ bFiles'.budget = {b} /\ SecuredUpTo(n)
           /\ DOMAIN b = {"attempt", "started", "used", "stages"}
           /\ b.attempt = bWorld.attempt /\ bGhost'.start = {b.started}
           /\ b.started \in Nat /\ b.started <= bWorld.now /\ b.used \in 0..MaxTotalRetries
           /\ bGhost.made <= n + b.used + bGhost.crashes + 6 * bGhost.losses
    <3>1. CASE bGhost.start = {}
      <4>0. bGhost.made = 0 /\ \A b \in bFiles.budget : b.attempt < bWorld.attempt
        BY <3>1 DEF BrainstormInv, BudgetOfAttempt
      <4>1. ~\E b \in bFiles.budget : b.attempt = bWorld.attempt
        BY <4>0 DEF BrainstormInv, BShape
      <4>2. PICK b : b = [attempt |-> bWorld.attempt, started |-> bWorld.now, used |-> 0,
                          stages |-> [m \in StageNames |-> 0]]
        OBVIOUS
      <4>3. bFiles'.budget = {b} /\ DOMAIN b = {"attempt", "started", "used", "stages"}
            /\ b.attempt = bWorld.attempt /\ b.started = bWorld.now /\ b.used = 0
        BY <2>3, <4>1, <4>2 DEF LoadBudget
      <4>4. SecuredUpTo(0)
        BY DEF SecuredUpTo
      <4>5. bGhost.crashes \in Nat /\ bGhost.losses \in Nat
        BY DEF BrainstormInv, BShape
      <4>6. 0 \in 0..6 /\ 0 \in 0..MaxTotalRetries /\ 0 <= 0 + 0 + bGhost.crashes + 6 * bGhost.losses
        BY <4>5 DEF MaxTotalRetries
      <4> QED BY <1>0, <2>4, <3>1, <4>0, <4>3, <4>4, <4>6
    <3>2. CASE bGhost.start # {}
      <4>1. PICK b \in bFiles.budget :
             /\ bFiles.budget = {b} /\ DOMAIN b = {"attempt", "started", "used", "stages"}
             /\ b.attempt = bWorld.attempt /\ bGhost.start = {b.started}
             /\ b.started \in Nat /\ b.started <= bWorld.now /\ b.used \in 0..MaxTotalRetries
        BY <3>2 DEF BrainstormInv, BudgetOfAttempt
      <4>2. PICK n \in 0..6 : SecuredUpTo(n) /\ bGhost.made <= n + b.used + 0 + bGhost.crashes + 6 * bGhost.losses
        BY <1>0, <3>2, <4>1 DEF BrainstormInv, CallsCounted, InCall
      <4>3. bFiles'.budget = {b} /\ bGhost'.start = {b.started}
        BY <2>3, <2>4, <4>1 DEF LoadBudget
      <4>4. bGhost.made <= n + b.used + bGhost.crashes + 6 * bGhost.losses
        BY <4>1, <4>2 DEF BrainstormInv, BShape, MaxTotalRetries
      <4> QED BY <4>1, <4>2, <4>3, <4>4
    <3> QED BY <3>1, <3>2
  <2>11. BudgetOfAttempt'
    BY <1>0, <2>2, <2>10 DEF BudgetOfAttempt
  <2>12. CallsCounted'
    <3>1. SecuredUpTo(n)'
      BY <1>0, <2>3, <2>10, DiskKeeps
    <3>2. bRun'.pc \notin {"call"} \cup InCall
      BY <2>2 DEF InCall
    <3>3. bGhost'.made <= n + b.used + 0 + bGhost'.crashes + 6 * bGhost'.losses
      BY <2>4, <2>10 DEF BrainstormInv, BShape, MaxTotalRetries
    <3> QED BY <2>10, <3>1, <3>2, <3>3 DEF CallsCounted
  <2>13. AttemptBudgetKept'
    BY <2>2, <2>4 DEF BrainstormInv, AttemptBudgetKept
  <2>14. PublishedFitsTogether'
    BY <2>1, NothingPublished
  <2> QED BY <2>6, <2>8, <2>9, <2>11, <2>12, <2>13, <2>14 DEF BrainstormInv
<1> QED BY <1>1, <1>2

\* A stage is finished, by its checkpoint or by its call: bRun' is After(bRun, s, p).
LEMMA AfterKeeps ==
  ASSUME BrainstormInv, bTask' = bTask, BWorking, bRun.pc \in {"stage", "checkpoint"}, NEW p,
         bRun' = After(bRun, bRun.stage, p), bFiles'.out = bFiles.out, DOMAIN bFiles' = DOMAIN bFiles,
         bFiles'.bundle = bFiles.bundle, bFiles'.ranking = bFiles.ranking,
         bFiles.out[Outputs[bRun.stage]] = {p}, ValidReply(bRun, bRun.stage, p),
         Checkpoint(bRun, bRun.stage, p) \in bFiles'.ck,
         \A s \in 1..(bRun.stage - 1) : \A q :
            Checkpoint(bRun, s, q) \in bFiles.ck => Checkpoint(bRun, s, q) \in bFiles'.ck,
         bWorld' = bWorld, bGhost' = bGhost, bResult' = bResult
  PROVE  BShape' /\ RunOnDisk' /\ \A s \in 1..bRun.stage : Secured(bRun, s)'
<1>s. PICK s : s = bRun.stage
  OBVIOUS
<1>0. /\ DOMAIN bRun = RunFields /\ s \in 1..6 /\ DOMAIN bRun.res = 1..6
  BY <1>s, Fields DEF BrainstormInv, BShape
<1>1. PICK x : x = bRun'
  OBVIOUS
<1>2. /\ DOMAIN bRun' = RunFields /\ bRun'.res[s] = {p} /\ bRun'.deadline = bRun.deadline /\ DOMAIN bRun'.res = 1..6
      /\ \A t \in 1..6 : t # s => bRun'.res[t] = bRun.res[t]
      /\ bRun'.pc = (CASE s = 2 -> "normalize" [] s = 4 -> "rank" [] s = 6 -> "report" [] OTHER -> "stage")
      /\ bRun'.stage = IF s = 6 THEN 6 ELSE s + 1
  BY <1>s, <1>0 DEF After, RunFields
<1>3. bRun'.stage \in 1..6 /\ bRun'.pc \in {"stage", "normalize", "rank", "report"}
  BY <1>0, <1>2
<1>4. BShape'
  BY <1>2, <1>3, Fields DEF BrainstormInv, BShape, BWorking
<1>5. Finished = s - 1 /\ \A t \in 1..(s - 1) : Secured(bRun, t)
  BY <1>s DEF BrainstormInv, RunOnDisk, Finished
<1>6. \A t \in 1..(s - 1) : Secured(bRun, t)'
  <2>1. s - 1 \in 0..6 /\ \A t \in 1..(s - 1) : bRun'.res[t] = bRun.res[t]
    BY <1>0, <1>2
  <2> QED BY <1>s, <1>5, <2>1, RunKeeps
<1>7. Secured(bRun, s)'
  <2>1. \A t \in 1..6 : t < s => x.res[t] = bRun.res[t]
    BY <1>0, <1>1, <1>2
  <2>2. ValidReply(x, s, p) /\ Checkpoint(x, s, p) = Checkpoint(bRun, s, p)
    BY <1>s, <1>0, <2>1, SameStage
  <2>3. ValidReply(bRun, s, p)' /\ Checkpoint(bRun, s, p)' = Checkpoint(bRun, s, p)
    BY <1>1, <2>2, RunAfter
  <2> QED BY <1>s, <1>2, <2>3 DEF Secured
<1>8. \A t \in 1..s : Secured(bRun, t)'
  BY <1>0, <1>6, <1>7
<1>9. BWorking' /\ Finished' = s
  BY <1>0, <1>2, <1>3 DEF BWorking, Finished
<1>10. bRun'.stage >= 3 /\ bRun'.pc # "normalize" => bFiles'.bundle = {RunBundle(bRun)'}
  <2> SUFFICES ASSUME bRun'.stage >= 3, bRun'.pc # "normalize" PROVE bFiles'.bundle = {RunBundle(bRun)'}
    OBVIOUS
  <2>1. s >= 3 /\ bFiles.bundle = {RunBundle(bRun)}
    BY <1>s, <1>0, <1>2 DEF BrainstormInv, RunOnDisk
  <2>2. Val(x, 1) = Val(bRun, 1) /\ Val(x, 2) = Val(bRun, 2)
    BY <1>0, <1>1, <1>2, <2>1, SameValues
  <2>3. RunBundle(x) = RunBundle(bRun) /\ RunBundle(bRun)' = RunBundle(x)
    BY <1>1, <2>2, RunAfter DEF RunBundle
  <2> QED BY <2>1, <2>3
<1>11. bRun'.stage >= 5 /\ bRun'.pc # "rank" => bFiles'.ranking = {RunRanking(bRun)'}
  <2> SUFFICES ASSUME bRun'.stage >= 5, bRun'.pc # "rank" PROVE bFiles'.ranking = {RunRanking(bRun)'}
    OBVIOUS
  <2>1. s >= 5 /\ bFiles.ranking = {RunRanking(bRun)}
    BY <1>s, <1>0, <1>2 DEF BrainstormInv, RunOnDisk
  <2>2. Val(x, 1) = Val(bRun, 1) /\ Val(x, 2) = Val(bRun, 2) /\ Val(x, 3) = Val(bRun, 3) /\ Val(x, 4) = Val(bRun, 4)
    BY <1>0, <1>1, <1>2, <2>1, SameValues
  <2>3. RunRanking(x) = RunRanking(bRun) /\ RunRanking(bRun)' = RunRanking(x)
    BY <1>1, <2>2, RunAfter DEF RunRanking, RunBundle
  <2> QED BY <2>1, <2>3
<1>12. /\ bRun'.pc = "normalize" => bRun'.stage = 3
       /\ bRun'.pc = "rank" => bRun'.stage = 5
       /\ bRun'.pc = "report" => bRun'.stage = 6
       /\ bRun'.pc \notin {"write", "checkpoint", "verify"}
  BY <1>0, <1>2
<1>13. RunOnDisk'
  BY <1>8, <1>9, <1>10, <1>11, <1>12 DEF RunOnDisk
<1> QED BY <1>s, <1>4, <1>8, <1>13

LEMMA BeginStageKeeps == ASSUME BrainstormInv, BeginStage PROVE BrainstormInv'
<1>s. PICK s : s = bRun.stage
  OBVIOUS
<1>0. /\ bRun.pc = "stage" /\ bTask' = bTask /\ bFiles' = bFiles /\ bWorld' = bWorld /\ bGhost' = bGhost
      /\ bResult' = bResult /\ DOMAIN bRun = RunFields /\ s \in 1..6
  BY <1>s, Fields DEF BeginStage, BrainstormInv, BShape
<1>1. BWorking /\ bResult' = {}
  BY <1>0 DEF BWorking, BrainstormInv, BShape
<1>2. /\ bRun'.pc \in {"stage", "normalize", "rank", "report", "call"} /\ BShape' /\ RunOnDisk' /\ CallsCounted'
  <2>1. CASE Reusable(bRun, s) # {}
    <3>1. PICK p : p = (CHOOSE q \in Reusable(bRun, s) : TRUE)
      OBVIOUS
    <3>2. p \in Reusable(bRun, s)
      BY <2>1, <3>1
    <3>3. bRun' = After(bRun, s, p)
      BY <1>s, <2>1, <3>1 DEF BeginStage
    <3>4. /\ p \in bFiles.out[Outputs[s]] /\ Checkpoint(bRun, s, p) \in bFiles.ck /\ ValidReply(bRun, s, p)
      BY <3>2 DEF Reusable
    <3>5. bFiles.out[Outputs[s]] = {p}
      BY <1>0, <3>4, OutputsDiffer DEF BrainstormInv, BShape
    <3>6. BShape' /\ RunOnDisk'
      BY <1>s, <1>0, <1>1, <3>3, <3>4, <3>5, AfterKeeps
    <3>7. bRun'.pc \in {"stage", "normalize", "rank", "report"}
      BY <1>0, <3>3 DEF After, RunFields
    <3>8. CallsCounted'
      BY <1>0, <3>7, CountedKeeps DEF InCall
    <3> QED BY <3>6, <3>7, <3>8
  <2>2. CASE Reusable(bRun, s) = {}
    <3>1. bRun' = [bRun EXCEPT !.pc = "call"]
      BY <1>s, <2>2 DEF BeginStage
    <3>2. /\ DOMAIN bRun' = RunFields /\ bRun'.pc = "call" /\ bRun'.res = bRun.res /\ bRun'.stage = s
          /\ bRun'.deadline = bRun.deadline
      BY <1>s, <1>0, <3>1 DEF RunFields
    <3>3. BShape'
      BY <1>s, <1>0, <1>1, <3>2, Fields DEF BrainstormInv, BShape, BWorking
    <3>4. Finished = s - 1 /\ Finished' = s - 1 /\ s - 1 \in 0..6 /\ \A t \in 1..(s - 1) : Secured(bRun, t)
      BY <1>s, <1>0, <1>1, <3>2 DEF Finished, BrainstormInv, RunOnDisk
    <3>5. \A t \in 1..(s - 1) : Secured(bRun, t)'
      BY <1>0, <3>2, <3>4, RunKeeps
    <3>6. RunBundle(bRun)' = RunBundle(bRun) /\ RunRanking(bRun)' = RunRanking(bRun)
      BY <1>0, <3>2, SameResults
    <3>7. RunOnDisk'
      BY <1>s, <1>0, <1>1, <3>2, <3>4, <3>5, <3>6 DEF BrainstormInv, RunOnDisk
    <3>8. CallsCounted'
      <4> SUFFICES ASSUME bGhost.start # {} PROVE CallsCounted'
        BY <1>0 DEF CallsCounted
      <4>1. PICK n \in 0..6, b \in bFiles.budget :
               SecuredUpTo(n) /\ bGhost.made <= n + b.used + 0 + bGhost.crashes + 6 * bGhost.losses
        BY <1>0 DEF BrainstormInv, CallsCounted, InCall
      <4>2. n <= s - 1
        <5> SUFFICES ASSUME ~(n <= s - 1) PROVE FALSE
          OBVIOUS
        <5>1. Secured(DiskRun, s)
          BY <1>0, <4>1 DEF SecuredUpTo
        <5>2. \A t \in 1..6 : t < s => DiskRun.res[t] = bRun.res[t]
          BY <1>0, <3>4, RunIsDisk
        <5>3. /\ \A p : ValidReply(DiskRun, s, p) <=> ValidReply(bRun, s, p)
              /\ \A p : Checkpoint(DiskRun, s, p) = Checkpoint(bRun, s, p)
          BY <1>0, <5>2, SameStage
        <5> QED BY <2>2, <5>1, <5>3 DEF Secured, Reusable
      <4>3. SecuredUpTo(n)'
        BY <1>0, <4>1, DiskKeeps
      <4> QED BY <1>0, <3>2, <4>1, <4>2, <4>3 DEF CallsCounted, InCall
    <3> QED BY <3>2, <3>3, <3>7, <3>8
  <2> QED BY <2>1, <2>2
<1>3. CallsBehindFiles'
  <2>1. OnBaseline' => OnBaseline /\ bWorld'.repo = bWorld.repo
    BY <1>0 DEF OnBaseline
  <2> QED BY <1>0, <1>1, <1>2, <2>1, BehindKeeps
<1>4. BudgetOfAttempt' /\ AttemptBudgetKept'
  BY <1>0, <1>2 DEF BrainstormInv, BudgetOfAttempt, AttemptBudgetKept
<1> QED BY <1>1, <1>2, <1>3, <1>4, NothingPublished DEF BrainstormInv

\* What a run that stays at its stage keeps on disk.
LEMMA StageKeeps ==
  ASSUME BrainstormInv, BWorking, bTask' = bTask, bRun'.res = bRun.res, bRun'.stage = bRun.stage,
         bFiles'.out = bFiles.out, bFiles'.ck = bFiles.ck,
         bFiles'.bundle = bFiles.bundle, bFiles'.ranking = bFiles.ranking,
         bRun.pc \in {"call"} \cup InCall, bRun'.pc \in {"call", "wait", "write"},
         bRun'.pc = "write" => \E p \in bRun'.reply : bRun'.reply = {p} /\ ValidReply(bRun, bRun.stage, p)
  PROVE  RunOnDisk'
<1>s. PICK s : s = bRun.stage
  OBVIOUS
<1>0. s \in 1..6
  BY <1>s DEF BrainstormInv, BShape
<1>1. Finished = s - 1 /\ Finished' = s - 1 /\ s - 1 \in 0..6 /\ \A t \in 1..(s - 1) : Secured(bRun, t)
  BY <1>s, <1>0 DEF Finished, BrainstormInv, RunOnDisk, InCall
<1>2. \A t \in 1..(s - 1) : Secured(bRun, t)'
  BY <1>1, RunKeeps
<1>3. /\ RunBundle(bRun)' = RunBundle(bRun) /\ RunRanking(bRun)' = RunRanking(bRun)
      /\ \A p : ValidReply(bRun, s, p)' <=> ValidReply(bRun, s, p)
  BY <1>0, SameResults
<1>4. bRun'.pc = "write" => \E p \in bRun'.reply : bRun'.reply = {p} /\ ValidReply(bRun, s, p)'
  BY <1>s, <1>3
<1>5. /\ s >= 3 => bFiles.bundle = {RunBundle(bRun)}
      /\ s >= 5 => bFiles.ranking = {RunRanking(bRun)}
  BY <1>s DEF BrainstormInv, RunOnDisk, InCall
<1>6. \A p : ValidReply(bRun, s, p)' => ValidReply(bRun, bRun.stage, p)'
  BY <1>s DEF ValidReply
<1> QED BY <1>s, <1>1, <1>2, <1>3, <1>4, <1>5, <1>6 DEF RunOnDisk

LEMMA CallEngineKeeps == ASSUME BrainstormInv, CallEngine PROVE BrainstormInv'
<1>0. /\ bRun.pc = "call" /\ bTask' = bTask /\ bFiles' = bFiles /\ bWorld' = bWorld
      /\ DOMAIN bRun = RunFields /\ bRun.stage \in 1..6 /\ bWorld.now \in Nat
  BY Fields DEF CallEngine, BrainstormInv, BShape
<1>1. BWorking /\ bResult = {} /\ bTask.budget \in Nat /\ bGhost.start # {}
  BY <1>0 DEF BWorking, BrainstormInv, BShape
<1>2. CASE Remaining < 1
  <2>1. BFail(bRun, bFiles, "FAILED") /\ bGhost' = bGhost
    BY <1>2 DEF CallEngine
  <2> QED BY <1>0, <2>1, FailKeeps
<1>3. CASE ~(Remaining < 1)
  <2>1. /\ bRun' = [bRun EXCEPT !.pc = "wait", !.deadline = bWorld.now + Min({StageCap, Remaining})]
        /\ bGhost' = [bGhost EXCEPT !.made = @ + 1]
        /\ bResult' = {}
    BY <1>1, <1>3 DEF CallEngine
  <2>2. /\ DOMAIN bRun' = RunFields /\ bRun'.pc = "wait" /\ bRun'.res = bRun.res /\ bRun'.stage = bRun.stage
        /\ bRun'.deadline = bWorld.now + Min({StageCap, Remaining})
    BY <1>0, <2>1 DEF RunFields
  <2>3. /\ DOMAIN bGhost' = DOMAIN bGhost /\ bGhost'.made = bGhost.made + 1 /\ bGhost'.crashes = bGhost.crashes
        /\ bGhost'.losses = bGhost.losses /\ bGhost'.start = bGhost.start /\ bGhost'.calls = bGhost.calls
        /\ bGhost'.reverted = bGhost.reverted
    BY <2>1 DEF BrainstormInv, BShape
  <2>4. PICK b \in bFiles.budget :
             /\ bFiles.budget = {b} /\ b.attempt = bWorld.attempt /\ bGhost.start = {b.started}
             /\ b.started \in Nat /\ b.started <= bWorld.now /\ b.used \in 0..MaxTotalRetries
    BY <1>1 DEF BrainstormInv, BudgetOfAttempt
  <2>5. Remaining = bTask.budget - (bWorld.now - b.started) /\ Remaining \in Int
    BY <1>0, <1>1, <2>4 DEF Remaining, Budget
  <2>6. Min({StageCap, Remaining}) \in Nat /\ Min({StageCap, Remaining}) <= Remaining
    <3>1. \E x \in {StageCap, Remaining} : \A y \in {StageCap, Remaining} : x <= y
      BY <2>5, BrainstormAssumption
    <3>2. /\ Min({StageCap, Remaining}) \in {StageCap, Remaining}
          /\ \A y \in {StageCap, Remaining} : Min({StageCap, Remaining}) <= y
      BY <3>1 DEF Min
    <3> QED BY <1>3, <2>5, <3>2, BrainstormAssumption
  <2>7. /\ bRun'.deadline \in Nat /\ bWorld.now <= bRun'.deadline
        /\ \A t \in bGhost.start : bRun'.deadline <= t + bTask.budget
    <3>1. PICK m \in Nat : m = Min({StageCap, Remaining}) /\ m <= Remaining
      BY <2>6
    <3>2. bRun'.deadline = bWorld.now + m /\ m <= bTask.budget - (bWorld.now - b.started)
      BY <2>2, <2>5, <3>1
    <3>3. bRun'.deadline <= b.started + bTask.budget /\ bRun'.deadline \in Nat /\ bWorld.now <= bRun'.deadline
      BY <1>0, <1>1, <2>4, <3>2
    <3> QED BY <2>4, <3>3
  <2>8. BShape'
    BY <1>0, <1>1, <2>1, <2>2, <2>3, <2>7, Fields DEF BrainstormInv, BShape, InCall
  <2>9. RunOnDisk'
    BY <1>0, <1>1, <2>2, StageKeeps DEF InCall
  <2>10. CallsBehindFiles'
    <3>1. OnBaseline' => OnBaseline /\ bWorld'.repo = bWorld.repo
      BY <1>0, <2>3 DEF OnBaseline
    <3> QED BY <1>0, <1>1, <2>2, <2>3, <3>1, BehindKeeps
  <2>11. BudgetOfAttempt'
    BY <1>0, <1>1, <2>2, <2>3, <2>7 DEF BrainstormInv, BudgetOfAttempt
  <2>12. PICK n \in 0..6 : /\ SecuredUpTo(n) /\ n <= bRun.stage - 1
           /\ bGhost.made <= n + b.used + 0 + bGhost.crashes + 6 * bGhost.losses
    BY <1>0, <1>1, <2>4 DEF BrainstormInv, CallsCounted, InCall
  <2>13. bGhost.made \in Nat /\ bGhost.crashes \in Nat /\ bGhost.losses \in Nat /\ b.used \in 0..2
    BY <2>4 DEF BrainstormInv, BShape, MaxTotalRetries
  <2>14. bGhost'.made <= n + b.used + 1 + bGhost'.crashes + 6 * bGhost'.losses
    BY <2>3, <2>12, <2>13
  <2>15. CallsCounted'
    <3>1. SecuredUpTo(n)'
      BY <1>0, <2>12, DiskKeeps
    <3> QED BY <1>0, <2>2, <2>4, <2>12, <2>14, <3>1 DEF CallsCounted, InCall
  <2>16. AttemptBudgetKept'
    <3>1. bGhost'.made <= 6 + 2 + bGhost'.crashes + 6 * bGhost'.losses
      BY <1>0, <2>3, <2>12, <2>13, <2>14
    <3> QED BY <1>0, <2>3, <2>7, <3>1 DEF AttemptBudgetKept, MaxTotalRetries
  <2> QED BY <2>1, <2>8, <2>9, <2>10, <2>11, <2>15, <2>16, NothingPublished DEF BrainstormInv
<1> QED BY <1>2, <1>3

LEMMA EngineReturnsKeeps == ASSUME BrainstormInv, NEW p, NEW later, EngineReturns(p, later) PROVE BrainstormInv'
<1>s. PICK s : s = bRun.stage
  OBVIOUS
<1>0. /\ bRun.pc = "wait" /\ bTask' = bTask /\ DOMAIN bRun = RunFields /\ s \in 1..6
      /\ DOMAIN bWorld = {"now", "repo", "attempt", "faults"} /\ bWorld.now \in Nat /\ bRun.deadline \in Nat
  BY <1>s, Fields DEF EngineReturns, BrainstormInv, BShape
<1>1. BWorking /\ bResult = {} /\ bTask.budget \in Nat /\ bGhost.start # {}
  BY <1>0 DEF BWorking, BrainstormInv, BShape
<1>2. /\ DOMAIN bWorld' = {"now", "repo", "attempt", "faults"} /\ bWorld'.now \in Nat /\ bWorld.now <= bWorld'.now
      /\ bWorld'.repo = bWorld.repo /\ bWorld'.attempt = bWorld.attempt
  <2>1. bWorld' = [bWorld EXCEPT !.now = IF later THEN bRun.deadline ELSE @,
                                 !.faults = IF ValidReply(bRun, s, p) THEN @ ELSE @ + 1]
    BY <1>s DEF EngineReturns
  <2>2. bWorld.now <= bRun.deadline
    BY <1>0 DEF BrainstormInv, BudgetOfAttempt
  <2> QED BY <1>0, <2>1, <2>2
<1>3. PICK b \in bFiles.budget :
             /\ bFiles.budget = {b} /\ DOMAIN b = {"attempt", "started", "used", "stages"}
             /\ b.attempt = bWorld.attempt /\ bGhost.start = {b.started}
             /\ b.started \in Nat /\ b.started <= bWorld.now /\ b.used \in 0..MaxTotalRetries
  BY <1>1 DEF BrainstormInv, BudgetOfAttempt
<1>4. CASE ValidReply(bRun, s, p)
  <2>1. /\ bRun' = [bRun EXCEPT !.pc = "write", !.reply = {p}] /\ bFiles' = bFiles /\ bResult' = {}
        /\ bGhost' = [bGhost EXCEPT !.calls = @ \cup {<<StageName(bRun, s), bWorld.repo, StageInput(bRun, s), p>>}]
    BY <1>s, <1>1, <1>4 DEF EngineReturns
  <2>2. /\ DOMAIN bRun' = RunFields /\ bRun'.pc = "write" /\ bRun'.res = bRun.res /\ bRun'.stage = bRun.stage
        /\ bRun'.deadline = bRun.deadline /\ bRun'.reply = {p}
    BY <1>0, <2>1 DEF RunFields
  <2>3. /\ DOMAIN bGhost' = DOMAIN bGhost /\ bGhost'.made = bGhost.made /\ bGhost'.crashes = bGhost.crashes
        /\ bGhost'.losses = bGhost.losses /\ bGhost'.start = bGhost.start /\ bGhost'.reverted = bGhost.reverted
        /\ bGhost'.calls = bGhost.calls \cup {<<StageName(bRun, s), bWorld.repo, StageInput(bRun, s), p>>}
    BY <2>1 DEF BrainstormInv, BShape
  <2>4. BShape'
    BY <1>0, <1>1, <1>2, <2>1, <2>2, <2>3, Fields DEF BrainstormInv, BShape, InCall
  <2>5. RunOnDisk'
    BY <1>s, <1>0, <1>1, <1>4, <2>1, <2>2, StageKeeps DEF InCall
  <2>6. CallsBehindFiles'
    <3>1. bGhost.calls \subseteq bGhost'.calls /\ (OnBaseline' => OnBaseline /\ bWorld'.repo = bWorld.repo)
      BY <1>2, <2>1, <2>3 DEF OnBaseline
    <3>2. \A k \in bFiles.ck : Called(k.name, k.input, k.sha)'
      BY <3>1, CalledKeeps DEF BrainstormInv, CallsBehindFiles
    <3>3. PICK n : n = StageName(bRun, s)
      OBVIOUS
    <3>4. PICK i : i = StageInput(bRun, s)
      OBVIOUS
    <3>5. Called(n, i, p)'
      <4>1. PICK call : call = <<n, bWorld.repo, i, p>>
        OBVIOUS
      <4>2. call \in bGhost'.calls /\ call = <<n, call[2], i, p>> /\ call[2] = bWorld.repo
        BY <2>3, <3>3, <3>4, <4>1
      <4> QED BY <1>2, <4>2 DEF Called
    <3>6. StageName(bRun, s)' = n /\ StageInput(bRun, s)' = i
      BY <1>0, <2>2, <3>3, <3>4, SameResults
    <3>7. StageName(bRun, bRun.stage)' = n /\ StageInput(bRun, bRun.stage)' = i
      BY <1>s, <2>2, <3>6 DEF StageName, EngineOf, StageInput
    <3>8. \A q \in bRun'.reply : Called(StageName(bRun, bRun.stage), StageInput(bRun, bRun.stage), q)'
      BY <2>2, <3>5, <3>7 DEF Called
    <3> QED BY <1>1, <2>1, <3>2, <3>8 DEF BrainstormInv, CallsBehindFiles
  <2>7. BudgetOfAttempt'
    BY <1>0, <1>1, <1>2, <1>3, <2>1, <2>2, <2>3 DEF BudgetOfAttempt
  <2>8. CallsCounted'
    BY <1>0, <2>1, <2>2, <2>3, CountedKeeps DEF InCall
  <2>9. AttemptBudgetKept'
    BY <2>2, <2>3 DEF BrainstormInv, AttemptBudgetKept
  <2> QED BY <2>1, <2>4, <2>5, <2>6, <2>7, <2>8, <2>9, NothingPublished DEF BrainstormInv
<1>5. CASE ~ValidReply(bRun, s, p) /\ (Budget.stages[StageName(bRun, s)] >= MaxStageRetries \/ Budget.used >= MaxTotalRetries)
  <2>1. BFail(bRun, bFiles, "FAILED") /\ bFiles' = bFiles /\ bGhost' = bGhost
    BY <1>s, <1>5 DEF EngineReturns
  <2> QED BY <1>0, <1>2, <2>1, FailKeeps
<1>6. CASE ~ValidReply(bRun, s, p) /\ ~(Budget.stages[StageName(bRun, s)] >= MaxStageRetries \/ Budget.used >= MaxTotalRetries)
  <2>0. /\ ~ValidReply(bRun, bRun.stage, p)
        /\ ~(Budget.stages[StageName(bRun, bRun.stage)] >= MaxStageRetries \/ Budget.used >= MaxTotalRetries)
    BY <1>s, <1>6
  <2>1. /\ bRun' = [bRun EXCEPT !.pc = "call"] /\ bGhost' = bGhost /\ bResult' = {}
        /\ bFiles' = [bFiles EXCEPT !.budget =
              {[c EXCEPT !.stages[StageName(bRun, bRun.stage)] = @ + 1, !.used = @ + 1] : c \in @}]
    BY <1>1, <2>0 DEF EngineReturns
  <2>2. /\ DOMAIN bRun' = RunFields /\ bRun'.pc = "call" /\ bRun'.res = bRun.res /\ bRun'.stage = bRun.stage
        /\ bRun'.deadline = bRun.deadline
    BY <1>0, <2>1 DEF RunFields
  <2>3. Budget = b /\ b.used < MaxTotalRetries
    BY <1>3, <1>6 DEF Budget, MaxTotalRetries
  <2>4. PICK c : c = [b EXCEPT !.stages[StageName(bRun, bRun.stage)] = @ + 1, !.used = @ + 1]
    OBVIOUS
  <2>5. /\ bFiles'.budget = {c} /\ bFiles'.out = bFiles.out /\ bFiles'.ck = bFiles.ck
        /\ bFiles'.baseline = bFiles.baseline /\ DOMAIN bFiles' = DOMAIN bFiles
        /\ bFiles'.bundle = bFiles.bundle /\ bFiles'.ranking = bFiles.ranking
    BY <1>3, <2>1, <2>4 DEF BrainstormInv, BShape
  <2>6. /\ DOMAIN c = {"attempt", "started", "used", "stages"} /\ c.attempt = b.attempt
        /\ c.started = b.started /\ c.used = b.used + 1
    BY <1>3, <2>4
  <2>7. c.used \in 0..MaxTotalRetries
    BY <1>3, <2>3, <2>6 DEF MaxTotalRetries
  <2>8. BShape'
    BY <1>0, <1>1, <1>2, <2>1, <2>2, <2>5, Fields DEF BrainstormInv, BShape, InCall
  <2>9. RunOnDisk'
    BY <1>0, <1>1, <2>2, <2>5, StageKeeps DEF InCall
  <2>10. CallsBehindFiles'
    <3>1. OnBaseline' => OnBaseline /\ bWorld'.repo = bWorld.repo
      BY <1>2, <2>1, <2>5 DEF OnBaseline
    <3> QED BY <1>0, <1>1, <2>1, <2>2, <2>5, <3>1, BehindKeeps
  <2>11. BudgetOfAttempt'
    BY <1>0, <1>1, <1>2, <1>3, <2>1, <2>2, <2>5, <2>6, <2>7 DEF BudgetOfAttempt
  <2>12. CallsCounted'
    <3>1. PICK m \in 0..6 : /\ SecuredUpTo(m) /\ m <= bRun.stage - 1
           /\ bGhost.made <= m + b.used + 1 + bGhost.crashes + 6 * bGhost.losses
      BY <1>0, <1>1, <1>3 DEF BrainstormInv, CallsCounted, InCall
    <3>2. SecuredUpTo(m)'
      BY <1>0, <2>5, <3>1, DiskKeeps
    <3>3. bGhost'.made <= m + c.used + 0 + bGhost'.crashes + 6 * bGhost'.losses
      BY <1>3, <2>1, <2>6, <3>1 DEF BrainstormInv, BShape, MaxTotalRetries
    <3> QED BY <2>2, <2>5, <3>1, <3>2, <3>3 DEF CallsCounted, InCall
  <2>13. AttemptBudgetKept'
    BY <2>1, <2>2 DEF BrainstormInv, AttemptBudgetKept
  <2> QED BY <2>1, <2>8, <2>9, <2>10, <2>11, <2>12, <2>13, NothingPublished DEF BrainstormInv
<1> QED BY <1>4, <1>5, <1>6

LEMMA EngineFailsKeeps == ASSUME BrainstormInv, NEW status \in {"BLOCKED", "FAILED"}, EngineFails(status) PROVE BrainstormInv'
<1>1. /\ bRun.pc # "over" /\ BFail(bRun, bFiles, status) /\ bTask' = bTask /\ bFiles' = bFiles
      /\ bWorld' = bWorld /\ bGhost' = bGhost
  BY DEF EngineFails
<1>2. bWorld.now \in Nat /\ bWorld.now <= bWorld.now
  BY DEF BrainstormInv, BShape
<1> QED BY <1>1, <1>2, FailKeeps

LEMMA WriteOutputKeeps == ASSUME BrainstormInv, WriteOutput PROVE BrainstormInv'
<1>s. PICK s : s = bRun.stage
  OBVIOUS
<1>0. /\ bRun.pc = "write" /\ bTask' = bTask /\ bWorld' = bWorld /\ bGhost' = bGhost /\ bResult' = bResult
      /\ DOMAIN bRun = RunFields /\ s \in 1..6 /\ bFiles' = [bFiles EXCEPT !.out[Outputs[s]] = bRun.reply]
      /\ bRun' = [bRun EXCEPT !.pc = "checkpoint"]
  BY <1>s, Fields DEF WriteOutput, BrainstormInv, BShape
<1>1. BWorking /\ bResult' = {}
  BY <1>0 DEF BWorking, BrainstormInv, BShape
<1>2. PICK p : bRun.reply = {p} /\ ValidReply(bRun, s, p)
  BY <1>s, <1>0, <1>1 DEF BrainstormInv, RunOnDisk
<1>3. /\ DOMAIN bRun' = RunFields /\ bRun'.pc = "checkpoint" /\ bRun'.res = bRun.res /\ bRun'.stage = bRun.stage
      /\ bRun'.deadline = bRun.deadline /\ bRun'.reply = bRun.reply
  BY <1>0 DEF RunFields
<1>4. /\ DOMAIN bFiles' = DOMAIN bFiles /\ bFiles'.ck = bFiles.ck /\ bFiles'.baseline = bFiles.baseline
      /\ bFiles'.budget = bFiles.budget /\ bFiles'.bundle = bFiles.bundle /\ bFiles'.ranking = bFiles.ranking
      /\ DOMAIN bFiles'.out = Range(Outputs) /\ bFiles'.out[Outputs[s]] = {p}
      /\ \A n \in Range(Outputs) : n # Outputs[s] => bFiles'.out[n] = bFiles.out[n]
  BY <1>0, <1>2, OutputsDiffer DEF BrainstormInv, BShape
<1>5. BShape'
  BY <1>0, <1>1, <1>3, <1>4, Fields DEF BrainstormInv, BShape, InCall, BWorking
<1>6. \A t \in 1..(s - 1) : bFiles'.out[Outputs[t]] = bFiles.out[Outputs[t]]
  BY <1>0, <1>4, OutputsDiffer
<1>7. Finished = s - 1 /\ Finished' = s - 1 /\ s - 1 \in 0..6 /\ \A t \in 1..(s - 1) : Secured(bRun, t)
  BY <1>s, <1>0, <1>1, <1>3 DEF Finished, BrainstormInv, RunOnDisk
<1>8. \A t \in 1..(s - 1) : Secured(bRun, t)'
  BY <1>0, <1>3, <1>4, <1>6, <1>7, RunKeeps
<1>9. /\ RunBundle(bRun)' = RunBundle(bRun) /\ RunRanking(bRun)' = RunRanking(bRun)
      /\ \A q : ValidReply(bRun, s, q)' <=> ValidReply(bRun, s, q)
  BY <1>0, <1>3, SameResults
<1>10. RunOnDisk'
  <2>1. \A q : ValidReply(bRun, s, q)' => ValidReply(bRun, bRun.stage, q)'
    BY <1>s, <1>3 DEF ValidReply
  <2>2. p \in bRun'.reply /\ bRun'.reply = {p} /\ ValidReply(bRun, bRun.stage, p)'
    BY <1>2, <1>3, <1>9, <2>1
  <2>3. /\ s >= 3 => bFiles.bundle = {RunBundle(bRun)}
        /\ s >= 5 => bFiles.ranking = {RunRanking(bRun)}
    BY <1>s, <1>0, <1>1 DEF BrainstormInv, RunOnDisk
  <2> QED BY <1>s, <1>2, <1>3, <1>4, <1>7, <1>8, <1>9, <2>2, <2>3 DEF RunOnDisk
<1>11. CallsBehindFiles'
  <2>1. OnBaseline' => OnBaseline /\ bWorld'.repo = bWorld.repo
    BY <1>0, <1>4 DEF OnBaseline
  <2> QED BY <1>0, <1>1, <1>3, <1>4, <2>1, BehindKeeps
<1>12. BudgetOfAttempt' /\ AttemptBudgetKept'
  BY <1>0, <1>3, <1>4 DEF BrainstormInv, BudgetOfAttempt, AttemptBudgetKept
<1>13. CallsCounted'
  <2> SUFFICES ASSUME bGhost.start # {} PROVE CallsCounted'
    BY <1>0 DEF CallsCounted
  <2>1. PICK n \in 0..6, b \in bFiles.budget : /\ SecuredUpTo(n) /\ n <= s - 1
           /\ bGhost.made <= n + b.used + 1 + bGhost.crashes + 6 * bGhost.losses
    BY <1>s, <1>0 DEF BrainstormInv, CallsCounted, InCall
  <2>2. \A t \in 1..n : bFiles'.out[Outputs[t]] = bFiles.out[Outputs[t]]
    BY <1>0, <1>6, <2>1
  <2>3. SecuredUpTo(n)'
    BY <1>0, <1>4, <2>1, <2>2, DiskKeeps
  <2> QED BY <1>s, <1>0, <1>3, <1>4, <2>1, <2>3 DEF CallsCounted, InCall
<1> QED BY <1>1, <1>5, <1>10, <1>11, <1>12, <1>13, NothingPublished DEF BrainstormInv

LEMMA WriteCheckpointKeeps == ASSUME BrainstormInv, WriteCheckpoint PROVE BrainstormInv'
<1>s. PICK s : s = bRun.stage
  OBVIOUS
<1>0. /\ bRun.pc = "checkpoint" /\ bTask' = bTask /\ bWorld' = bWorld /\ bGhost' = bGhost /\ bResult' = bResult
      /\ DOMAIN bRun = RunFields /\ s \in 1..6
  BY <1>s, Fields DEF WriteCheckpoint, BrainstormInv, BShape
<1>1. BWorking /\ bResult' = {} /\ bGhost.start # {}
  BY <1>0 DEF BWorking, BrainstormInv, BShape
<1>2. PICK p : bRun.reply = {p} /\ ValidReply(bRun, s, p) /\ bFiles.out[Outputs[s]] = {p}
  BY <1>s, <1>0, <1>1 DEF BrainstormInv, RunOnDisk
<1>3. p = (CHOOSE x \in bRun.reply : TRUE)
  BY <1>2
<1>4. /\ bFiles' = [bFiles EXCEPT !.ck = {k \in @ : k.name # StageName(bRun, s)} \cup {Checkpoint(bRun, s, p)}]
      /\ bRun' = After(bRun, s, p)
  BY <1>s, <1>3 DEF WriteCheckpoint
<1>5. /\ DOMAIN bFiles' = DOMAIN bFiles /\ bFiles'.out = bFiles.out /\ bFiles'.baseline = bFiles.baseline
      /\ bFiles'.budget = bFiles.budget /\ bFiles'.bundle = bFiles.bundle /\ bFiles'.ranking = bFiles.ranking
      /\ bFiles'.ck = {k \in bFiles.ck : k.name # StageName(bRun, s)} \cup {Checkpoint(bRun, s, p)}
  BY <1>4 DEF BrainstormInv, BShape
<1>6. \A t \in 1..(s - 1) : \A q : Checkpoint(bRun, t, q) \in bFiles.ck => Checkpoint(bRun, t, q) \in bFiles'.ck
  <2> TAKE t \in 1..(s - 1)
  <2> TAKE q
  <2>1. t \in 1..6 /\ t # s
    BY <1>0
  <2>2. StageName(bRun, t) # StageName(bRun, s)
    BY <1>0, <2>1, NamesDiffer
  <2> QED BY <1>5, <2>2 DEF Checkpoint
<1>7. BShape' /\ RunOnDisk' /\ \A t \in 1..s : Secured(bRun, t)'
  BY <1>s, <1>0, <1>1, <1>2, <1>4, <1>5, <1>6, AfterKeeps
<1>8. bRun'.pc \in {"stage", "normalize", "rank", "report"}
  BY <1>0, <1>4 DEF After, RunFields
<1>9. CallsBehindFiles'
  <2>1. ASSUME NEW k \in bFiles'.ck PROVE Called(k.name, k.input, k.sha)
    <3>1. CASE k \in bFiles.ck
      BY <3>1 DEF BrainstormInv, CallsBehindFiles
    <3>2. CASE k = Checkpoint(bRun, s, p)
      <4>1. Called(StageName(bRun, s), StageInput(bRun, s), p)
        BY <1>s, <1>0, <1>2 DEF BrainstormInv, CallsBehindFiles
      <4> QED BY <3>2, <4>1 DEF Checkpoint
    <3> QED BY <1>5, <3>1, <3>2
  <2>2. OnBaseline' => OnBaseline /\ bWorld'.repo = bWorld.repo
    BY <1>0, <1>5 DEF OnBaseline
  <2>3. \A k \in bFiles'.ck : Called(k.name, k.input, k.sha)'
    BY <1>0, <2>1, <2>2, CalledKeeps
  <2> QED BY <1>1, <1>5, <1>8, <2>3 DEF BrainstormInv, CallsBehindFiles
<1>10. BudgetOfAttempt' /\ AttemptBudgetKept'
  BY <1>0, <1>5, <1>8 DEF BrainstormInv, BudgetOfAttempt, AttemptBudgetKept
<1>11. CallsCounted'
  <2>1. PICK n \in 0..6, b \in bFiles.budget : /\ SecuredUpTo(n) /\ n <= s - 1
           /\ bGhost.made <= n + b.used + 1 + bGhost.crashes + 6 * bGhost.losses
    BY <1>s, <1>0, <1>1 DEF BrainstormInv, CallsCounted, InCall
  <2>2. SecuredUpTo(s)' /\ s \in 0..6
    BY <1>0, <1>7, RunIsDiskAfter
  <2>3. bGhost'.made <= s + b.used + 0 + bGhost'.crashes + 6 * bGhost'.losses
    <3>1. b.used \in Nat /\ bGhost.made \in Nat /\ bGhost.crashes \in Nat /\ bGhost.losses \in Nat
      BY <1>1 DEF BrainstormInv, BudgetOfAttempt, BShape, MaxTotalRetries
    <3> QED BY <1>0, <2>1, <3>1
  <2> QED BY <1>0, <1>5, <1>8, <2>1, <2>2, <2>3 DEF CallsCounted, InCall
<1> QED BY <1>1, <1>7, <1>9, <1>10, <1>11, NothingPublished DEF BrainstormInv

\* The steps of Hermes itself: they write what follows from the outputs.
LEMMA DerivedKeeps ==
  ASSUME BrainstormInv, bRun.pc \in {"normalize", "rank", "report"}, bTask' = bTask, bWorld' = bWorld,
         bGhost' = bGhost, bResult' = bResult, DOMAIN bRun' = DOMAIN bRun, bRun'.res = bRun.res,
         bRun'.stage = bRun.stage, bRun'.deadline = bRun.deadline,
         bRun'.pc = IF bRun.pc = "report" THEN "verify" ELSE "stage",
         DOMAIN bFiles' = DOMAIN bFiles, bFiles'.out = bFiles.out, bFiles'.ck = bFiles.ck,
         bFiles'.baseline = bFiles.baseline, bFiles'.budget = bFiles.budget,
         RunOnDisk'
  PROVE  BrainstormInv'
<1>1. BWorking /\ BWorking' /\ bResult' = {}
  BY DEF BWorking, BrainstormInv, BShape
<1>2. BShape'
  BY <1>1 DEF BrainstormInv, BShape, InCall
<1>3. CallsBehindFiles'
  <2>1. OnBaseline' => OnBaseline /\ bWorld'.repo = bWorld.repo
    BY DEF OnBaseline
  <2> QED BY <1>1, <2>1, BehindKeeps
<1>4. BudgetOfAttempt' /\ AttemptBudgetKept'
  BY DEF BrainstormInv, BudgetOfAttempt, AttemptBudgetKept
<1>5. CallsCounted'
  BY CountedKeeps DEF InCall
<1> QED BY <1>1, <1>2, <1>3, <1>4, <1>5, NothingPublished DEF BrainstormInv

LEMMA DerivedOnDisk ==
  ASSUME BrainstormInv, bRun.pc \in {"normalize", "rank", "report"}, bTask' = bTask,
         bRun'.res = bRun.res, bRun'.stage = bRun.stage,
         bRun'.pc = IF bRun.pc = "report" THEN "verify" ELSE "stage",
         bFiles'.out = bFiles.out, bFiles'.ck = bFiles.ck
  PROVE  /\ RunBundle(bRun)' = RunBundle(bRun) /\ RunRanking(bRun)' = RunRanking(bRun)
         /\ Val(bRun, 5)' = Val(bRun, 5) /\ Val(bRun, 6)' = Val(bRun, 6)
         /\ \A s \in 1..Finished' : Secured(bRun, s)'
<1>1. BWorking
  BY DEF BWorking
<1>2. PICK n \in 0..6 : n = Finished /\ n = Finished'
  <2>1. Finished \in 0..6 /\ Finished' = Finished
    BY DEF Finished, BrainstormInv, BShape
  <2> QED BY <2>1
<1>3. \A s \in 1..n : Secured(bRun, s)
  BY <1>1, <1>2 DEF BrainstormInv, RunOnDisk
<1>4. \A s \in 1..n : Secured(bRun, s)'
  <2>1. \A s \in 1..n : s \in 1..6
    OBVIOUS
  <2> QED BY <1>3, <2>1, RunKeeps
<1>5. \A s \in 1..6 : Val(bRun, s)' = Val(bRun, s)
  BY SameResults
<1>6. RunBundle(bRun)' = RunBundle(bRun) /\ RunRanking(bRun)' = RunRanking(bRun)
  <2>1. 1 \in 1..6
    OBVIOUS
  <2> QED BY <2>1, SameResults
<1> QED BY <1>2, <1>4, <1>5, <1>6

LEMMA NormalizeKeeps == ASSUME BrainstormInv, Normalize PROVE BrainstormInv'
<1>0. /\ bRun.pc = "normalize" /\ bTask' = bTask /\ bWorld' = bWorld /\ bGhost' = bGhost /\ bResult' = bResult
      /\ DOMAIN bRun = RunFields /\ bFiles' = [bFiles EXCEPT !.bundle = {RunBundle(bRun)}]
      /\ bRun' = [bRun EXCEPT !.pc = "stage", !.validated = @ \cup {"candidates-anonymized.json"}]
  BY Fields DEF Normalize, BrainstormInv, BShape
<1>1. /\ DOMAIN bRun' = DOMAIN bRun /\ bRun'.pc = "stage" /\ bRun'.res = bRun.res /\ bRun'.stage = bRun.stage
      /\ bRun'.deadline = bRun.deadline
  BY <1>0 DEF RunFields
<1>2. /\ DOMAIN bFiles' = DOMAIN bFiles /\ bFiles'.out = bFiles.out /\ bFiles'.ck = bFiles.ck
      /\ bFiles'.baseline = bFiles.baseline /\ bFiles'.budget = bFiles.budget
      /\ bFiles'.bundle = {RunBundle(bRun)}
  BY <1>0 DEF BrainstormInv, BShape
<1>3. bRun.stage = 3
  BY <1>0 DEF BrainstormInv, RunOnDisk, BWorking
<1>4. RunBundle(bRun)' = RunBundle(bRun) /\ \A s \in 1..Finished' : Secured(bRun, s)'
  BY <1>0, <1>1, <1>2, DerivedOnDisk
<1>5. RunOnDisk'
  BY <1>1, <1>2, <1>3, <1>4 DEF RunOnDisk
<1> QED BY <1>0, <1>1, <1>2, <1>5, DerivedKeeps

LEMMA RankStageKeeps == ASSUME BrainstormInv, RankStage PROVE BrainstormInv'
<1>0. /\ bRun.pc = "rank" /\ bTask' = bTask /\ bWorld' = bWorld /\ bGhost' = bGhost /\ bResult' = bResult
      /\ DOMAIN bRun = RunFields /\ bFiles' = [bFiles EXCEPT !.ranking = {RunRanking(bRun)}]
      /\ bRun' = [bRun EXCEPT !.pc = "stage", !.validated = @ \cup {"ranking.json"}]
  BY Fields DEF RankStage, BrainstormInv, BShape
<1>1. /\ DOMAIN bRun' = DOMAIN bRun /\ bRun'.pc = "stage" /\ bRun'.res = bRun.res /\ bRun'.stage = bRun.stage
      /\ bRun'.deadline = bRun.deadline
  BY <1>0 DEF RunFields
<1>2. /\ DOMAIN bFiles' = DOMAIN bFiles /\ bFiles'.out = bFiles.out /\ bFiles'.ck = bFiles.ck
      /\ bFiles'.baseline = bFiles.baseline /\ bFiles'.budget = bFiles.budget
      /\ bFiles'.ranking = {RunRanking(bRun)} /\ bFiles'.bundle = bFiles.bundle
  BY <1>0 DEF BrainstormInv, BShape
<1>3. bRun.stage = 5 /\ bFiles.bundle = {RunBundle(bRun)}
  BY <1>0 DEF BrainstormInv, RunOnDisk, BWorking
<1>4. /\ RunBundle(bRun)' = RunBundle(bRun) /\ RunRanking(bRun)' = RunRanking(bRun)
      /\ \A s \in 1..Finished' : Secured(bRun, s)'
  BY <1>0, <1>1, <1>2, DerivedOnDisk
<1>5. RunOnDisk'
  BY <1>1, <1>2, <1>3, <1>4 DEF RunOnDisk
<1> QED BY <1>0, <1>1, <1>2, <1>5, DerivedKeeps

LEMMA ReportStageKeeps == ASSUME BrainstormInv, ReportStage PROVE BrainstormInv'
<1>0. /\ bRun.pc = "report" /\ bTask' = bTask /\ bWorld' = bWorld /\ bGhost' = bGhost
      /\ DOMAIN bRun = RunFields
  BY Fields DEF ReportStage, BrainstormInv, BShape
<1>1. CASE ~ReportFits(RunRanking(bRun), Val(bRun, 5), Val(bRun, 6))
  <2>1. BFail(bRun, bFiles, "FAILED") /\ bFiles' = bFiles
    BY <1>1 DEF ReportStage
  <2>2. bWorld.now \in Nat /\ bWorld.now <= bWorld.now
    BY DEF BrainstormInv, BShape
  <2> QED BY <1>0, <2>1, <2>2, FailKeeps
<1>2. CASE ReportFits(RunRanking(bRun), Val(bRun, 5), Val(bRun, 6))
  <2>r. PICK report : report = BuildReport(RunBundle(bRun), RunRanking(bRun), Val(bRun, 5), Val(bRun, 6))
    OBVIOUS
  <2>1. /\ bFiles' = [bFiles EXCEPT !.report = {report},
                                    !.inline = IF TooLong(RunBundle(bRun)) THEN {report} ELSE {}]
        /\ bRun'.pc = "verify" /\ bResult' = bResult /\ DOMAIN bRun' = DOMAIN bRun /\ bRun'.res = bRun.res
        /\ bRun'.stage = bRun.stage /\ bRun'.deadline = bRun.deadline
    BY <1>0, <1>2, <2>r DEF ReportStage, RunFields
  <2>2. /\ DOMAIN bFiles' = DOMAIN bFiles /\ bFiles'.out = bFiles.out /\ bFiles'.ck = bFiles.ck
        /\ bFiles'.baseline = bFiles.baseline /\ bFiles'.budget = bFiles.budget
        /\ bFiles'.ranking = bFiles.ranking /\ bFiles'.bundle = bFiles.bundle /\ bFiles'.report = {report}
        /\ bFiles'.inline = IF TooLong(RunBundle(bRun)) THEN {report} ELSE {}
    BY <2>1 DEF BrainstormInv, BShape
  <2>3. bRun.stage = 6 /\ bFiles.bundle = {RunBundle(bRun)} /\ bFiles.ranking = {RunRanking(bRun)}
    BY <1>0 DEF BrainstormInv, RunOnDisk, BWorking
  <2>4. /\ RunBundle(bRun)' = RunBundle(bRun) /\ RunRanking(bRun)' = RunRanking(bRun)
        /\ Val(bRun, 5)' = Val(bRun, 5) /\ Val(bRun, 6)' = Val(bRun, 6)
        /\ \A s \in 1..Finished' : Secured(bRun, s)'
    BY <1>0, <2>1, <2>2, DerivedOnDisk
  <2>5. RunOnDisk'
    <3>1. BuildReport(RunBundle(bRun), RunRanking(bRun), Val(bRun, 5), Val(bRun, 6))' = report
      BY <2>r, <2>4 DEF BuildReport
    <3>2. TooLong(RunBundle(bRun))' <=> TooLong(RunBundle(bRun))
      BY <2>4 DEF TooLong
    <3> QED BY <2>1, <2>2, <2>3, <2>4, <3>1, <3>2 DEF RunOnDisk
  <2> QED BY <1>0, <2>1, <2>2, <2>5, DerivedKeeps
<1> QED BY <1>1, <1>2

\* A result is published only when everything on disk is of the calls made
\* for it on the repository of the baseline.
LEMMA VerifyKeeps == ASSUME BrainstormInv, Verify PROVE BrainstormInv'
<1>0. /\ bRun.pc = "verify" /\ bTask' = bTask /\ bFiles' = bFiles /\ bWorld' = bWorld /\ bGhost' = bGhost
      /\ DOMAIN bRun = RunFields /\ bWorld.now \in Nat /\ bWorld.now <= bWorld.now /\ bWorld.repo \in Nat
  BY Fields DEF Verify, BrainstormInv, BShape
<1>1. CASE ~Unchanged(bFiles)
  <2>1. BFail(bRun, bFiles, "FAILED")
    BY <1>1 DEF Verify
  <2> QED BY <1>0, <2>1, FailKeeps
<1>2. CASE Unchanged(bFiles)
  <2>1. /\ bResult' = {[status |-> "DONE", artifacts |-> Artifacts(bFiles, bRun.validated)]}
        /\ bRun' = [bRun EXCEPT !.pc = "over"]
    BY <1>2 DEF Verify
  <2>2. /\ DOMAIN bRun' = RunFields /\ bRun'.pc = "over" /\ bRun'.res = bRun.res /\ bRun'.stage = bRun.stage
        /\ bRun'.deadline = bRun.deadline
    BY <1>0, <2>1 DEF RunFields
  <2>3. BWorking /\ ~BWorking' /\ Finished = 6
    BY <1>0, <2>2 DEF BWorking, Finished
  <2>4. BShape'
    BY <1>0, <2>2, <2>3, Fields DEF BrainstormInv, BShape
  <2>5. RunOnDisk' /\ CallsCounted'
    BY <2>2, <2>3 DEF RunOnDisk, CallsCounted
  <2>6. CallsBehindFiles'
    <3>1. OnBaseline' => OnBaseline /\ bWorld'.repo = bWorld.repo
      BY <1>0 DEF OnBaseline
    <3> QED BY <1>0, <2>2, <2>3, <3>1, BehindKeeps
  <2>7. BudgetOfAttempt' /\ AttemptBudgetKept'
    BY <1>0, <2>2 DEF BrainstormInv, BudgetOfAttempt, AttemptBudgetKept
  <2>8. PICK run : run = DiskRun
    OBVIOUS
  <2>9. /\ SecuredUpTo(6) /\ \A s \in 1..6 : run.res[s] = bRun.res[s]
    BY <2>3, <2>8, RunIsDisk DEF BrainstormInv, RunOnDisk
  <2>10. bFiles.baseline = {bWorld.repo}
    BY <1>2 DEF Unchanged, Fingerprint
  <2>11. \A s \in 1..6 : \E p \in bFiles.out[Outputs[s]], call \in bGhost.calls :
           /\ call = <<StageName(run, s), call[2], StageInput(run, s), p>>
           /\ bGhost.reverted \/ call[2] \in bFiles.baseline
    <3> TAKE s \in 1..6
    <3>1. PICK p \in bFiles.out[Outputs[s]] : Checkpoint(run, s, p) \in bFiles.ck
      BY <2>8, <2>9 DEF SecuredUpTo, Secured
    <3>2. PICK k \in bFiles.ck : k.name = StageName(run, s) /\ k.input = StageInput(run, s) /\ k.sha = p
      BY <3>1 DEF Checkpoint
    <3>3. PICK call \in bGhost.calls :
            call = <<k.name, call[2], k.input, k.sha>> /\ (OnBaseline => call[2] = bWorld.repo)
      BY DEF BrainstormInv, CallsBehindFiles, Called
    <3>4. bGhost.reverted \/ call[2] \in bFiles.baseline
      BY <2>10, <3>3 DEF OnBaseline
    <3> QED BY <3>2, <3>3, <3>4
  <2>13. RunBundle(run) = RunBundle(bRun) /\ RunRanking(run) = RunRanking(bRun)
         /\ Val(run, 5) = Val(bRun, 5) /\ Val(run, 6) = Val(bRun, 6)
    <3>1. \A s \in 1..6 : Val(run, s) = Val(bRun, s)
      BY <2>9, SameValues
    <3>2. RunBundle(run) = RunBundle(bRun)
      BY <3>1 DEF RunBundle
    <3> QED BY <3>1, <3>2 DEF RunRanking
  <2>14. /\ bFiles.bundle = {RunBundle(run)} /\ bFiles.ranking = {RunRanking(run)}
         /\ bFiles.report = {BuildReport(RunBundle(run), RunRanking(run), Val(run, 5), Val(run, 6))}
         /\ bFiles.inline = (IF TooLong(RunBundle(run)) THEN bFiles.report ELSE {})
    <3>1. bRun.stage = 6
      BY <1>0, <2>3 DEF BrainstormInv, RunOnDisk
    <3> QED BY <1>0, <2>3, <2>13, <3>1 DEF BrainstormInv, RunOnDisk
  <2>15. PublishedFitsTogether'
    <3> SUFFICES ASSUME NEW r \in bResult'
                 PROVE  LET f    == r.artifacts.files
                            x    == [res |-> [s \in 1..6 |-> f.out[Outputs[s]]]]
                        IN  /\ \A s \in 1..6 : \E p \in f.out[Outputs[s]], call \in bGhost'.calls :
                                 /\ call = <<StageName(x, s)', call[2], StageInput(x, s)', p>>
                                 /\ bGhost'.reverted \/ call[2] \in f.baseline
                            /\ f.bundle = {RunBundle(x)} /\ f.ranking = {RunRanking(x)'}
                            /\ f.report = {BuildReport(RunBundle(x), RunRanking(x)', Val(x, 5), Val(x, 6))}
                            /\ f.inline = (IF TooLong(RunBundle(x)) THEN f.report ELSE {})
                            /\ bWorld'.repo \in f.baseline
      BY DEF PublishedFitsTogether
    <3>1. r.artifacts.files = bFiles
      BY <2>1 DEF Artifacts
    <3>2. [res |-> [s \in 1..6 |-> r.artifacts.files.out[Outputs[s]]]] = run
      BY <2>8, <3>1 DEF DiskRun
    <3>3. /\ RunRanking(run)' = RunRanking(run)
          /\ \A s : StageName(run, s)' = StageName(run, s) /\ StageInput(run, s)' = StageInput(run, s)
      BY <1>0, SameTask
    <3>4. /\ bFiles.bundle = {RunBundle(run)} /\ bFiles.ranking = {RunRanking(run)'}
          /\ bFiles.report = {BuildReport(RunBundle(run), RunRanking(run)', Val(run, 5), Val(run, 6))}
          /\ bFiles.inline = (IF TooLong(RunBundle(run)) THEN bFiles.report ELSE {})
      BY <2>14, <3>3
    <3>5. bWorld'.repo \in bFiles.baseline
      BY <1>0, <2>10
    <3>6. \A s \in 1..6 : \E p \in bFiles.out[Outputs[s]], call \in bGhost'.calls :
            /\ call = <<StageName(run, s)', call[2], StageInput(run, s)', p>>
            /\ bGhost'.reverted \/ call[2] \in bFiles.baseline
      BY <1>0, <2>11, <3>3
    <3> QED BY <3>1, <3>2, <3>4, <3>5, <3>6
  <2> QED BY <2>4, <2>5, <2>6, <2>7, <2>15 DEF BrainstormInv
<1> QED BY <1>1, <1>2

\* The worker dies: what the run had secured is what its successor finds.
LEMMA BCrashKeeps == ASSUME BrainstormInv, BCrash PROVE BrainstormInv'
<1>0. /\ bRun.pc \notin {"idle", "over"} /\ bTask' = bTask /\ bFiles' = bFiles /\ bResult' = bResult
      /\ bRun' = IdleRun /\ bWorld' = [bWorld EXCEPT !.faults = @ + 1]
      /\ bGhost' = [bGhost EXCEPT !.crashes = @ + 1]
  BY DEF BCrash
<1>1. BWorking /\ bResult' = {} /\ bGhost.start # {}
  BY <1>0 DEF BWorking, BrainstormInv, BShape
<1>2. /\ DOMAIN bRun' = RunFields /\ bRun'.pc = "idle" /\ bRun'.stage = 1 /\ bRun'.deadline = 0
      /\ DOMAIN bRun'.res = 1..6
  BY <1>0, Fields DEF IdleRun
<1>3. /\ DOMAIN bWorld' = DOMAIN bWorld /\ bWorld'.now = bWorld.now /\ bWorld'.repo = bWorld.repo
      /\ bWorld'.attempt = bWorld.attempt
  BY <1>0 DEF BrainstormInv, BShape
<1>4. /\ DOMAIN bGhost' = DOMAIN bGhost /\ bGhost'.made = bGhost.made /\ bGhost'.crashes = bGhost.crashes + 1
      /\ bGhost'.reverted = bGhost.reverted /\ bGhost'.losses = bGhost.losses /\ bGhost'.start = bGhost.start /\ bGhost'.calls = bGhost.calls
  BY <1>0 DEF BrainstormInv, BShape
<1>5. ~BWorking' /\ bRun'.pc \notin {"call"} \cup InCall
  BY <1>2 DEF BWorking, InCall
<1>n. bGhost.made \in Nat /\ bGhost.crashes \in Nat /\ bGhost.losses \in Nat
  BY DEF BrainstormInv, BShape
<1>6. BShape'
  BY <1>0, <1>1, <1>2, <1>3, <1>4, <1>5, <1>n, Fields DEF BrainstormInv, BShape
<1>7. RunOnDisk'
  BY <1>5 DEF RunOnDisk
<1>8. CallsBehindFiles'
  <2>1. OnBaseline' => OnBaseline /\ bWorld'.repo = bWorld.repo
    BY <1>0, <1>3, <1>4 DEF OnBaseline
  <2> QED BY <1>0, <1>2, <1>4, <1>5, <2>1, BehindKeeps
<1>9. BudgetOfAttempt'
  BY <1>0, <1>1, <1>2, <1>3, <1>4 DEF BrainstormInv, BudgetOfAttempt
<1>10. AttemptBudgetKept'
  <2>1. bGhost.made <= 6 + MaxTotalRetries + bGhost.crashes + 6 * bGhost.losses
    BY DEF BrainstormInv, AttemptBudgetKept
  <2>2. bGhost'.made <= 6 + MaxTotalRetries + bGhost'.crashes + 6 * bGhost'.losses
    BY <1>4, <1>n, <2>1 DEF MaxTotalRetries
  <2> QED BY <1>2, <2>2 DEF AttemptBudgetKept
<1>11. CallsCounted'
  <2>1. PICK n \in 0..6, b \in bFiles.budget : /\ SecuredUpTo(n)
           /\ bGhost.made <= n + b.used + (IF bRun.pc \in InCall THEN 1 ELSE 0) + bGhost.crashes + 6 * bGhost.losses
    BY <1>0, <1>1 DEF BrainstormInv, CallsCounted
  <2>2. SecuredUpTo(n)'
    BY <1>0, <2>1, DiskKeeps
  <2>3. b.used \in Nat
    BY <1>1 DEF BrainstormInv, BudgetOfAttempt, MaxTotalRetries
  <2>4. bGhost'.made <= n + b.used + 0 + bGhost'.crashes + 6 * bGhost'.losses
    BY <1>4, <1>n, <2>1, <2>3
  <2> QED BY <1>0, <1>5, <2>1, <2>2, <2>4 DEF CallsCounted
<1> QED BY <1>1, <1>6, <1>7, <1>8, <1>9, <1>10, <1>11, NothingPublished DEF BrainstormInv

LEMMA BReassignKeeps == ASSUME BrainstormInv, BReassign PROVE BrainstormInv'
<1>0. /\ bRun.pc = "idle" /\ bTask' = bTask /\ bFiles' = bFiles /\ bRun' = bRun /\ bResult' = {}
      /\ bWorld' = [bWorld EXCEPT !.attempt = @ + 1]
      /\ bGhost' = [bGhost EXCEPT !.start = {}, !.made = 0, !.crashes = 0, !.losses = 0]
  BY DEF BReassign
<1>1. /\ DOMAIN bWorld' = DOMAIN bWorld /\ bWorld'.now = bWorld.now /\ bWorld'.repo = bWorld.repo
      /\ bWorld'.attempt = bWorld.attempt + 1 /\ bWorld.attempt \in Nat
  BY <1>0 DEF BrainstormInv, BShape
<1>2. /\ DOMAIN bGhost' = DOMAIN bGhost /\ bGhost'.made = 0 /\ bGhost'.crashes = 0 /\ bGhost'.reverted = bGhost.reverted
      /\ bGhost'.losses = 0 /\ bGhost'.start = {} /\ bGhost'.calls = bGhost.calls
  BY <1>0 DEF BrainstormInv, BShape
<1>3. ~BWorking /\ ~BWorking'
  BY <1>0 DEF BWorking
<1>4. BShape'
  BY <1>0, <1>1, <1>2, <1>3 DEF BrainstormInv, BShape
<1>5. RunOnDisk' /\ CallsCounted'
  BY <1>2, <1>3 DEF RunOnDisk, CallsCounted
<1>6. CallsBehindFiles'
  <2>1. OnBaseline' => OnBaseline /\ bWorld'.repo = bWorld.repo
    BY <1>0, <1>1, <1>2 DEF OnBaseline
  <2> QED BY <1>0, <1>2, <1>3, <2>1, BehindKeeps
<1>7. BudgetOfAttempt'
  <2>1. \A b \in bFiles.budget : b.attempt \in Nat /\ b.attempt < bWorld'.attempt
    <3>1. CASE bGhost.start = {}
      <4>1. \A b \in bFiles.budget : b.attempt \in Nat /\ b.attempt < bWorld.attempt
        BY <3>1 DEF BrainstormInv, BudgetOfAttempt
      <4> QED BY <1>1, <4>1
    <3>2. CASE bGhost.start # {}
      BY <1>1, <3>2 DEF BrainstormInv, BudgetOfAttempt
    <3> QED BY <3>1, <3>2
  <2> QED BY <1>0, <1>2, <2>1 DEF BudgetOfAttempt
<1>8. AttemptBudgetKept'
  BY <1>0, <1>2 DEF AttemptBudgetKept, MaxTotalRetries
<1> QED BY <1>0, <1>4, <1>5, <1>6, <1>7, <1>8, NothingPublished DEF BrainstormInv

LEMMA BLoseKeeps == ASSUME BrainstormInv, NEW m \in Range(Outputs), BLose(m) PROVE BrainstormInv'
<1>0. /\ bRun.pc = "idle" /\ bTask' = bTask /\ bRun' = bRun /\ bResult' = {}
      /\ bFiles' = [bFiles EXCEPT !.out[m] = {}]
      /\ bWorld' = [bWorld EXCEPT !.faults = @ + 1]
      /\ bGhost' = [bGhost EXCEPT !.losses = @ + 1]
  BY DEF BLose
<1>1. /\ DOMAIN bWorld' = DOMAIN bWorld /\ bWorld'.now = bWorld.now /\ bWorld'.repo = bWorld.repo
      /\ bWorld'.attempt = bWorld.attempt
  BY <1>0 DEF BrainstormInv, BShape
<1>2. /\ DOMAIN bGhost' = DOMAIN bGhost /\ bGhost'.made = bGhost.made /\ bGhost'.crashes = bGhost.crashes
      /\ bGhost'.losses = bGhost.losses + 1 /\ bGhost'.reverted = bGhost.reverted /\ bGhost'.start = bGhost.start /\ bGhost'.calls = bGhost.calls
  BY <1>0 DEF BrainstormInv, BShape
<1>3. /\ DOMAIN bFiles' = DOMAIN bFiles /\ bFiles'.ck = bFiles.ck /\ bFiles'.baseline = bFiles.baseline
      /\ bFiles'.budget = bFiles.budget /\ DOMAIN bFiles'.out = Range(Outputs)
      /\ \A n \in Range(Outputs) : bFiles'.out[n] = IF n = m THEN {} ELSE bFiles.out[n]
  BY <1>0 DEF BrainstormInv, BShape
<1>4. ~BWorking /\ ~BWorking' /\ bRun.pc \notin {"call"} \cup InCall
  BY <1>0 DEF BWorking, InCall
<1>n. bGhost.made \in Nat /\ bGhost.crashes \in Nat /\ bGhost.losses \in Nat
  BY DEF BrainstormInv, BShape
<1>5. BShape'
  BY <1>0, <1>1, <1>2, <1>3, <1>4, <1>n DEF BrainstormInv, BShape
<1>6. RunOnDisk'
  BY <1>4 DEF RunOnDisk
<1>7. CallsBehindFiles'
  <2>1. OnBaseline' => OnBaseline /\ bWorld'.repo = bWorld.repo
    BY <1>1, <1>2, <1>3 DEF OnBaseline
  <2> QED BY <1>0, <1>2, <1>3, <1>4, <2>1, BehindKeeps
<1>8. BudgetOfAttempt'
  BY <1>0, <1>1, <1>2, <1>3 DEF BrainstormInv, BudgetOfAttempt
<1>9. AttemptBudgetKept'
  <2>1. bGhost.made <= 6 + MaxTotalRetries + bGhost.crashes + 6 * bGhost.losses
    BY DEF BrainstormInv, AttemptBudgetKept
  <2>2. bGhost'.made <= 6 + MaxTotalRetries + bGhost'.crashes + 6 * bGhost'.losses
    BY <1>2, <1>n, <2>1 DEF MaxTotalRetries
  <2> QED BY <1>0, <2>2 DEF AttemptBudgetKept
<1>10. CallsCounted'
  <2> SUFFICES ASSUME bGhost.start # {} PROVE CallsCounted'
    BY <1>2 DEF CallsCounted
  <2>1. PICK n \in 0..6, b \in bFiles.budget :
           bGhost.made <= n + b.used + 0 + bGhost.crashes + 6 * bGhost.losses
    BY <1>0, <1>4 DEF BrainstormInv, CallsCounted, InCall
  <2>2. SecuredUpTo(0)' /\ 0 \in 0..6
    BY DEF SecuredUpTo
  <2>3. b.used \in Nat
    BY DEF BrainstormInv, BudgetOfAttempt, MaxTotalRetries
  <2>4. bGhost'.made <= 0 + b.used + 0 + bGhost'.crashes + 6 * bGhost'.losses
    BY <1>2, <1>n, <2>1, <2>3
  <2> QED BY <1>0, <1>3, <1>4, <2>1, <2>2, <2>4 DEF CallsCounted, InCall
<1> QED BY <1>0, <1>5, <1>6, <1>7, <1>8, <1>9, <1>10, NothingPublished DEF BrainstormInv

\* A changed repository is no longer the baseline's, or the change is undone.
LEMMA RepoChangesKeeps ==
  ASSUME BrainstormInv, NEW r \in Nat, RepoChanges(r)
  PROVE  BrainstormInv'
<1>0. /\ bRun.pc \in {"idle", "wait", "verify"} /\ bTask' = bTask /\ bFiles' = bFiles /\ bRun' = bRun
      /\ bGhost' = [bGhost EXCEPT !.reverted = @ \/ r \in bFiles.baseline] /\ bResult' = bResult
      /\ bWorld' = [bWorld EXCEPT !.repo = r, !.faults = @ + 1]
  BY DEF RepoChanges
<1>1. /\ DOMAIN bWorld' = DOMAIN bWorld /\ bWorld'.now = bWorld.now /\ bWorld'.repo = r
      /\ bWorld'.attempt = bWorld.attempt
  BY <1>0 DEF BrainstormInv, BShape
<1>g. /\ DOMAIN bGhost' = DOMAIN bGhost /\ bGhost'.made = bGhost.made /\ bGhost'.crashes = bGhost.crashes
      /\ bGhost'.losses = bGhost.losses /\ bGhost'.start = bGhost.start /\ bGhost'.calls = bGhost.calls
      /\ r \in bFiles.baseline => bGhost'.reverted
  BY <1>0 DEF BrainstormInv, BShape
<1>2. bResult' = {} /\ (BWorking' <=> BWorking)
  BY <1>0 DEF BrainstormInv, BShape, BWorking
<1>3. BShape'
  BY <1>0, <1>1, <1>2, <1>g DEF BrainstormInv, BShape
<1>4. RunOnDisk'
  <2> SUFFICES ASSUME BWorking PROVE RunOnDisk'
    BY <1>2 DEF RunOnDisk
  <2>1. PICK n \in 0..6 : n = Finished /\ n = Finished'
    <3>1. Finished \in 0..6 /\ Finished' = Finished
      BY <1>0 DEF Finished, BrainstormInv, BShape
    <3> QED BY <3>1
  <2>2. \A s \in 1..n : Secured(bRun, s)
    BY <2>1 DEF BrainstormInv, RunOnDisk
  <2>3. \A s \in 1..n : Secured(bRun, s)'
    BY <1>0, <2>2, RunKeeps
  <2>4. 1 \in 1..6 /\ 5 \in 1..6 /\ 6 \in 1..6
    OBVIOUS
  <2>5. /\ RunBundle(bRun)' = RunBundle(bRun) /\ RunRanking(bRun)' = RunRanking(bRun)
        /\ Val(bRun, 5)' = Val(bRun, 5) /\ Val(bRun, 6)' = Val(bRun, 6)
    BY <1>0, <2>4, SameResults
  <2>6. BuildReport(RunBundle(bRun), RunRanking(bRun), Val(bRun, 5), Val(bRun, 6))'
          = BuildReport(RunBundle(bRun), RunRanking(bRun), Val(bRun, 5), Val(bRun, 6))
    BY <2>5 DEF BuildReport
  <2>7. TooLong(RunBundle(bRun))' <=> TooLong(RunBundle(bRun))
    BY <2>5 DEF TooLong
  <2> QED BY <1>0, <2>1, <2>3, <2>5, <2>6, <2>7 DEF BrainstormInv, RunOnDisk
<1>5. CallsBehindFiles'
  <2>1. ~OnBaseline'
    BY <1>0, <1>1, <1>g DEF OnBaseline
  <2> QED BY <1>0, <1>2, <1>g, <2>1, BehindKeeps
<1>6. BudgetOfAttempt' /\ AttemptBudgetKept'
  BY <1>0, <1>1, <1>g DEF BrainstormInv, BudgetOfAttempt, AttemptBudgetKept
<1>7. CallsCounted'
  BY <1>0, <1>g, CountedKeeps DEF InCall
<1> QED BY <1>2, <1>3, <1>4, <1>5, <1>6, <1>7, NothingPublished DEF BrainstormInv

LEMMA StutterKeeps == ASSUME BrainstormInv, UNCHANGED bVars PROVE BrainstormInv'
<1>0. /\ bTask' = bTask /\ bFiles' = bFiles /\ bRun' = bRun /\ bWorld' = bWorld /\ bGhost' = bGhost
      /\ bResult' = bResult
  BY DEF bVars
<1>s. PICK s \in 1..6 : s = bRun.stage
  BY DEF BrainstormInv, BShape
<1>1. BShape' /\ BudgetOfAttempt' /\ AttemptBudgetKept' /\ (BWorking' <=> BWorking)
  BY <1>0 DEF BrainstormInv, BShape, BudgetOfAttempt, AttemptBudgetKept, BWorking
<1>2. RunOnDisk'
  <2> SUFFICES ASSUME BWorking PROVE RunOnDisk'
    BY <1>1 DEF RunOnDisk
  <2>1. PICK n \in 0..6 : n = Finished /\ n = Finished'
    <3>1. Finished \in 0..6 /\ Finished' = Finished
      BY <1>0 DEF Finished, BrainstormInv, BShape
    <3> QED BY <3>1
  <2>2. \A t \in 1..n : Secured(bRun, t)
    BY <2>1 DEF BrainstormInv, RunOnDisk
  <2>3. \A t \in 1..n : Secured(bRun, t)'
    BY <1>0, <2>2, RunKeeps
  <2>4. 5 \in 1..6 /\ 6 \in 1..6
    OBVIOUS
  <2>5. /\ RunBundle(bRun)' = RunBundle(bRun) /\ RunRanking(bRun)' = RunRanking(bRun)
        /\ Val(bRun, 5)' = Val(bRun, 5) /\ Val(bRun, 6)' = Val(bRun, 6)
    BY <1>0, <2>4, SameResults
  <2>6. BuildReport(RunBundle(bRun), RunRanking(bRun), Val(bRun, 5), Val(bRun, 6))'
          = BuildReport(RunBundle(bRun), RunRanking(bRun), Val(bRun, 5), Val(bRun, 6))
    BY <2>5 DEF BuildReport
  <2>7. TooLong(RunBundle(bRun))' <=> TooLong(RunBundle(bRun))
    BY <2>5 DEF TooLong
  <2>8. \A p : ValidReply(bRun, bRun.stage, p) => ValidReply(bRun, bRun.stage, p)'
    <3>1. \A p : ValidReply(bRun, s, p) => ValidReply(bRun, s, p)'
      BY <1>0, SameResults
    <3>2. \A p : ValidReply(bRun, s, p)' => ValidReply(bRun, bRun.stage, p)'
      BY <1>s, <1>0 DEF ValidReply
    <3> QED BY <1>s, <3>1, <3>2
  <2> QED BY <1>0, <2>1, <2>3, <2>5, <2>6, <2>7, <2>8 DEF BrainstormInv, RunOnDisk
<1>3. CallsBehindFiles'
  <2>1. OnBaseline' => OnBaseline /\ bWorld'.repo = bWorld.repo
    BY <1>0 DEF OnBaseline
  <2> QED BY <1>0, <1>1, <2>1, BehindKeeps
<1>4. CallsCounted'
  <2>1. CASE bRun.pc = "over"
    BY <1>0, <2>1 DEF CallsCounted
  <2>2. CASE bRun.pc # "over"
    BY <1>0, <2>2, CountedKeeps
  <2> QED BY <2>1, <2>2
<1>5. PublishedFitsTogether'
  <2>1. /\ \A x : RunRanking(x)' = RunRanking(x)
        /\ \A x, t : StageName(x, t)' = StageName(x, t)
        /\ \A x, t : StageInput(x, t)' = StageInput(x, t)
    BY <1>0, SameTask
  <2> SUFFICES ASSUME NEW r \in bResult, r.status = "DONE"
               PROVE  LET f    == r.artifacts.files
                          run  == [res |-> [n \in 1..6 |-> f.out[Outputs[n]]]]
                      IN  /\ \A n \in 1..6 : \E p \in f.out[Outputs[n]], call \in bGhost'.calls :
                               /\ call = <<StageName(run, n)', call[2], StageInput(run, n)', p>>
                               /\ bGhost'.reverted \/ call[2] \in f.baseline
                          /\ f.bundle = {RunBundle(run)} /\ f.ranking = {RunRanking(run)'}
                          /\ f.report = {BuildReport(RunBundle(run), RunRanking(run)', Val(run, 5), Val(run, 6))}
                          /\ f.inline = (IF TooLong(RunBundle(run)) THEN f.report ELSE {})
                          /\ bWorld'.repo \in f.baseline
    BY <1>0 DEF PublishedFitsTogether
  <2>2. LET f    == r.artifacts.files
            run  == [res |-> [n \in 1..6 |-> f.out[Outputs[n]]]]
        IN  /\ \A n \in 1..6 : \E p \in f.out[Outputs[n]], call \in bGhost.calls :
                 /\ call = <<StageName(run, n), call[2], StageInput(run, n), p>>
                 /\ bGhost.reverted \/ call[2] \in f.baseline
            /\ f.bundle = {RunBundle(run)} /\ f.ranking = {RunRanking(run)}
            /\ f.report = {BuildReport(RunBundle(run), RunRanking(run), Val(run, 5), Val(run, 6))}
            /\ f.inline = (IF TooLong(RunBundle(run)) THEN f.report ELSE {})
            /\ bWorld.repo \in f.baseline
    BY DEF BrainstormInv, PublishedFitsTogether
  <2> QED BY <1>0, <2>1, <2>2
<1> QED BY <1>1, <1>2, <1>3, <1>4, <1>5 DEF BrainstormInv

-----------------------------------------------------------------------------
\* Whatever crashes, losses, new attempts and changes of the repository happen between the
\* workflow's writes, every checkpoint and every answer held is of a call for its inputs,
\* made on the repository as it is if that is the baseline's and no change was undone; no
\* attempt calls beyond its budget; and what is published fits together.
THEOREM BrainstormAlways == BSpec => []BrainstormInv
<1>1. ASSUME BrainstormInv, [BNext]_bVars PROVE BrainstormInv'
  <2>1. CASE BPrepare
    BY <1>1, <2>1, BPrepareKeeps
  <2>2. CASE BeginStage
    BY <1>1, <2>2, BeginStageKeeps
  <2>3. CASE CallEngine
    BY <1>1, <2>3, CallEngineKeeps
  <2>4. ASSUME NEW p, NEW later, EngineReturns(p, later) PROVE BrainstormInv'
    BY <1>1, <2>4, EngineReturnsKeeps
  <2>5. ASSUME NEW status \in {"BLOCKED", "FAILED"}, EngineFails(status) PROVE BrainstormInv'
    BY <1>1, <2>5, EngineFailsKeeps
  <2>6. CASE WriteOutput \/ WriteCheckpoint
    BY <1>1, <2>6, WriteOutputKeeps, WriteCheckpointKeeps
  <2>7. CASE Normalize \/ RankStage \/ ReportStage
    BY <1>1, <2>7, NormalizeKeeps, RankStageKeeps, ReportStageKeeps
  <2>8. CASE Verify
    BY <1>1, <2>8, VerifyKeeps
  <2>9. CASE BCrash \/ BReassign
    BY <1>1, <2>9, BCrashKeeps, BReassignKeeps
  <2>12. ASSUME NEW r \in 0..(bWorld.repo + 1), RepoChanges(r) PROVE BrainstormInv'
    <3>1. r \in Nat
      BY <1>1 DEF BrainstormInv, BShape
    <3> QED BY <1>1, <2>12, <3>1, RepoChangesKeeps
  <2>10. ASSUME NEW m \in Range(Outputs), BLose(m) PROVE BrainstormInv'
    BY <1>1, <2>10, BLoseKeeps
  <2>11. CASE UNCHANGED bVars
    BY <1>1, <2>11, StutterKeeps
  <2> QED BY <1>1, <2>1, <2>2, <2>3, <2>4, <2>5, <2>6, <2>7, <2>8, <2>9, <2>10, <2>11, <2>12 DEF BNext
<1> QED BY <1>1, InitHolds, PTL DEF BSpec

\* What a DONE result publishes was computed from the outputs beside it, each of them an
\* engine's answer for the inputs beside it, and given on the repository of the baseline
\* unless a change of it was undone, which fingerprints at the two ends cannot show
\* (_reuse_checkpoint, _check_baseline, _verify_final_fingerprint).
THEOREM PublishedAlwaysFits == BSpec => []PublishedFitsTogether
<1>1. BrainstormInv => PublishedFitsTogether
  BY DEF BrainstormInv
<1> QED BY <1>1, BrainstormAlways, PTL

\* An attempt never costs more than its budget (AttemptBudgetKept).
THEOREM AttemptBudgetAlwaysKept == BSpec => []AttemptBudgetKept
<1>1. BrainstormInv => AttemptBudgetKept
  BY DEF BrainstormInv
<1> QED BY <1>1, BrainstormAlways, PTL
=============================================================================
