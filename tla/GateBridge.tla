---------------------------- MODULE GateBridge ----------------------------
(***************************************************************************)
(* The hermes-gates plugin (bridge.py): operators list the pending gates   *)
(* and decide them from a chat.  A decision is two calls: GET of the       *)
(* pending gates, then POST for the one whose job the prefix names.        *)
(* Between them the jobs run on and other operators decide.  The           *)
(* controller's side is pending_gates and _resolve_gate (controller.py),   *)
(* for jobs that are retried safely.                                       *)
(***************************************************************************)
EXTENDS Integers

CONSTANTS Operators, GateJobs,
          DeclaredGates,       \* GateJobs -> the human_gates of the task
          JobPrefixes,         \* sets of jobs a typed job prefix may match
          MaxGateRuns

VARIABLES gbJob, gbDecision, gbOp

gbVars == <<gbJob, gbDecision, gbOp>>

Undecided == [decision |-> "none", run |-> 0]
Idle == [pc |-> "idle", seen |-> {}, decision |-> "none", target |-> {}, reply |-> "none"]

GBInit ==
    /\ gbJob = [j \in GateJobs |-> [state |-> "QUEUED", gate |-> {}, run |-> 0]]
    /\ gbDecision = [x \in UNION {{j} \X DeclaredGates[j] : j \in GateJobs} |-> Undecided]
    /\ gbOp = [o \in Operators |-> Idle]

\* A run of the job ends: it asks for a declared gate that is not approved
\* yet, or is over (ingest_result).
JobRuns(j, g) ==
    /\ gbJob[j].state = "QUEUED" /\ gbJob[j].run < MaxGateRuns
    /\ gbJob' = [gbJob EXCEPT ![j] =
                   IF g # {} /\ \A x \in g : gbDecision[<<j, x>>] = Undecided
                   THEN [state |-> "WAIT_USER", gate |-> g, run |-> @.run + 1]
                   ELSE [state |-> "DONE", gate |-> {}, run |-> @.run + 1]]
    /\ UNCHANGED <<gbDecision, gbOp>>

PendingGates == {[job |-> j, gate |-> CHOOSE g \in gbJob[j].gate : TRUE, run |-> gbJob[j].run] :
                    j \in {i \in GateJobs : gbJob[i].state = "WAIT_USER"}}

\* handle_gates: the listing, which shows job, gate and attempt.
HandleGates(o) ==
    /\ gbOp[o].pc = "idle"
    /\ gbOp' = [gbOp EXCEPT ![o].seen = PendingGates, ![o].reply = "none", ![o].target = {}]
    /\ UNCHANGED <<gbJob, gbDecision>>

\* handle_gate up to the POST: the prefix must select exactly one pending gate.
\* A person types a prefix he has seen listed.
HandleGate(o, prefix, decision) ==
    LET matches == {p \in PendingGates : p.job \in prefix}
    IN  /\ gbOp[o].pc = "idle" /\ \E p \in gbOp[o].seen : p.job \in prefix
        /\ gbOp' = IF \E p \in matches : matches = {p}
                   THEN [gbOp EXCEPT ![o].pc = "post", ![o].decision = decision, ![o].target = matches,
                                    ![o].reply = "none"]
                   ELSE [gbOp EXCEPT ![o].reply = "no gate", ![o].target = {}]
        /\ UNCHANGED <<gbJob, gbDecision>>

MutantResolveGate(t, decision) ==
    LET d == gbDecision[<<t.job, t.gate>>]
    IN  IF d # Undecided THEN IF d.run = t.run THEN "repeated" ELSE "conflict"
        ELSE IF gbJob[t.job].state = "WAIT_USER" /\ gbJob[t.job].gate = {t.gate} /\ gbJob[t.job].run = t.run
        THEN "applied" ELSE "conflict"

\* _resolve_gate: the verdict on a decision posted for a gate and its run.
ResolveGate(t, decision) ==
    LET d == gbDecision[<<t.job, t.gate>>]
    IN  IF d # Undecided THEN IF d.run = t.run /\ d.decision = decision THEN "repeated" ELSE "conflict"
        ELSE IF gbJob[t.job].state = "WAIT_USER" /\ gbJob[t.job].gate = {t.gate} /\ gbJob[t.job].run = t.run
        THEN "applied" ELSE "conflict"

\* The POST and its answer, which may get lost (a timeout after 5 seconds).
PostDecision(o, lost) ==
    LET t == CHOOSE x \in gbOp[o].target : TRUE
        d == gbOp[o].decision
        verdict == ResolveGate(t, d)
    IN  /\ gbOp[o].pc = "post"
        /\ gbOp' = [gbOp EXCEPT ![o].pc = "idle",
                                ![o].reply = IF lost THEN "unavailable"
                                             ELSE IF verdict = "conflict" THEN "409" ELSE "ok"]
        /\ IF verdict # "applied" THEN UNCHANGED <<gbJob, gbDecision>>
           ELSE /\ gbDecision' = [gbDecision EXCEPT ![<<t.job, t.gate>>] =
                                     [decision |-> d, run |-> t.run]]
                /\ gbJob' = [gbJob EXCEPT ![t.job].state = IF d = "APPROVED" THEN "QUEUED" ELSE "CANCELLED",
                                          ![t.job].gate = {}]

GBNext ==
    \/ \E j \in GateJobs : JobRuns(j, {}) \/ \E g \in DeclaredGates[j] : JobRuns(j, {g})
    \/ \E o \in Operators :
          \/ HandleGates(o)
          \/ \E p \in JobPrefixes, d \in {"APPROVED", "REJECTED"} : HandleGate(o, p, d)
          \/ \E lost \in BOOLEAN : PostDecision(o, lost)

GBSpec == GBInit /\ [][GBNext]_gbVars

\* What the bridge tells an operator is true: after its confirmation the
\* decision on record for that gate and that run is the operator's, also when
\* several operators decide at once; and no gate is ever decided for a job that
\* an operator rejected.
ConfirmedIsRecorded ==
    /\ \A o \in Operators : gbOp[o].reply = "ok" =>
          \A t \in gbOp[o].target : /\ gbDecision[<<t.job, t.gate>>].decision = gbOp[o].decision
                                    /\ gbDecision[<<t.job, t.gate>>].run = t.run
    /\ \A j \in GateJobs : (\E g \in DeclaredGates[j] : gbDecision[<<j, g>>].decision = "REJECTED")
                              => gbJob[j].state = "CANCELLED"

-----------------------------------------------------------------------------
(***************************************************************************)
(* What makes it inductive: a waiting job asks for one declared gate, and  *)
(* who is about to POST has one target and no answer yet.                  *)
(***************************************************************************)
GateRefs == UNION {{j} \X DeclaredGates[j] : j \in GateJobs}

GateDecision == {"none", "APPROVED", "REJECTED"}

GBTypeOK ==
    /\ gbJob \in [GateJobs -> [state: {"QUEUED", "WAIT_USER", "DONE", "CANCELLED"},
                               gate: SUBSET UNION {DeclaredGates[j] : j \in GateJobs}, run: Nat]]
    /\ gbDecision \in [GateRefs -> [decision: GateDecision, run: Nat]]
    /\ DOMAIN gbOp = Operators
    /\ \A o \in Operators : DOMAIN gbOp[o] = {"pc", "seen", "decision", "target", "reply"}

WaitsForOne ==
    \A j \in GateJobs : gbJob[j].state = "WAIT_USER" => \E g \in DeclaredGates[j] : gbJob[j].gate = {g}

TargetsDeclared ==
    \A o \in Operators : \A t \in gbOp[o].target : <<t.job, t.gate>> \in GateRefs /\ t.job \in GateJobs /\ t.run \in Nat

PostsOne ==
    \A o \in Operators :
        /\ gbOp[o].pc = "post" => gbOp[o].reply = "none" /\ \E t \in gbOp[o].target : gbOp[o].target = {t}
        /\ gbOp[o].pc = "post" \/ gbOp[o].reply = "ok" => gbOp[o].decision \in {"APPROVED", "REJECTED"}

BridgeInv == GBTypeOK /\ WaitsForOne /\ TargetsDeclared /\ PostsOne /\ ConfirmedIsRecorded
=============================================================================
