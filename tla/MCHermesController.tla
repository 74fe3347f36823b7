------------------------- MODULE MCHermesController -------------------------
(***************************************************************************)
(* Instances of HermesController for TLC.                                  *)
(***************************************************************************)
EXTENDS HermesController, TLC

CONSTANTS w1, w2, r1, r2, r3, gA, gB

TaskOf(policy, parent, gates) ==
  [idempotency_policy |-> policy, depends_on |-> parent, human_gates |-> gates,
   idempotency_key |-> None, worker_id |-> None, platform |-> "linux",
   required_capabilities |-> {"codex"}, execution_engine |-> None, integrations |-> {}]

\* A retried job with two gates and a manual one with a gate.
MCTask ==
  1 :> TaskOf("safe_retry", None, {gA, gB})
  @@ 2 :> TaskOf("manual_reconcile", None, {gA})

\* One kind of worker, one run at a time.
MCDescriptor ==
  {[platform |-> "linux", capabilities |-> {"codex"}, max_concurrent_jobs |-> 1]}

Result(status, gate) ==
  [status |-> status, gate |-> gate, engine |-> "codex", legacy |-> FALSE, artifacts_ok |-> TRUE]

\* Every outcome, each gate, and the two refusals of ingest_result.
MCPayload ==
  {Result("DONE", None), Result("BLOCKED", None),
   Result("WAIT_USER", gA), Result("WAIT_USER", gB),
   [Result("DONE", None) EXCEPT !.engine = "native"]}

\* A parent, its child, a task with the parent's key that waits for itself, and one
\* that is independent.
DependencyTask ==
  1 :> [TaskOf("safe_retry", None, {}) EXCEPT !.idempotency_key = "k"]
  @@ 2 :> [TaskOf("safe_retry", 1, {}) EXCEPT !.required_capabilities = {"codex", "claude"},
                                               !.execution_engine = "claude"]
  @@ 3 :> [TaskOf("manual_reconcile", 3, {}) EXCEPT !.idempotency_key = "k"]
  @@ 4 :> TaskOf("manual_reconcile", None, {})

\* Workers may register again with another capacity or without a capability.
DependencyDescriptor ==
  {[platform |-> "linux", capabilities |-> {"codex", "claude"}, max_concurrent_jobs |-> 2],
   [platform |-> "linux", capabilities |-> {"codex"}, max_concurrent_jobs |-> 1]}

DependencyPayload ==
  {Result("DONE", None), Result("FAILED", None),
   [Result("DONE", None) EXCEPT !.engine = "claude"],
   [Result("DONE", None) EXCEPT !.engine = None, !.legacy = TRUE]}

MCSymmetry == Permutations({w1, w2}) \cup Permutations({r1, r2, r3})

=============================================================================
