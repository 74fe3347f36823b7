--------------------------- MODULE MCHermesSystem ---------------------------
(***************************************************************************)
(* Two daemons, a retried job with a gate and a manual job, two runs.      *)
(***************************************************************************)
EXTENDS HermesSystem, TLC

CONSTANTS w1, w2, r1, r2, gA, gB

Kind == [platform |-> "linux", capabilities |-> {"codex"}, max_concurrent_jobs |-> 1]

MCTask ==
  LET common == [depends_on |-> None, human_gates |-> {gA}, idempotency_key |-> None,
                 worker_id |-> None, platform |-> "linux", required_capabilities |-> {"codex"},
                 execution_engine |-> "codex", integrations |-> {}, idempotency_policy |-> "safe_retry"]
  IN  1 :> common
      @@ 2 :> [common EXCEPT !.idempotency_policy = "manual_reconcile", !.integrations = {"github_api"}]

MCDescriptor == {Kind}

MCWorkerDescriptor == [w \in Worker |-> Kind]

\* Adapters may finish, ask for the declared gate or an undeclared one, and publish
\* artifacts that do not validate.
MCAdapterResult ==
  {[status |-> "DONE", gate |-> gB, artifacts_ok |-> TRUE],
   [status |-> "WAIT_USER", gate |-> gA, artifacts_ok |-> TRUE],
   [status |-> "WAIT_USER", gate |-> gB, artifacts_ok |-> TRUE],
   [status |-> "DONE", gate |-> None, artifacts_ok |-> FALSE]}

\* For liveness: one result that ends the job and one that repeats it.
LiveAdapterResult ==
  {[status |-> "DONE", gate |-> None, artifacts_ok |-> TRUE],
   [status |-> "WAIT_USER", gate |-> gA, artifacts_ok |-> TRUE]}

MCPayload == ReportedPayload

MCSymmetry == Permutations({r1, r2}) \cup Permutations({w1, w2})

=============================================================================
