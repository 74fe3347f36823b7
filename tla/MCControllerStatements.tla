----------------------- MODULE MCControllerStatements -----------------------
(***************************************************************************)
(* One retried job with a gate and one manual job, two runs.               *)
(***************************************************************************)
EXTENDS ControllerStatements, TLC

CONSTANTS r1, r2, r3

MCTask ==
  LET common == [depends_on |-> None, human_gates |-> Gate, idempotency_key |-> None,
                 worker_id |-> None, platform |-> "linux", required_capabilities |-> {"codex"},
                 execution_engine |-> None, integrations |-> {}, idempotency_policy |-> "safe_retry"]
  IN  1 :> common @@ 2 :> [common EXCEPT !.idempotency_policy = "manual_reconcile"]

MCDescriptor ==
  {[platform |-> "linux", capabilities |-> {"codex"}, max_concurrent_jobs |-> 2]}

MCPayload ==
  LET done == [status |-> "DONE", gate |-> None, engine |-> "codex", legacy |-> FALSE,
               artifacts_ok |-> TRUE]
  IN  {done} \cup {[done EXCEPT !.status = "WAIT_USER", !.gate = g] : g \in Gate}

MCSymmetry == Permutations({r1, r2, r3}) \cup Permutations(Ingester)

=============================================================================
