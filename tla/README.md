# A verification project for dvk-claude

The repository holds two programs:

* **Hermes** (`hermes_controller/`, `hermes_agent_plugins/`, the shell runners): a
  controller that keeps a queue of jobs in SQLite, hands them to worker daemons under
  leases, and stops them at *human gates* until an operator approves or rejects. The
  daemons run the jobs with Codex, Claude, both (hybrid), a brainstorm of both, or GitHub.
* **The proxy** (`proxy/`): a local Anthropic-compatible API in front of other model
  providers, with a chat bot (Telegram, Discord) that runs Claude Code sessions.

Both are modelled: Hermes from the project manifest to the stored result, the proxy from
the provider's stream and rate limits up to what a chat user sees. The HTTP front of the
proxy, its admin pages and the two chat platforms are not (see *Not modelled*).

## Inventory

| Component | State it keeps | Operations | Talks to | What is hard | What makes it correct |
|---|---|---|---|---|---|
| Controller (`controller.py`) | tables `jobs`, `runs`, `workers`, `gate_decisions`, `projects` (and `events`, `worker_credentials`) | `register_worker`, `heartbeat_worker`, `enqueue`, `claim`, `heartbeat_run`, `reconcile_expired_leases`, `ingest_result`, `approve_gate`/`reject_gate` | called by the HTTP API and, as other processes on the same file, by the CLI | autocommit: only `claim` and `_resolve_gate` are transactions; leases against the clock; late, repeated and refused results | one holder per job; attempts never reused; manual jobs run once; a waiting job can be decided; history is not rewritten |
| HTTP API (`api.py`) | `request_lock` | one route per method | workers, operators, the gate plugin | serialises its own handlers only | – |
| Controller CLI (`__main__.py`) | – | one process per command | the database file | runs beside the server; `reconcile-leases` is the *only* caller of the sweep | – |
| Worker daemon (`worker.py`) | `active_claim`, `pending_envelope`, the state file | `register`, `once`, `run`, heartbeat loop around an adapter thread | the HTTP API, adapters | lost requests and replies, kills, a lease lost while the adapter runs, retries | forgets a claim only when the controller gave it up; never builds an envelope the controller will always refuse |
| Clock (`clock.py`) | last value | `now` | all | wall clock | never goes back in one process |
| Project registry, task builder, engine policy | table `projects` | `register_project`, `build_project_task`, `select_engine`, checks of `enqueue` | CLI, workers | the project changes under a built task; three places compute the engine | the job fits the project; all agree on the engine |
| Brainstorm (`brainstorm*.py`) | checkpoints, outputs, budget and baseline in the job's directory | six stages, ranking, report | Codex and Claude runners | crashes and new attempts between any two writes | what is published fits together; budgets kept; confidence earned |
| Adapters (`adapters.py`), runners (`*.sh`) | output directory, runner lock | `execute`, routing, review rounds | subprocesses | a runner outlives its timeout or its worker | DONE is earned by this execution |
| GitHub integration (`github_api.py`) | – | `pr_create` and four reads | HTTPS | a lost answer to the POST | one pull request per job |
| Gate bridge (`hermes_agent_plugins/hermes-gates`) | – | pending, approve, reject | HTTP API | other operators and runs between list and decision | what it confirms is recorded |
| Message trees (`proxy/messaging/trees`, `handler.py`, `commands.py`) | per tree: lock, queue, current node and task | enqueue, process, cancel node/branch/tree | CLI sessions, platforms, session store | `asyncio` tasks cancelled while they hold the tree | one node processed at a time, in order |
| Transcript and editor (`transcript.py`, `ui_updates.py`) | segments, open blocks, subagent stack, last edit | one call per event, render, edit | platforms | indices used again, ids left out, throttling | the user sees what was said, and the end of it |
| Session store (`session.py`) | trees and message log, debounce timer, file | change, save, clear, flush | timer thread | snapshot written outside the lock | what is not on disk is known to be unsaved |
| Messaging limiter (`limiter.py`) | queue, futures, pause | enqueue, compaction, worker loop | platforms | compaction, flood waits, retries | every future resolved; sent means shown |
| CLI sessions (`cli/`) | pending and real session maps, processes, pids | get/create, register id, remove, stop all | subprocesses | races for one session | no session unreachable, no process unsupervised |
| Provider limiter (`providers/rate_limit.py`, `core/rate_limit.py`) | window, block time, semaphore | acquire, retry, block | providers | 429s at the same time, cancellation | window respected; slots come back |
| Stream conversion (`core/anthropic`, `openai_compat.py`, `anthropic_messages.py`) | open blocks, indices, buffered arguments | one call per upstream event | providers, clients | interleaved or broken streams | a well-formed message, whole arguments |
| History conversion (`conversion.py`) | text held back behind tool calls | one call per message | providers | text after a tool call | nothing lost, repeated or overtaken |
| API, admin, runtime (`proxy/api`) | configuration | routes, start-up, shutdown | all | – | – |

`PROJECT.json` lists all components, also the one that is not modelled, and the hazards
at their lines.

## Modules

| Module | Models | State |
|---|---|---|
| `HermesController` | class `Controller`, one action per public method | `jobs`, `runs`, `workers`, `decisions`: the four tables, one record per row |
| `JobLifecycle` | the promise of the controller: an abstract job without tables, runs or clocks | `phase`, `holders`, `grants`, `asking`, `passed` |
| `HermesControllerProofs` | theorems about `HermesController` | – |
| `ControllerStatements` | the same controller with `ingest_result` and `reconcile_expired_leases` opened into their autocommitted SQL statements, several processes, crashes | the tables, `ingest[p]`, `sweep` |
| `StatementsProofs` | theorems about `ControllerStatements` (extends `HermesControllerProofs`) | – |
| `HermesSystem` | the controller composed with its worker daemons | the tables, `daemon` (memory), `disk` (state file), `executions`, `crashes` |
| `HermesSystemProofs` | theorems about `HermesSystem` (extends `HermesControllerProofs`) | – |
| `TaskBuild` | a task from the manifest to the accepted result: registry, builder, engine policy, checks of `enqueue`, worker configuration, task preparation, result normalisation | `pProjects`, `pBuilt` (the task between build and enqueue, beside its request and manifest), `pJobs`, `pWorker` |
| `BrainstormCore` | the pure rules: task contract, validation of replies, anonymization, ranking, decision (EXTENDed by `Brainstorm` and `TaskBuild`) | – |
| `Brainstorm` | `BrainstormAdapter`: every file it writes, in order, with crashes, resumption, new attempts | `bFiles` (the directory), `bRun` (program counter and results), `bWorld` (clock, repository, attempt), `bResult` |
| `Adapters` | the adapters, the runner processes and the lock of `cxh-run.sh` | `aEx` (execution), `aRunner`, `aLock`, `aOut` (result files), `aTree` (working tree) |
| `GitHubHandler` | `GitHubApiHandler` with GitHub as an external party | `gPulls`, `gEx` |
| `GateBridge` | the plugin's commands against the controller | `gbJob`, `gbDecision`, `gbOp[operator]` |
| `WorkProofs` | theorems about `GitHubHandler`, `GateBridge`, `TaskBuild`, `Adapters` and `Brainstorm` | – |
| `MessageTree` | one conversation of the chat bot: `trees/queue_manager.py`, `trees/data.py`, the parts of `handler.py`, `node_event_pipeline.py`, `commands.py` and `cli/session.py` that change it | the fields of `MessageTree` and of its nodes, `task[n]` (the `asyncio` task), `message` and `clearing` (handlers that wait for the platform) |
| `MessageTreeProofs` | theorems about `MessageTree` | – |
| `Transcript` | `TranscriptBuffer` and `ThrottledTranscriptEditor`, fed by the parsed CLI events | `tSegs`, `tOpen`, `tStack`, `tScreen` |
| `TranscriptProofs` | theorems about `Transcript` and `ThinkTags` | – |
| `SessionStore` | the store with its timer thread, writers, crash and reload | `sMem`, `sDisk`, `sDirty`, `sTimer`, `sWriters` |
| `MessagingLimiter` | `MessagingRateLimiter`, its worker and its callers | `lQueue`, `lTasks`, `lWorker`, `lCaller`, `lShown` |
| `CliSessions` | session manager, sessions, processes, pid registry | `cMgr`, `cTask`, `cSess`, `cPids` |
| `SlidingWindow` | `StrictSlidingWindowLimiter` | `swGrants` (all acquisitions), `swFirst` (head of the deque), `swNow` |
| `ProviderRate` | `GlobalRateLimiter` over `SlidingWindow`: slot, block, retries | `rReq`, `rFree`, `rBlockedUntil` |
| `ThinkTags` | `ThinkTagParser`, against a reading of the text as a whole | `tkBuffer`, `tkSide` (`_in_think_tag`), `tkOut` |
| `StreamClient` | the contract checker: a reader of an event stream | – |
| `OpenAIStream` | the stream loop of `openai_compat.py` with `SSEBuilder` and the tool buffers | `oSse`, `oCalls`, `oClient` |
| `StreamProofs` | theorems about `OpenAIStream`, `NativeStream` and `StreamClient` | – |
| `NativeStream` | the stream loop of `anthropic_messages.py` with block policy and tracker | `nPolicy`, `nTracker`, `nClient` |
| `MessageConversion` | `AnthropicToOpenAIConverter`, one action per message | `cvOut`, `cvPending` |
| `ProxyProofs` | theorems about `SlidingWindow`, `ProviderRate`, `SessionStore`, `MessagingLimiter`, `CliSessions` and `MessageConversion` | – |
| `MC*` | instances for TLC | – |

`MCHermesWork` and `MCProxy` put several parts into one instance. The parts share no
state: the variable `part` names the one a behaviour is about, and the others keep their
initial state, so a run of them is the union of one run per part.

How the models relate to the code:

* **Rows.** `jobs[j].active` is `active_run_id`; `None` is SQL NULL. A run id is a member
  of `RunId` (`uuid4` hands out unused ones; `RunId` bounds how many claims there are).
  The job id is a number because `claim` orders by `created_at, job_id`.
* **Tasks** are constants, `Task[j]`, as the `task_json` snapshot is never updated.
* **Time** is relative: `left` is `lease_expires_at - now`, clipped at -1, since the code
  only compares it with 0; `age` is `now - last_heartbeat_at`, clipped above
  `WORKER_OFFLINE_MS`. `Tick` is one unit.
* **Envelopes.** The five identity columns of a run never change, so an envelope carries
  the run it is addressed to and the run its identity was copied from. The body keeps
  what `ingest_result` tells apart: status, gate, engine, legacy format, and whether
  `validate_artifacts` accepts. A stored result records whether the gate policy rewrote it
  (the added evidence line), because a repetition of the original is then no duplicate.
* **Refusals** change no table; they are visible as `IngestVerdict` and matter in
  `HermesSystem`, where 200, 409 and 400 make the daemon do different things.
* **`HermesSystem`** models `once()` as the code runs it: heartbeat, then claim or resume,
  adapter thread with the heartbeat loop, save the envelope, send, forget. `daemon[w].at`
  is where the daemon stands: `down`, `idle` (between two calls of `once`), `once`,
  `executing`, `lease lost`. Any request and any reply may be lost.
* **`TaskBuild`** follows one task through everything that may refuse or change it. The
  format of a document is one field (`shape`), since every malformed one is refused at the
  same place; what the later steps tell apart (engine, integrations, gates, policy,
  profile) is kept. A job carries, as history variables, the request and the manifest its
  task was built from and the project at the time it was enqueued. Execution is one step, as leases are the controller's subject.
* **`Brainstorm`** has one step per file written: a crash between two of them leaves the
  directory as it was, and the next run starts at `_prepare`. A SHA-256 is compared as the
  content it is taken of. Scores are integers scaled like the code's `Fraction`s. The
  repository may become something new or what it was before; `reverted` records that a
  change was undone, which the fingerprints at the two ends of a run cannot show.
* **`Adapters`** runs the three shell scripts as processes of their own. `mkdir`, the
  writing of the pid file, its reading, `rm` and `rmdir` are single steps. A runner whose
  worker died goes on and writes its result. At the timeout of the adapter a runner is
  terminated, which its shell heeds once Codex has ended, or killed; a Codex whose shell was
  killed goes on alone (`orphan`), writes its result and edits the tree, and its lock stays.
  A result records its writer and its place among the writings of its file, a runner the
  tree that was there when its Codex started, which may be long before it answers.
* **`GitHubHandler`, `GateBridge`**: one step per HTTP call; anything may happen between
  two calls. GitHub itself is external and marked so in the map.
* **`MessageTree`** has the grain of `asyncio`: a step is what a coroutine does between two
  awaits that really suspend. Nobody suspends while holding a tree's lock or the manager's
  (all awaits inside are of other free locks or of coroutines that do not wait), so a
  locked section is part of its step. A task of a node stands at: `created` (scheduled,
  before its first step), `running` (in the event loop of `_process_node_impl`, suspended
  in `start_task`), `unwinding` (cancelled, waiting for the process to stop), `closing`
  (in `remove_session`, which may wait for the session manager's lock), `done`, or
  `dropped` (cancelled before its first step, so that its coroutine is never entered).
  `Task.cancel()` sets `cancel`, and the next step of the task raises. `Receive` and
  `Deliver` are the two halves of `handle_message` around the status message, `ClearBranch`
  and `BranchRemoved`, `ClearAll` and `QueueReplaced` those of `/clear` around the deletion
  of messages. What a CLI process says is reduced to what changes a node: a session id, an
  error event, its exit, an exception. `captured` is whether the task knows a session id;
  `knows` whether it found its tree when it started. Sessions are shared between tasks
  only through `SharesSession`, which lets a reply start with its parent's open session.
* **`CliSessions`** opens what `MessageTree` summarises: the manager's lock is held across
  the wait for a process to stop, so others queue behind it; a cancelled task may find its
  generator suspended at a `yield`, where the code's cleanup does not run.
* **`Transcript`**: one action per parsed event, through `apply`, `render` and the
  throttled edit. A text is the number of the piece, a rendering a length; `expected`
  records, when a piece comes, whether a reader of the stream would show it. After a
  cancellation whoever cancelled edits the same message to a bare "Stopped."
  (`StoppedShown`); before the task's own last edit this would be written over, so it is a
  step after it.
* **`ProviderRate`**: a call that was refused may be sent once more with a changed body
  (`CallsAgain`, `_create_stream` of `openai_compat.py`): inside the same slot, with a turn
  at the window and retries of its own.
* **`OpenAIStream`, `NativeStream`** send what they emit to `StreamClient`, a reader that
  accepts what `stream_contracts.py` accepts. An index of a tool call below 0 stands for
  the number of calls so far, which is a fresh index of the model when the provider's own
  indexes are dense and the call comes in one delta. Each helper of `SSEBuilder` is an operator
  from one `Work` (builder, tool calls, reader) to the next; the calls are flushed and
  closed in the order of their indexes where the code takes that of their first deltas,
  which a reader cannot tell apart, as each call has a block of its own. In `NativeStream`
  every handler maps policy, tracker and reader to the next at each event that is let
  through; the other open blocks are stopped in the order of their indexes where the code
  takes that of a dict, and again no reader can tell. Two things are assumed of the
  provider: thinking has a start (the policy passes a bare thinking delta on as it is), and
  a connection that ends without an error has sent `message_stop`. **`ThinkTags`** compares the streaming parser
  with `Reading`, which reads all text at once, letter by letter. The loop of `feed` is the
  recursive function in `ParseAll`; a pass that consumes nothing leaves it where it is, so
  as many passes as there are letters are enough. **`MessageConversion`** keeps the order in
  which texts came (`cvFed`) beside the messages it built; what a loop over blocks
  collects is a recursive function (`Kept`, the accumulator of `ConvertUser`).

## Runs

| Run | Question | Bounds | Result |
|---|---|---|---|
| `controller` | Do the tables stay consistent, and is the lifecycle implemented, in any order of calls? | 2 workers, a retried job with two gates, a manual job with one, 3 runs, lease of 1 tick | holds |
| `dependency` | Are dependencies, idempotency keys, engines and capacities respected? | 4 jobs (parent, child, self-dependent duplicate key, independent manual job), 2 descriptors per worker, 3 runs, lease of 0 ticks | holds |
| `statements` | What survives interleaved SQL statements and crashes? | 2 ingesting processes, a sweep, 2 jobs, 2 runs | holds |
| `statements_crash` | Does a restart reconcile everything? | 1 ingesting process, 2 runs, crashes | no: finding 1 |
| `system` | Do the daemons' files, retries and restarts agree with the controller? | 2 daemons, 2 jobs, 2 runs, 1 kill, adapters that misbehave | holds |
| `system_live` | Do jobs move on and envelopes get settled? | 2 daemons, 1 job, 2 runs, 1 kill | holds |
| `tree_stop` | With `/stop` on single messages: one at a time, replies after their parents, stops final, a turn for everyone? | 4 messages | holds |
| `tree_commands` | What survives every command at every suspension point? | 3 messages, all commands | holds |
| `tree_order` | Does the queue order processing also after `/stop`? | 3 messages, global `/stop` | no: finding 2 |
| `work` | Around the queue: brainstorm, adapters, tasks, GitHub, gates | see below | holds |
| `proxy` | Below the trees: limits, streams, history, store, limiter, sessions, transcript | see below | holds |
| `runner_lock` | Is the lock a runner removes an orphan? | 3 runners, 2 executions | no: finding 3 |

**Bounds of the Hermes and tree runs.** Three runs are the least with which a job can be claimed, lost, claimed again
and asked about a second gate while another job runs. A lease of one tick has a live, an
about-to-expire and an expired moment; where it is zero only the last two remain, and
the renewal keeps a lease at zero. Two runs are enough for a late result against a
current attempt. One kill is enough to resume every daemon state; a second one repeats it. Symmetry is used on run
ids, workers and ingesting processes, which the specification never orders, and not in
the liveness runs. Deadlock is checked in the Hermes runs, where the clock can always tick;
the tree runs switch it off, since a conversation whose messages are all processed simply
ends. Three messages are the least with one that holds the tree, one that starts too early
and one that is queued; four give `ParentFirst` chains and forks of replies. One `/clear`
waits for the platform at a time. The root is a fixed message, the others are symmetric.

**Bounds of `work`.** Two candidates per engine, three criteria, two attempts and two faults
(crash, lost output, changed repository or bad reply): enough to resume every stage after
any other was redone, and for a change of the repository to be undone. The two evaluations
of the part `brainstorm` disagree on the winner, so that a redone evaluation changes the
ranking. The part `scores`, without faults, has three more; in pairs of one of each engine
they meet every threshold of `rank` exactly (an average of 75 or 65 points, a disagreement
of 10 or 20, a lead of 5, a self-preference of 10), miss each of them by as little as scores
can, and tie at the top. Three runners and two executions: an orphan, the runner of the
current execution and one that takes over. Five manifests, two of them refused, twelve
requests and hand-written tasks, three worker configurations. Three pull requests and three
executions of the handler; two operators, two jobs with three gates. Every part ends, so
deadlock is not checked.

**Bounds of `proxy`.** Three requests with two slots and a window of two acquisitions in three
of four units of time, so that a window and a block pass (the requests are symmetric); text of eight characters in chunks of at most two, which cuts every
tag at every place; two tool calls with one piece of text and thinking around them; three
upstream blocks with three deltas; three messages of history, the least for a call, its
results in two messages and a text that waits; three store operations with one fault; four
callers, three of them editing one message; three tasks of one parent with one `stop_all`;
two block indices, three screen sizes with up to four events. Every part ends, so deadlock is
not checked.

**Fairness** of `tree_stop`: the event loop resumes every task that can go on, and a CLI
process ends or fails at last. The first is what `asyncio` does; the second is an
assumption about the CLI, as `start_task` has no timeout. Nothing is assumed about users
or about messages that are still being sent.

**Fairness** of `system_live`. The clock advances; somebody runs
`reconcile-leases` again and again, since the server does not do it itself, which is an
assumption about the operator; an adapter that was started returns, because each runner
has a timeout. For `EnvelopesAreSettled` also: a killed daemon is started again and keeps
calling `once` (the `while` loop of `run`), and a request that is repeated for ever is
answered at last (strong fairness of `SendAnswered`, since a lost request takes the daemon
out of the state in which it can send). Nothing else is assumed about the network.

**What the properties are about.**

* The queue. `LeaseOwnership`, `AttemptsSound` (distinct attempts, manual jobs once): who
  holds a job, across expiry, sweeps and late results. `GatesSound`: a waiting job can be
  decided, a gate is asked once, decisions name the run that asked. `HistoryStands`: what
  can no longer change. `RunsAfterDependency`, `CapacityRespected`: the guards of `claim`
  over time. `ImplementsLifecycle`: refinement. `RestartCanReconcile`: the statement grain.
* The protocol with the daemons. `EnvelopesSound`: memory and file agree, no envelope is
  one the controller refuses for ever, what is stored is what was sent. `ExecutionsSound`:
  a task is started again only after a kill or a lost lease, and one result counts.
* The work. `PublishedFitsTogether`, `AttemptBudgetKept`: the brainstorm over crashes.
  `ConfidenceEarned`: HIGH and MEDIUM exactly when the published outputs earn them, computed
  from the scores pair by pair where the code compares means. `DoneIsEarned`,
  `OrphanLockOnly`: runners and Codex processes that outlive their execution.
  `EnginesAgree`: one task seen by several components. `JobsFitManifest`: what the accepted
  job runs on and waits for, against the manifest and the request its task was built from,
  while the project changes. `CreatedAtMostOnce`, `ConfirmedIsRecorded`: two calls with the world
  moving in between.
* The conversation. `OneAtATime`, `ParentFirst`, `QueuedGetsItsTurn`: who has the tree and
  who gets it next. `StopWins`: a node's state while commands and CLI events race.
  `NothingForgotten`, `NothingUndone`: whatever is stopped or cleared.
  `TranscriptFaithful`, `ScreenRight`: what the user sees of it.
* The proxy's machinery. `WindowKept`, `SlotsAccounted`: limits under retries and
  cancellations. `StreamContract`, `ArgumentsDelivered`, `NativeContract`,
  `ChunkingInvisible`: streams that interleave and break. `ConversationReplayed`: history.
  `UnsavedIsRemembered`, `NoFutureLost`, `SentMeansShown`, `ReleasedWhenIdle`,
  `ProcessSupervised`: the store, the limiter and the sessions under races.

Every property of a passing run has a mutant, an operator defined next to the one it
replaces, under which TLC finds it violated.

## Findings

1. `statements_crash`: the methods of the controller are not transactions. A controller
   killed between the two UPDATEs of `ingest_result` leaves a RUNNING job that no sweep
   finds.
2. `tree_order`: `cancel_tree` frees the tree before the cancelled task has unwound; that
   task's `finally` later dequeues a message while a newer one is already running.
3. `runner_lock`: `acquire_lock` of `cxh-run.sh` decides that a lock is an orphan and then
   removes whatever lock is there. Two runners that meet the same orphan, or one that looks
   between the owner's `mkdir` and its pid file, remove the lock of a live run.

### Observations

Behaviour met while modelling that no run is about. Where a passing property has to allow
for it, the property says so.

Controller and work:

* Between the SELECT and the UPDATE of `ingest_result`, a `reconcile-leases` and a `claim`
  of the CLI can make another run active; the UPDATE of `jobs` has no condition on
  `active_run_id`, so the late result ends the new attempt's hold
  (`tests/test_hermes_controller.py:266` is about the sequential case). A sweep that
  overlaps `ingest_result` can mark a run STALE that already waits for a gate.
* The gate bridge refreshes the list before it decides, so what is decided may be a gate
  that appeared after the one the operator was shown; the 409 of its README (line 11) covers
  only what changes between the refresh and the POST.
* `enqueue` looks at the integration and the repository of the project as it is then, not at
  `allowed_engines` or `human_gates`: a task built before an engine was withdrawn still runs
  on it.
* A change of the repository that is undone before the last fingerprint is not noticed
  (`brainstorm.py:529`): the outputs in between were produced on something else.
* A Codex that outlives its killed shell may write `result.json` between the end of the next
  runner and the moment its adapter reads it: a DONE of the older Codex over a FAILED of the
  newer, for the same job.
* `human_gates` of a manifest or a task are not validated before a result names one.

Conversation:

* A task that is cancelled before its first step never runs its `finally`: the tree stays
  busy until a global `/stop` (`queue_manager.py:581` says that the other nodes are not
  affected). `NothingForgotten` excepts it, and the same for a node that was removed from
  the tree while it was queued.
* A non-zero exit cancels the waiting replies as "Parent task failed" and then marks the
  node itself COMPLETED, shown as complete (`data.py:62`: "finished successfully"). Exit
  code 0 without a session id leaves a node IN_PROGRESS.
* A message that is delivered while the global `/clear` deletes messages starts a task
  nobody can stop.
* A process that starts after `stop_all` passed its session, and whose task is cancelled
  outside the generator (`cli/session.py:219`), is left running until the registry is killed
  at exit; after a `stop_all`, a task may register the pending session of another reply to
  the same parent.
* After a cancellation the bare "Stopped." and the task's last transcript are two edits of
  one message: which of them stays depends on which is sent last.
* Transcript: Tasks without ids that end out of order leave the suppression on; a plain
  tool's result without an id may close a Task; ids that are prefixes of each other may pop
  the wrong frame.

Proxy machinery:

* `set_blocked` lets a shorter block overwrite a longer one, and a request that waits for
  the window does not look at the block again.
* A `fire_and_forget` edit that is retried is queued again over a newer one of the same
  message (`limiter.py:26` promises "only the latest version"). Futures that are queued at
  shutdown are never resolved.
* An older snapshot of the session store can be renamed over the empty one of `clear_all`.
* Native stream: an error after `message_stop` yields a second `message_stop`.
* A tool name cut into two deltas starts its block with the first part.
* History: a `tool_result` with an unknown id after the last expected one replays the held
  text twice; a user's text that leaves results out, or an assistant string, overtakes held
  text; `reasoning_content` is attached to both halves of a split message.

## Proofs

`HermesControllerProofs` proves, for all sets of jobs, workers, runs, gates, tasks and
payloads that satisfy `ConstantsAssumption` and `NullAssumption`, every property of
the run `controller`, `RunsAfterDependency`, `CapacityRespected`, and `AttemptsSound` at
the grain of methods. The assumptions say that
ids are not NULL, that tasks declare gates and dependencies that exist, that durations are
natural numbers and that payloads have the columns `ingest_result` reads.

The properties are not inductive one by one, so the argument goes through `IInv`:

* `TypeOK`, `LeaseOwnership`, `AttemptsDistinct` support each other: an attempt number is
  new because no run exceeds the job's, and a result is for the current attempt because
  the active run carries it.
* `QueuedManualIsFresh` is why `ManualRunsOnce` holds: a manual job in the queue has
  attempt 0, since neither expiry nor approval returns it there.
* `EveryRequestAnsweredOrPending` ties the gates to the runs: each run that ever waited is
  the pending request of its job or the source of a decision. From it follow
  `WaitingJobResolvable`, `GateAskedOnce` and the first half of `DecisionsSound`.
* `StatusShowsLatestResult` yields the run a waiting job waits for.
* `RunsAfterDependency` needs that DONE is final.
* `CapacityRespected` needs that only `claim` makes a lease live (`OnlyClaimLeases`, which
  rests on `ExpiryIsFinal`), and that finitely many runs were handed out (`RunsFinite`).

One lemma per action gives its effect on the columns the invariants read (`ClaimEffect`,
`IngestEffect`, ...), one shows that it preserves `IInv`, and one that it is a step or a
stutter of `JobLifecycle` (`ClaimRefines`, ...).

Theorems: `TypeCorrect`, `LeaseOwnershipHolds`, `GatesAreSound` (from
`WaitingJobsAreResolvable`, `GatesAreAskedOnce`, `DecisionsAreSound`), `AttemptsAreSound`
(from `AttemptsAreDistinct`, `ManualJobsRunOnce`), `DependenciesAreRespected`,
`CapacityIsRespected`, `HistoryIsImmutable`, `ControllerImplementsLifecycle`, and two that no run repeats:
`StatusIsLatestResult` and `LeasesStayExpired` (no step makes an expired lease live again).

`StatementsProofs` proves `AttemptsSound` again at the grain of SQL statements, for any
number of ingesting processes and with a kill between any two statements
(`AttemptsSoundBetweenStatements`). `IInv` does not survive this grain: a late result may
end, or an expiry queue again, a job that a statement decided on in an older row. But an
attempt number is given out inside the transaction of `claim` and no other statement
writes it, and none of the delayed statements puts a `manual_reconcile` job back into the
queue: `ExpiryTarget` and the outcomes of a result exclude it. `StatementsInv` is that
part of `IInv` (`TypeOK`, `AttemptsDistinct`, `QueuedManualIsFresh`) and `InFlightSound`,
that what a process carries from one statement to the next refers to runs that were handed
out; `ColumnsKept` says once which columns a statement must leave alone.

`HermesSystemProofs` builds on the first: with daemons that are killed any number of times and
requests and replies that are lost, `EnvelopesAreSound`, `ExecutionsAreSound`, and
`TablesStaySound` (the tables keep what they promise to any client). `SystemInv` is `IInv`
and four facts about the daemons: `SavedSound`, what a saved state owes to the tables (its
claim names a run of this worker, whose outcome is the envelope's or none, and the gates
approved in it are still the approved ones); `MemorySound`, the daemon works from what is
on disk; `StartsCounted`, executions of a claim without an envelope are paid for by kills;
and `NoPolicyRewrite`. `RunKept` says once what a step of the controller leaves to the
daemons, so that each pair of a daemon's and a controller's action is one lemma.
`SystemAssumption` types the constants and excludes jobs of engine `github_api`, which are
the subject of `GitHubHandler`.

`MessageTreeProofs` is about conversations of any size. Where users give no command but
`/stop` in reply (`StopsOnly`; finding 2 shows that the first is false with the global one)
it proves `OneAtATime`, `StopWins` and `ParentFirst`. `TreeInv` holds the types of tasks
and states, `SlotOwned` (a live task is the current task of the current node of a busy
tree) and `StopWins`. `SlotOwned` is what makes `/stop` cancel the right task, since
`cancel_node` checks the current node but cancels the current task. `ParentFirst` also
needs `ReplyOrder`: a parent is in the tree before its replies and stands before them in
the queue, and a free tree has an empty queue.

Whatever commands users give, it proves (with the exceptions the property names: a task
cancelled before its first step, a node removed before it is dequeued, a process that ends
without a session id) `NothingForgotten` and `NothingUndone`, from
`ForgetInv`: `QueueSound` (who is queued has no task and is queued once), `DeliveredOnly`
(among others, the current task is the current node's as long as that node is in the tree)
and `StateOfTask`, what a node's state says about its task. `CommandEffect` states once
what all commands do: cancel, mark as failed, and leave to a waiting node what it waits for.
`WithoutKeepsOrder` gives what removal from the queue means; `Without` is written with
positions instead of `SelectSeq`, which the prover cannot open. Theorems:
`TreeHasOneOwner`, `ProcessesOneAtATime`, `StoppedStaysStopped`, `RepliesAfterParents`,
`ForgetAlways`, `NothingForgottenAlways`, `NothingUndoneAlways`.

`ProxyProofs`, for any number of requests, callers, keys and store operations:

* `WindowTyped` and `WindowTheorem`: `WindowKept` for every `rate_limit`, every
  `rate_window` and any passing of time, from `RateAssumption` (both are positive).
  `WindowInv` adds `PoppedIsOld` (what has left the deque is a window old): a grant finds
  fewer than `RateLimit` entries in the deque, so the acquisition `RateLimit` places
  earlier has been popped.
* `ProviderWindowKept` carries the window over to `ProviderRate`, whose every step is a
  turn of `acquire`, the clock, or none of them; `SlotsAreAccounted` counts the semaphore
  (`RateInv`; the requests at one time are finitely many, `RequestsAssumption`).
* `UnsavedStaysRemembered`, which speaks of the time until two writers overlap and again
  after a restart: `StoreInv` adds that a lone writer carries what is in memory
  and that `_save_timer` refers to a timer that is there.
* `FuturesAreNeverLost` and `SentIsShown` (except for a message whose older edit was queued
  again after a failure): `LimiterInv` adds that queued keys have a task,
  that the worker's task is the one it took, and that what is queued, and then sent, is the
  newest of its message (`LimiterBounds`: callers are numbered in the order they submit).
* `ReleasedAlways` and `ProcessesAlwaysSupervised`, for any number of tasks and
  `stop_all`s: `CliInv` consists of `IdsApart` (a real id never collides with a temporary
  one), `EntriesAnswered` (every entry has a task that will remove it) and `ProcessesHeld`
  (what runs was opened by the task that holds the session's lock). `CliAssumption`:
  replies ask for real session ids, as `handler.py` passes no other.
* `ConversationsReplayed` (`ConversationReplayed`), for messages of any blocks
  (`AssistantAssumption`: their kinds are those of the API) and any number of them, of a
  client that sends known results and none twice; the order of the texts is claimed unless
  one came early (an assistant's plain string, a user's text with results left out). The
  property does not keep itself: where text waits for results, it has to be known whose.
  `ReplayInv` adds `Held` (at most one record waits) and `Answerable` (while results may
  come, the message with their calls is the last that is no result, and what waits, waits
  for exactly those results); `Faithful` compares texts replayed and waiting with those that
  came. `SplitSays`: no text is lost or doubled around the calls of a message. `FoldTold`
  goes through the results of a user message in any order (`Told`: the text is released with
  the last of them and not before). What a loop computes is proved by induction with a set
  in the place of the predicate (`FromZero`, `ByAppend`), and that the recursive functions
  exist by building them step by step (`KeptExists`, `FlatExists`, `UserExists`).

`WorkProofs`, for any number of executions, operators, manifests, tasks and runners:

* `PullCreatedOnce`: the handler POSTs only before it has created anything (`PostsFirst`).
* `ConfirmationsAreTrue`: a job waits for one gate of one run, and a bridge that posts has
  one target (`BridgeInv`).
* `EnginesAlwaysAgree`, `JobsAlwaysFitManifest`: registered projects are valid, a built task
  keeps to its manifest and request (`BuiltFits`), and an admitted job passed the checks of
  `enqueue` and waits only at gates of its task (`BuildInv`, from `BuildAssumption`: a request
  names at most one engine).
* `DoneIsAlwaysEarned`: `AdaptersInv` ties an execution to its own runner, what that runner
  wrote to the file it is read from (`OwnWrote`: the file holds it or something later) and
  its review to the tree it began on (`ReviewIsFresh`). It does not use the lock: what finding 3 says about the lock of
  `cxh-run.sh` does not cost a wrong DONE (`AdapterAssumption`: workers configure known engines,
  and only the brainstorm adapter is registered as one).

For `Brainstorm` it proves `PublishedFitsTogether` and `AttemptBudgetKept` for every task,
all replies and any number of attempts and faults. `BrainstormInv` says what the
directory knows: the run's results are on disk in order (`RunOnDisk`), behind every
checkpoint and every answer about to be written there is a call for exactly its inputs
(`CallsBehindFiles`; a call on the repository as it is, when that is the one of the baseline
and no change was undone), the budget on disk is the
attempt's (`BudgetOfAttempt`) and counts its calls (`CallsCounted`).

`TranscriptProofs` proves `TranscriptFaithful` and `ScreenRight` for every set of block
indices, every layout with a status line (`TranscriptAssumption`) and any number of events.
`TranscriptInv` adds what the segments depend on: `IdsGiven` (the ids of unanswered calls
are the ones given out, each once), `StackFollows` (while Tasks end in reverse order the
stack is the running Tasks, with a marker for an omitted id; if no id is omitted it never
holds a Task that has ended) and `OpensFollow` (outside the Tasks the block an index names
has a segment of its own open there, with pieces of that block only). `PopCuts` says once
what `_subagent_pop` removes. `ScreenRight` needs that the lengths of the rendering exist
and are numbers: `SumsExist` and `SumsNat` show it for the recursive function `Sums` by its
least counterexample (`LeastNatural`), and `RenderFits` goes through the cases of `render`.

It also proves `TagsChunked` (`ChunkingInvisible`) for texts and chunks of any length.
`ChunkingInvisible` is not inductive: the tail that is held back matters only for what comes
next. `TagsInv` says that for every word `t` that may follow, reading what was fed and then
`t` gives what was emitted and then the reading of the buffer and `t`, on the side the parser
is on; and that the buffer alone has no tag, so that flushing it as it stands is right.
`ReadingSteps` states the reference letter by letter, `ReadPlain` and `ReadTag` how it reads
up to a tag, and `StraddlingHeld` is the heart: a tag that begins in a word and ends after it
begins where `Held` holds back. `PassReads` and `ParsedNext` carry this through a pass,
`ParseAllRight` through the loop, which has consumed all it can after `Len(s)` passes.

`StreamProofs` proves `StreamsAreMessages` (`StreamContract`) and `ArgumentsArrive`
(`ArgumentsDelivered`) for any number of tool calls, pieces and fragments
(`CallsAssumption`: the calls are numbered from 0 and typed). `StreamInv` is about the middle
of a stream: `Sound` says that builder and reader agree (the reader has seen the blocks
below `next_index`, and has open what the builder has open; no two calls share a block; a
buffer belongs to a call that has a block), and `CallSound` what each call has had: its
fragments are kept back until its name is known, and then `Delivered`: read as they came,
or buffered until they are the whole object and then read once, rewritten. The invariant
`StreamContract` alone is not inductive: that the reader accepts the next event depends on
what the builder takes to be open. `ReadStart`, `ReadDelta`, `ReadStop`, `ReadMessage` and
`ReadEnd` say once what the reader does with each event; every helper of the builder then
has one lemma. Flushing and closing are recursive functions over the calls: that they exist
(`FlushedExists`, `ClosedExists`) and what they do (`FlushCallsSound`, `CloseAllSound`)
follows by their least counterexample (`LeastIndex`).

It also proves `NativeStreamsAreMessages` (`NativeContract`) for any number of provider
blocks and of deltas (`UpstreamAssumption`: every block has a kind). Here three parties must
agree: the policy that renumbers, the tracker of what was emitted and the reader. `NativeInv`
says so for the middle of a stream: `Passing` (the open segments have distinct indexes below
`next`, and are what the tracker's stack and the reader hold, `Agree`) and `Attuned` (what is
open or waits for its stop to be ignored belongs to a block in progress and is not hidden
thinking; what was dropped is). Without `Attuned` the end of the message cannot be shown: that
nothing is open at `message_stop` follows from every block having ended. Each handler has a
lemma on what it makes of the policy (`OnStartPasses`, `OnDeltaPasses`, `OnStopPasses`,
`OnMessagePasses`); that any number of overlapping blocks is closed, at a start or by the tracker
when the stream breaks, follows for both recursive functions by the least counterexample
(`CloseUnclosedCloses`). After `message_stop` a failure appends a second end: `NativeContract`
does not speak of that state, as the code does not cover it.

**Only model-checked.** Liveness (`QueuedGetsItsTurn`, the run `system_live`), which the
prover does not handle. `ConfidenceEarned`, which looks inside the ranking. `RestartCanReconcile`
and the properties of the other runs that expect a violation are false (see Findings).

## Not modelled

* The `events` table (append-only, read by nobody that decides), logging, and the
  presentation of `status()` and of the gate lists.
* Credentials and authentication, body size limits, the format of paths, ids and SHAs.
* A torn state file (`_save_state` is one step) and a wall clock set back.
* SQLite itself: a statement is atomic and a `BEGIN IMMEDIATE` transaction excludes
  other writers.
* Several trees at once (they share only the index and the session manager), replies that
  open a new conversation, status-message ids, voice notes, Markdown.
* The `except Exception` of `process_node`: `_process_node_impl` lets no exception out.
* `HeuristicToolParser` (regular expressions over free text), tool schemas, the system
  prompt and the request bodies of the single providers: conversion of data without state.
* The proxy's API routes, admin pages and start-up: they edit a configuration file and
  call each part once, in a fixed order.
* Telegram and Discord: calls of two libraries; what the code relies on (sending suspends,
  may fail, may ask to wait) is in `MessageTree`, `MessagingLimiter` and `Transcript`.
* The smoke tests (`proxy/smoke`), the installers and the interactive launchers.

## Plan

What is left, in order of value:

1. That `ControllerStatements` without interleaving implements `HermesController`.
2. `CliSessions` and `Transcript` composed with `MessageTree`, with several trees.
3. `HeuristicToolParser` over a small alphabet, like `ThinkTags`; start-up and shutdown
   order of the runtime with the session store's clean-up of stale nodes.
