------------------------- MODULE HermesSystemProofs -------------------------
(***************************************************************************)
(* Proofs about HermesSystem: the controller with daemons that are killed  *)
(* and requests and replies that are lost, for every set of workers, runs, *)
(* jobs and gates, every adapter behaviour and every number of kills.      *)
(***************************************************************************)
EXTENDS HermesSystem, HermesControllerProofs

USE DEF RESULT_STATUSES, JobState, RunState

\* A step leaves run r to the saved states that name it: its identity and outcome stay,
\* and while it is RUNNING nobody decides a gate of its job.
RunKept(r) ==
  runs[r].state # "UNUSED" =>
    /\ runs'[r].job = runs[r].job /\ runs'[r].worker = runs[r].worker
    /\ runs'[r].result = runs[r].result
    /\ runs'[r].state = runs[r].state \/ (runs[r].state = "RUNNING" /\ runs'[r].state = "STALE")
    /\ runs[r].state = "RUNNING" => ApprovedGates(runs[r].job)' = ApprovedGates(runs[r].job)

\* The runs that the workers of W have on disk are kept.
ClaimsKept(W) == \A v \in W : \A r \in RunId : r = disk[v].claim => RunKept(r)

\* A step that gives no run a new result.
NothingStored == \A r \in RunId : RunKept(r) /\ (runs'[r].result = runs[r].result \/ runs'[r].result = None)

\* The identity columns and the outcome of a run, as far as the proofs read them.
LEMMA RunTypes ==
  ASSUME TypeOK
  PROVE  /\ \A r \in RunId : runs[r].state # "UNUSED" => runs[r].job \in Job /\ runs[r].worker \in Worker
         /\ \A r \in RunId : runs[r].result \in StoredResult \cup {None}
         /\ \A r \in RunId : runs[r].state \in RunState
BY DEF TypeOK, RunRow

LEMMA LeqTrans == \A a, b, c \in Nat : a <= b /\ b <= c => a <= c
OBVIOUS

\* Two daemons never hold the same run: a run has one worker.
LEMMA ClaimsDistinct ==
  ASSUME SystemInv, NEW v \in Worker, NEW w \in Worker, v # w,
         disk[v].claim # None, disk[w].claim # None
  PROVE  disk[v].claim # disk[w].claim
<1>1. SavedSound(v, disk[v]) /\ SavedSound(w, disk[w])
  BY DEF SystemInv
<1> QED BY <1>1 DEF SavedSound

\* The heartbeats, the clock and an empty claim keep every run as it is.
LEMMA OtherKeeps ==
  ASSUME IInv,
         \/ UNCHANGED vars
         \/ \E w \in Worker, d \in Descriptor : RegisterWorker(w, d)
         \/ \E w \in Worker : HeartbeatWorker(w) \/ ClaimNothing(w)
         \/ \E r, claim \in RunId : HeartbeatRun(r, claim)
         \/ Tick
  PROVE  IInv' /\ NothingStored
<1>1. IInv'
  BY StepIInv DEF Next
<1>2. /\ jobs' = jobs /\ decisions' = decisions
      /\ \A r \in RunId :
           /\ runs'[r].state = runs[r].state /\ runs'[r].job = runs[r].job
           /\ runs'[r].attempt = runs[r].attempt /\ runs'[r].result = runs[r].result
           /\ runs'[r].worker = runs[r].worker
  BY OtherEffect DEF IInv
<1> QED BY <1>1, <1>2 DEF NothingStored, RunKept, ApprovedGates, GateIsApproved

LEMMA EnqueueKeeps ==
  ASSUME IInv, NEW j \in Job, NEW t \in 0 .. Cardinality(Job), Enqueue(j, t)
  PROVE  IInv' /\ NothingStored
<1>1. IInv'
  BY StepIInv DEF Next
<1>2. runs' = runs /\ decisions' = decisions
  BY EnqueueEffect DEF IInv
<1> QED BY <1>1, <1>2 DEF NothingStored, RunKept, ApprovedGates, GateIsApproved

\* A gate is decided only for a job that waits, and a waiting job has no RUNNING run.
LEMMA ResolveKeeps ==
  ASSUME IInv, NEW j \in Job, NEW g \in Gate, NEW decision \in {"APPROVED", "REJECTED"},
         NEW source \in RunId, ResolveGate(j, g, decision, source)
  PROVE  IInv' /\ NothingStored
<1>1. IInv'
  BY StepIInv DEF Next
<1>2. /\ jobs[j].state = "WAIT_USER" /\ runs' = runs
      /\ \A i \in Job \ {j} : decisions'[i] = decisions[i]
  BY ResolveEffect DEF IInv
<1>3. \A r \in RunId : runs[r].state = "RUNNING" => runs[r].job \in Job \ {j}
  BY <1>2, RunTypes, ConstantsAssumption DEF IInv, LeaseOwnership
<1>4. \A i \in Job \ {j} : ApprovedGates(i)' = ApprovedGates(i)
  BY <1>2 DEF ApprovedGates, GateIsApproved
<1> QED BY <1>1, <1>2, <1>3, <1>4 DEF NothingStored, RunKept

\* reconcile_expired_leases writes STALE over RUNNING and nothing else.
LEMMA SweepKeeps ==
  ASSUME IInv, ReconcileExpiredLeases
  PROVE  IInv' /\ NothingStored
<1>1. IInv'
  BY StepIInv DEF Next
<1>2. /\ decisions' = decisions
      /\ \A r \in RunId :
           /\ runs'[r].job = runs[r].job /\ runs'[r].worker = runs[r].worker
           /\ runs'[r].result = runs[r].result
           /\ runs'[r].state = runs[r].state \/ (runs[r].state = "RUNNING" /\ runs'[r].state = "STALE")
  BY ReconcileEffect DEF IInv
<1> QED BY <1>1, <1>2 DEF NothingStored, RunKept, ApprovedGates, GateIsApproved

\* A claim writes a run row nobody refers to yet.
LEMMA ClaimKeeps ==
  ASSUME IInv, NEW w \in Worker, NEW j \in Job, NEW r \in RunId, Claim(w, j, r)
  PROVE  /\ IInv' /\ NothingStored
         /\ runs[r].state = "UNUSED" /\ runs'[r].state = "RUNNING"
         /\ runs'[r].job = j /\ runs'[r].worker = w
         /\ ApprovedGates(j)' = ApprovedGates(j)
<1>1. IInv'
  BY StepIInv DEF Next
<1>2. /\ runs[r].state = "UNUSED" /\ decisions' = decisions
      /\ runs'[r].state = "RUNNING" /\ runs'[r].job = j /\ runs'[r].worker = w
      /\ \A q \in RunId \ {r} : runs'[q] = runs[q]
  BY ClaimEffect DEF IInv
<1>3. runs'[r].result = None
  BY DEF Claim, Lease, IInv, TypeOK
<1> QED BY <1>1, <1>2, <1>3 DEF NothingStored, RunKept, ApprovedGates, GateIsApproved

\* Both heartbeats of the loop of a daemon arrive.
LEMMA RenewKeeps ==
  ASSUME IInv, NEW w \in Worker, NEW r \in RunId, jobs' = jobs, decisions' = decisions,
         workers' = [workers EXCEPT ![w].age = 0],
         runs' = runs \/ runs' = [runs EXCEPT ![r].left = LeaseDuration]
  PROVE  IInv' /\ NothingStored
<1>0. TypeOK /\ LeaseDuration \in -1 .. LeaseDuration
  BY ConstantsAssumption DEF IInv
<1>1. workers' \in [Worker -> WorkerRow]
  <2>1. workers \in [Worker -> WorkerRow] /\ workers[w] \in WorkerRow
    BY <1>0 DEF TypeOK
  <2>2. PICK row : row = [workers[w] EXCEPT !.age = 0]
    OBVIOUS
  <2>3. row \in WorkerRow
    BY <2>1, <2>2, ConstantsAssumption DEF WorkerRow
  <2>4. workers' = [workers EXCEPT ![w] = row]
    BY <2>2
  <2> QED BY <2>1, <2>3, <2>4
<1>2. runs[r] \in RunRow
  BY <1>0 DEF TypeOK
<1> DEFINE new == [runs[r] EXCEPT !.left = LeaseDuration]
<1>3. /\ new \in RunRow /\ new.job = runs[r].job /\ new.worker = runs[r].worker
      /\ new.attempt = runs[r].attempt /\ new.state = runs[r].state /\ new.result = runs[r].result
  BY <1>0, <1>2, RunLeftUpdate
<1>4. runs' = runs \/ runs' = [runs EXCEPT ![r] = new]
  OBVIOUS
<1> HIDE DEF new
<1>5. runs' \in [RunId -> RunRow]
  BY <1>0, <1>3, <1>4 DEF TypeOK
<1>6. \A q \in RunId :
        /\ runs'[q].job = runs[q].job /\ runs'[q].worker = runs[q].worker
        /\ runs'[q].attempt = runs[q].attempt /\ runs'[q].state = runs[q].state
        /\ runs'[q].result = runs[q].result
  BY <1>0, <1>3, <1>4 DEF TypeOK
<1>7. TypeOK'
  BY <1>0, <1>1, <1>5, <1>6 DEF TypeOK
<1>8. IInv'
  BY <1>6, <1>7, OtherPreserves
<1> QED BY <1>6, <1>8 DEF NothingStored, RunKept, ApprovedGates, GateIsApproved

-----------------------------------------------------------------------------
(***************************************************************************)
(* What a step of the tables does to the saved states, and what a step of  *)
(* one daemon has to establish.                                            *)
(***************************************************************************)
\* A saved state stays sound while the run it names is kept.
LEMMA SavedStep ==
  ASSUME NEW w \in Worker, NEW s \in StateRow, SavedSound(w, s),
         s.claim # None => s.claim \in RunId /\ RunKept(s.claim)
  PROVE  SavedSound(w, s)'
<1>1. s.envelope # None => s.claim # None
  BY DEF SavedSound
<1>2. CASE s.claim = None
  BY <1>1, <1>2 DEF SavedSound
<1>3. CASE s.claim # None
  <2> DEFINE r == s.claim
  <2>1. /\ runs[r].state # "UNUSED" /\ runs'[r].job = runs[r].job /\ runs'[r].worker = runs[r].worker
        /\ runs'[r].result = runs[r].result
        /\ runs'[r].state = runs[r].state \/ (runs[r].state = "RUNNING" /\ runs'[r].state = "STALE")
        /\ runs[r].state = "RUNNING" => ApprovedGates(runs[r].job)' = ApprovedGates(runs[r].job)
    BY <1>3 DEF SavedSound, RunKept
  <2>2. runs'[r].state = "RUNNING" => s.approved = ApprovedGates(runs[r].job)'
    BY <1>3, <2>1 DEF SavedSound
  <2>3. EngineMatches(runs[r].job, s.envelope)' <=> EngineMatches(runs[r].job, s.envelope)
    BY <2>1 DEF EngineMatches, TaskEngine
  <2>4. GateAllowed(runs[r].job, s.envelope)' <=> GateAllowed(runs[r].job, s.envelope)
    BY <2>1 DEF GateAllowed
  <2>5. runs'[r].state \in RESULT_STATUSES =>
          s.envelope # None /\ runs'[r].result = [body |-> s.envelope, policy |-> FALSE]
    <3>1. runs[r].state \in RESULT_STATUSES =>
            s.envelope # None /\ runs[r].result = [body |-> s.envelope, policy |-> FALSE]
      BY <1>3, Zenon DEF SavedSound
    <3>2. runs'[r].state \in RESULT_STATUSES => runs[r].state \in RESULT_STATUSES
      BY <2>1
    <3> QED BY <2>1, <3>1, <3>2
  <2>6. s.envelope # None =>
          /\ s.envelope \in ReportedPayload
          /\ EngineMatches(runs[r].job, s.envelope)' /\ GateAllowed(runs[r].job, s.envelope)'
          /\ s.envelope.status = "WAIT_USER" => s.envelope.gate \notin s.approved
    BY <2>3, <2>4 DEF SavedSound
  <2>7. runs'[r].state # "UNUSED" /\ runs'[r].worker = w
    BY <1>3, <2>1 DEF SavedSound
  <2> QED BY <1>3, <2>2, <2>5, <2>6, <2>7 DEF SavedSound
<1> QED BY <1>2, <1>3

\* The states of the other daemons, whose memory and file a step of w leaves alone.
LEMMA OthersSound ==
  ASSUME SystemInv, NEW w \in Worker, NEW d, NEW s,
         daemon' = [daemon EXCEPT ![w] = d], disk' = [disk EXCEPT ![w] = s],
         ClaimsKept(Worker \ {w})
  PROVE  \A v \in Worker \ {w} : /\ disk'[v] = disk[v] /\ daemon'[v] = daemon[v]
                                /\ SavedSound(v, disk[v])' /\ MemorySound(v)'
<1> SUFFICES ASSUME NEW v \in Worker \ {w}
             PROVE  /\ disk'[v] = disk[v] /\ daemon'[v] = daemon[v]
                    /\ SavedSound(v, disk[v])' /\ MemorySound(v)'
  OBVIOUS
<1>1. disk'[v] = disk[v] /\ daemon'[v] = daemon[v]
  BY DEF SystemInv
<1>2. PICK t \in StateRow : t = disk[v]
  BY DEF SystemInv
<1>3. SavedSound(v, t)
  BY <1>2 DEF SystemInv
<1>4. t.claim # None => t.claim \in RunId /\ RunKept(t.claim)
  BY <1>2 DEF StateRow, ClaimsKept
<1>5. SavedSound(v, t)'
  BY <1>3, <1>4, SavedStep
<1>6. SavedSound(v, disk[v])'
  BY <1>1, <1>2, <1>5 DEF SavedSound
<1>7. MemorySound(v)'
  BY <1>1 DEF SystemInv, MemorySound, AtWork
<1> QED BY <1>1, <1>6, <1>7

\* What is left to show of a step of daemon w.
LEMMA LocalStep ==
  ASSUME SystemInv, IInv', NoPolicyRewrite',
         NEW w \in Worker, NEW d \in DaemonRow, NEW s \in StateRow,
         daemon' = [daemon EXCEPT ![w] = d], disk' = [disk EXCEPT ![w] = s],
         ClaimsKept(Worker \ {w}),
         SavedSound(w, s)',
         d.at # "down" => d.state = s,
         d.at \in {"executing", "lease lost"} => s.claim # None /\ s.envelope = None,
         executions' \in [RunId -> Nat], crashes' \in Nat, crashes <= crashes',
         \A r \in RunId : executions'[r] <= 1 + crashes',
         \A r \in RunId : executions'[r] > 0 => runs'[r].state # "UNUSED",
         \A v \in Worker \ {w} : disk[v].claim # None => executions'[disk[v].claim] = executions[disk[v].claim],
         s.claim # None /\ s.envelope = None /\ d.at \notin {"executing", "lease lost"}
           => executions'[s.claim] <= crashes'
  PROVE  SystemInv'
<1>1. \A v \in Worker \ {w} : /\ disk'[v] = disk[v] /\ daemon'[v] = daemon[v]
                             /\ SavedSound(v, disk[v])' /\ MemorySound(v)'
  BY OthersSound
<1>2. daemon' \in [Worker -> DaemonRow] /\ disk' \in [Worker -> StateRow]
  BY DEF SystemInv
<1>3. disk'[w] = s /\ daemon'[w] = d
  BY DEF SystemInv
<1>4. SavedSound(w, disk[w])'
  BY <1>3 DEF SavedSound
<1>5. MemorySound(w)'
  BY <1>3 DEF MemorySound, AtWork
<1>6. ASSUME NEW v \in Worker, disk'[v].claim # None, disk'[v].envelope = None, ~AtWork(v)'
      PROVE  executions'[disk'[v].claim] <= crashes'
  <2>1. CASE v = w
    BY <1>3, <1>6, <2>1 DEF AtWork
  <2>2. CASE v # w
    <3>1. executions[disk[v].claim] <= crashes /\ disk[v].claim # None
      BY <1>1, <1>6, <2>2 DEF AtWork, SystemInv, StartsCounted
    <3>2. disk[v].claim \in RunId
      BY <3>1 DEF SystemInv, StateRow
    <3>3. executions'[disk[v].claim] = executions[disk[v].claim] /\ executions[disk[v].claim] \in Nat
      BY <2>2, <3>1, <3>2 DEF SystemInv
    <3>4. crashes \in Nat
      BY DEF SystemInv
    <3>5. executions[disk[v].claim] <= crashes'
      BY <3>1, <3>3, <3>4, LeqTrans
    <3> QED BY <1>1, <2>2, <3>3, <3>5
  <2> QED BY <2>1, <2>2
<1>7. StartsCounted'
  BY <1>6 DEF StartsCounted
<1>8. \A v \in Worker : SavedSound(v, disk[v])' /\ MemorySound(v)'
  BY <1>1, <1>4, <1>5
<1> QED BY <1>2, <1>7, <1>8 DEF SystemInv

\* A step that stores no result, as the saved states see it.
LEMMA NothingStoredFrame ==
  ASSUME SystemInv, NothingStored
  PROVE  /\ NoPolicyRewrite'
         /\ \A r \in RunId : executions[r] > 0 => runs'[r].state # "UNUSED"
         /\ \A w \in Worker : ClaimsKept(Worker \ {w})
         /\ \A v \in Worker : \A t \in StateRow : t = disk[v] => SavedSound(v, t)'
<1>1. NoPolicyRewrite'
  BY DEF SystemInv, NoPolicyRewrite, NothingStored
<1>2. \A r \in RunId : executions[r] > 0 => runs'[r].state # "UNUSED"
  BY DEF SystemInv, StartsCounted, NothingStored, RunKept
<1>3. \A w \in Worker : ClaimsKept(Worker \ {w})
  BY DEF ClaimsKept, NothingStored
<1>4. ASSUME NEW v \in Worker, NEW t \in StateRow, t = disk[v] PROVE SavedSound(v, t)'
  <2>1. SavedSound(v, t)
    BY <1>4 DEF SystemInv
  <2>2. t.claim # None => t.claim \in RunId /\ RunKept(t.claim)
    BY DEF NothingStored, StateRow
  <2> QED BY <2>1, <2>2, SavedStep
<1> QED BY <1>1, <1>2, <1>3, <1>4

\* The daemons and their files do not move.
LEMMA QuietStep ==
  ASSUME SystemInv, IInv', NothingStored, UNCHANGED dvars
  PROVE  SystemInv'
<1>1. /\ NoPolicyRewrite'
      /\ \A r \in RunId : executions[r] > 0 => runs'[r].state # "UNUSED"
      /\ \A v \in Worker : \A t \in StateRow : t = disk[v] => SavedSound(v, t)'
  BY NothingStoredFrame
<1>2. UNCHANGED <<daemon, disk, executions, crashes>>
  BY DEF dvars
<1>3. ASSUME NEW v \in Worker PROVE SavedSound(v, disk[v])' /\ MemorySound(v)'
  <2>1. PICK t \in StateRow : t = disk[v]
    BY DEF SystemInv
  <2>2. SavedSound(v, t)' /\ disk'[v] = t
    BY <1>1, <1>2, <2>1
  <2>3. SavedSound(v, disk[v])'
    BY <2>2 DEF SavedSound
  <2>4. MemorySound(v)'
    BY <1>2 DEF SystemInv, MemorySound, AtWork
  <2> QED BY <2>3, <2>4
<1>4. StartsCounted'
  BY <1>1, <1>2 DEF SystemInv, StartsCounted, AtWork
<1> QED BY <1>1, <1>2, <1>3, <1>4 DEF SystemInv

LEMMA Counters ==
  ASSUME SystemInv
  PROVE  /\ executions \in [RunId -> Nat] /\ crashes \in Nat /\ crashes <= crashes
         /\ \A r \in RunId : executions[r] <= 1 + crashes
BY DEF SystemInv, StartsCounted

LEMMA AtUpdate ==
  ASSUME NEW row \in DaemonRow, NEW x \in {"down", "idle", "once", "executing", "lease lost"}
  PROVE  LET new == [row EXCEPT !.at = x]
         IN  new \in DaemonRow /\ new.at = x /\ new.state = row.state
BY DEF DaemonRow

\* A daemon moves on with the state it has.
LEMMA AtStep ==
  ASSUME SystemInv, IInv', NothingStored, NEW w \in Worker,
         NEW x \in {"idle", "once", "executing", "lease lost"},
         daemon[w].at # "down",
         daemon' = [daemon EXCEPT ![w].at = x], UNCHANGED <<disk, executions, crashes>>,
         IF x \in {"executing", "lease lost"} THEN AtWork(w) ELSE ~AtWork(w)
  PROVE  SystemInv'
<1> DEFINE d == [daemon[w] EXCEPT !.at = x]
<1>0. PICK s \in StateRow : s = disk[w]
  BY DEF SystemInv
<1>1. daemon[w] \in DaemonRow /\ daemon[w].state = s
  BY <1>0 DEF SystemInv, MemorySound
<1>2. d \in DaemonRow /\ d.at = x /\ d.state = s
  <2>1. x \in {"down", "idle", "once", "executing", "lease lost"}
    OBVIOUS
  <2>2. d \in DaemonRow /\ d.at = x /\ d.state = daemon[w].state
    BY ONLY <1>1, <2>1, AtUpdate
  <2> QED BY <1>1, <2>2
<1>3. daemon' = [daemon EXCEPT ![w] = d]
  OBVIOUS
<1>4. disk' = [disk EXCEPT ![w] = s]
  BY <1>0 DEF SystemInv
<1>5. /\ NoPolicyRewrite'
      /\ \A r \in RunId : executions[r] > 0 => runs'[r].state # "UNUSED"
      /\ ClaimsKept(Worker \ {w})
      /\ SavedSound(w, s)'
  BY <1>0, NothingStoredFrame
<1>6. x \in {"executing", "lease lost"} => s.claim # None /\ s.envelope = None
  BY <1>0 DEF SystemInv, MemorySound
<1>7. s.claim # None /\ s.envelope = None /\ x \notin {"executing", "lease lost"}
        => executions[s.claim] <= crashes
  BY <1>0 DEF SystemInv, StartsCounted
<1>8. executions \in [RunId -> Nat] /\ crashes \in Nat /\ crashes <= crashes
      /\ \A r \in RunId : executions[r] <= 1 + crashes
  BY Counters
<1> HIDE DEF d
<1> QED BY <1>2, <1>3, <1>4, <1>5, <1>6, <1>7, <1>8, LocalStep

-----------------------------------------------------------------------------
(***************************************************************************)
(* One lemma per kind of step of a daemon.                                 *)
(***************************************************************************)
\* _load_state: the new process takes up what the file says.
LEMMA StartPreserves ==
  ASSUME SystemInv, NEW w \in Worker, Start(w)
  PROVE  SystemInv'
<1> DEFINE d == [at |-> "idle", state |-> disk[w]]
<1>0. PICK s \in StateRow : s = disk[w]
  BY DEF SystemInv
<1>1. IInv' /\ NothingStored
  BY OtherKeeps, SystemAssumption DEF Start, SystemInv
<1>2. d \in DaemonRow /\ d.at = "idle" /\ d.state = s
  BY <1>0 DEF DaemonRow
<1>3. daemon' = [daemon EXCEPT ![w] = d] /\ disk' = [disk EXCEPT ![w] = s]
      /\ executions' = executions /\ crashes' = crashes
  BY <1>0 DEF Start, SystemInv
<1>4. /\ NoPolicyRewrite'
      /\ \A r \in RunId : executions[r] > 0 => runs'[r].state # "UNUSED"
      /\ ClaimsKept(Worker \ {w})
      /\ SavedSound(w, s)'
  BY <1>0, <1>1, NothingStoredFrame
<1>5. s.claim # None /\ s.envelope = None => executions[s.claim] <= crashes
  BY <1>0 DEF SystemInv, StartsCounted, Start, AtWork
<1>6. executions \in [RunId -> Nat] /\ crashes \in Nat /\ crashes <= crashes
      /\ \A r \in RunId : executions[r] <= 1 + crashes
  BY Counters
<1> HIDE DEF d
<1> QED BY <1>1, <1>2, <1>3, <1>4, <1>5, <1>6, LocalStep

\* Steps in which the daemon only moves on: heartbeats, lost requests and lost replies
\* of claims, no work, the heartbeats of the execution loop.
LEMMA MovePreserves ==
  ASSUME SystemInv, NEW w \in Worker,
         \/ Poll(w) \/ RequestLost(w) \/ NoWork(w) \/ RenewLost(w) \/ Renew(w)
         \/ \E j \in Job, r \in RunId : ClaimReplyLost(w, j, r)
  PROVE  SystemInv'
<1>0. IInv
  BY DEF SystemInv
<1>1. CASE Poll(w)
  <2>1. IInv' /\ NothingStored
    BY <1>0, <1>1, OtherKeeps DEF Poll
  <2> QED BY <1>1, <2>1, AtStep DEF Poll, AtWork
<1>2. CASE RequestLost(w)
  <2>1. IInv' /\ NothingStored
    BY <1>0, <1>2, OtherKeeps DEF RequestLost
  <2> QED BY <1>2, <2>1, AtStep DEF RequestLost, AtWork
<1>3. CASE NoWork(w)
  <2>1. IInv' /\ NothingStored
    BY <1>0, <1>3, OtherKeeps DEF NoWork
  <2> QED BY <1>3, <2>1, AtStep DEF NoWork, AskForWork, AtWork
<1>4. CASE RenewLost(w)
  <2>1. IInv' /\ NothingStored
    BY <1>0, <1>4, OtherKeeps DEF RenewLost
  <2> QED BY <1>4, <2>1, QuietStep DEF RenewLost
<1>5. ASSUME NEW j \in Job, NEW r \in RunId, ClaimReplyLost(w, j, r) PROVE SystemInv'
  <2>1. IInv' /\ NothingStored
    BY <1>0, <1>5, ClaimKeeps DEF ClaimReplyLost
  <2> QED BY <1>5, <2>1, AtStep DEF ClaimReplyLost, AskForWork, AtWork
<1>6. CASE Renew(w)
  <2> DEFINE r == daemon[w].state.claim
  <2>1. AtWork(w) /\ daemon[w].at # "down"
    BY <1>6 DEF Renew, AtWork
  <2>2. r \in RunId
    BY <2>1 DEF SystemInv, MemorySound, StateRow
  <2>3. IInv' /\ NothingStored
    BY <1>0, <1>6, <2>2, RenewKeeps DEF Renew
  <2>4. CASE Live(r)
    BY <1>6, <2>3, <2>4, QuietStep DEF Renew, dvars
  <2>5. CASE ~Live(r)
    <3>1. daemon' = [daemon EXCEPT ![w].at = "lease lost"] /\ UNCHANGED <<disk, executions, crashes>>
      BY <1>6, <2>5 DEF Renew
    <3> QED BY <2>1, <2>3, <3>1, AtStep
  <2> QED BY <2>4, <2>5
<1> QED BY <1>1, <1>2, <1>3, <1>4, <1>5, <1>6

\* The claim is saved before anything is done with it.
LEMMA ClaimReceivedPreserves ==
  ASSUME SystemInv, NEW w \in Worker, NEW j \in Job, NEW r \in RunId, ClaimReceived(w, j, r)
  PROVE  SystemInv'
<1>0. PICK s \in StateRow : s = [claim |-> r, approved |-> ApprovedGates(j), envelope |-> None]
  BY DEF StateRow, ApprovedGates
<1> DEFINE d == [at |-> "once", state |-> s]
<1>1. /\ IInv' /\ NothingStored
      /\ runs[r].state = "UNUSED" /\ runs'[r].state = "RUNNING"
      /\ runs'[r].job = j /\ runs'[r].worker = w
      /\ ApprovedGates(j)' = ApprovedGates(j)
  BY ClaimKeeps DEF ClaimReceived, SystemInv
<1>2. s.claim = r /\ s.approved = ApprovedGates(j) /\ s.envelope = None
  BY <1>0
<1>3. daemon' = [daemon EXCEPT ![w] = d] /\ disk' = [disk EXCEPT ![w] = s]
      /\ executions' = executions /\ crashes' = crashes
  BY <1>0 DEF ClaimReceived, Save
<1>4. d \in DaemonRow /\ d.at = "once" /\ d.state = s
  BY <1>2 DEF DaemonRow
<1>5. /\ NoPolicyRewrite'
      /\ \A q \in RunId : executions[q] > 0 => runs'[q].state # "UNUSED"
      /\ ClaimsKept(Worker \ {w})
  BY <1>1, NothingStoredFrame
<1>6. SavedSound(w, s)'
  <2>1. s.approved = ApprovedGates(runs[s.claim].job)'
    BY <1>1, <1>2 DEF ApprovedGates, GateIsApproved
  <2> QED BY <1>1, <1>2, <2>1 DEF SavedSound
<1>7. executions[r] <= crashes
  <2>1. executions[r] \in Nat /\ crashes \in Nat
    BY Counters
  <2>2. ~(executions[r] > 0)
    BY <1>1 DEF SystemInv, StartsCounted
  <2> QED BY <2>1, <2>2
<1>8. executions \in [RunId -> Nat] /\ crashes \in Nat /\ crashes <= crashes
      /\ \A q \in RunId : executions[q] <= 1 + crashes
  BY Counters
<1> HIDE DEF d
<1> QED BY <1>1, <1>2, <1>3, <1>4, <1>5, <1>6, <1>7, <1>8, LocalStep

\* The worker's normalisation: only a declared gate that is not approved is asked for.
LEMMA WorkerResultSound ==
  ASSUME NEW j \in Job, NEW approved \in SUBSET Gate, NEW result \in AdapterResult,
         NEW p, p = WorkerResult(j, approved, result)
  PROVE  /\ p.status \in RESULT_STATUSES /\ p.gate \in Gate \cup {None} /\ p.artifacts_ok = TRUE
         /\ GateAllowed(j, p) /\ (p.status = "WAIT_USER" => p.gate \notin approved)
<1>1. /\ result \in [status: RESULT_STATUSES, gate: Gate \cup {None}, artifacts_ok: BOOLEAN]
      /\ Task[j].human_gates \subseteq Gate
  BY SystemAssumption, ConstantsAssumption
<1>2. CASE ~result.artifacts_ok
  BY <1>2 DEF WorkerResult, GateAllowed
<1>3. CASE result.artifacts_ok
  <2> DEFINE plain == [result EXCEPT !.gate = None]
             refused == [result EXCEPT !.status = "BLOCKED", !.gate = None]
  <2>1. plain.status = result.status /\ plain.gate = None /\ plain.artifacts_ok = result.artifacts_ok
    BY <1>1
  <2>2. refused.status = "BLOCKED" /\ refused.gate = None /\ refused.artifacts_ok = result.artifacts_ok
    BY <1>1
  <2>3. WorkerResult(j, approved, result) =
          IF result.status # "WAIT_USER" THEN plain
          ELSE IF result.gate \in Task[j].human_gates \ approved THEN result ELSE refused
    BY <1>3 DEF WorkerResult
  <2> HIDE DEF plain, refused
  <2>4. result.artifacts_ok = TRUE /\ result.status \in RESULT_STATUSES
    BY <1>1, <1>3
  <2>5. CASE result.status # "WAIT_USER"
    BY <2>1, <2>3, <2>4, <2>5 DEF GateAllowed
  <2>6. CASE result.status = "WAIT_USER" /\ result.gate \in Task[j].human_gates \ approved
    BY <1>1, <2>3, <2>4, <2>6 DEF GateAllowed
  <2>7. CASE result.status = "WAIT_USER" /\ result.gate \notin Task[j].human_gates \ approved
    BY <2>2, <2>3, <2>4, <2>7 DEF GateAllowed
  <2> QED BY <2>5, <2>6, <2>7
<1> QED BY <1>2, <1>3

\* The worker labels its result with the engine the controller expects.
LEMMA EngineAgreed ==
  ASSUME NEW j \in Job
  PROVE  WorkerEngine(Task[j]) = TaskEngine(Task[j]) /\ WorkerEngine(Task[j]) \in Engine
<1>1. Task[j].execution_engine \in (Engine \ {"github_api"}) \cup {None} /\ None \notin Engine
  BY SystemAssumption
<1>2. {"github_api", "codex", "native"} \subseteq Engine
  BY DEF Engine
<1> QED BY <1>1, <1>2 DEF WorkerEngine, TaskEngine

\* The adapter thread starts, and this start is accounted for.
LEMMA ExecutePreserves ==
  ASSUME SystemInv, NEW w \in Worker, Execute(w)
  PROVE  SystemInv'
<1>0. PICK s \in StateRow : s = disk[w]
  BY DEF SystemInv
<1> DEFINE d == [daemon[w] EXCEPT !.at = "executing"]
<1>1. daemon[w].at = "once" /\ daemon[w].state = s /\ s.claim # None /\ s.envelope = None
  BY <1>0 DEF Execute, SystemInv, MemorySound
<1>2. s.claim \in RunId
  BY <1>1 DEF StateRow
<1>3. IInv' /\ NothingStored
  BY OtherKeeps DEF Execute, SystemInv
<1>4. d \in DaemonRow /\ d.at = "executing" /\ d.state = s
  <2>1. daemon[w] \in DaemonRow
    BY DEF SystemInv
  <2>2. d \in DaemonRow /\ d.at = "executing" /\ d.state = daemon[w].state
    BY ONLY <2>1, AtUpdate
  <2> QED BY <1>1, <2>2
<1>5. daemon' = [daemon EXCEPT ![w] = d] /\ disk' = [disk EXCEPT ![w] = s] /\ crashes' = crashes
  BY <1>0 DEF Execute, SystemInv
<1>6. executions' = [executions EXCEPT ![s.claim] = executions[s.claim] + 1]
  BY <1>1 DEF Execute
<1>7. /\ NoPolicyRewrite'
      /\ \A r \in RunId : executions[r] > 0 => runs'[r].state # "UNUSED"
      /\ ClaimsKept(Worker \ {w})
      /\ SavedSound(w, s)'
  BY <1>0, <1>3, NothingStoredFrame
<1>8. executions \in [RunId -> Nat] /\ crashes \in Nat /\ crashes <= crashes
      /\ \A q \in RunId : executions[q] <= 1 + crashes
  BY Counters
<1>9. executions[s.claim] <= crashes
  BY <1>0, <1>1 DEF SystemInv, StartsCounted, AtWork
<1>10. executions' \in [RunId -> Nat] /\ \A r \in RunId : executions'[r] <= 1 + crashes
  <2>1. executions[s.claim] + 1 \in Nat /\ executions[s.claim] + 1 <= 1 + crashes
    BY <1>2, <1>8, <1>9
  <2> QED BY <1>2, <1>6, <1>8, <2>1
<1>11. \A r \in RunId : executions'[r] > 0 => runs'[r].state # "UNUSED"
  <2>1. runs' = runs /\ runs[s.claim].state # "UNUSED"
    BY <1>0, <1>1 DEF Execute, vars, SystemInv, SavedSound
  <2> QED BY <1>2, <1>6, <1>7, <1>8, <2>1
<1>12. \A v \in Worker \ {w} : disk[v].claim # None => executions'[disk[v].claim] = executions[disk[v].claim]
  <2>1. \A v \in Worker \ {w} : disk[v].claim # None => disk[v].claim # s.claim /\ disk[v].claim \in RunId
    BY <1>0, <1>1, ClaimsDistinct DEF SystemInv, StateRow
  <2> QED BY <1>6, <1>8, <2>1
<1> HIDE DEF d
<1> QED BY <1>1, <1>3, <1>4, <1>5, <1>7, <1>8, <1>10, <1>11, <1>12, LocalStep

\* What every step of a daemon needs that starts no adapter and stores no result.
LEMMA SaveStep ==
  ASSUME SystemInv, NEW w \in Worker, NEW d \in DaemonRow, NEW s \in StateRow,
         IInv', NothingStored,
         daemon' = [daemon EXCEPT ![w] = d], disk' = [disk EXCEPT ![w] = s],
         executions' = executions, crashes' \in {crashes, crashes + 1},
         SavedSound(w, s)',
         d.at \in {"down", "idle", "once"}, d.at # "down" => d.state = s,
         s.claim # None /\ s.envelope = None => executions[s.claim] <= crashes'
  PROVE  SystemInv'
<1>1. /\ NoPolicyRewrite'
      /\ \A r \in RunId : executions[r] > 0 => runs'[r].state # "UNUSED"
      /\ ClaimsKept(Worker \ {w})
  BY NothingStoredFrame
<1>2. executions \in [RunId -> Nat] /\ crashes \in Nat
      /\ \A q \in RunId : executions[q] <= 1 + crashes
  BY Counters
<1>3. crashes' \in Nat /\ crashes <= crashes' /\ \A q \in RunId : executions[q] <= 1 + crashes'
  BY <1>2
<1> QED BY <1>1, <1>2, <1>3, LocalStep

\* The empty state owes nothing.
LEMMA NoStateSound ==
  ASSUME NEW w \in Worker
  PROVE  NoState \in StateRow /\ SavedSound(w, NoState)' /\ NoState.claim = None
BY DEF NoState, StateRow, SavedSound

LEMMA DiscardPreserves ==
  ASSUME SystemInv, NEW w \in Worker, DiscardAfterLeaseLost(w)
  PROVE  SystemInv'
<1>1. IInv' /\ NothingStored
  BY OtherKeeps DEF DiscardAfterLeaseLost, SystemInv
<1>2. PICK d \in DaemonRow : d = [at |-> "idle", state |-> NoState]
  BY NoStateSound DEF DaemonRow
<1>3. daemon' = [daemon EXCEPT ![w] = d] /\ disk' = [disk EXCEPT ![w] = NoState]
      /\ executions' = executions /\ crashes' = crashes
  BY <1>2 DEF DiscardAfterLeaseLost, Save
<1> QED BY <1>1, <1>2, <1>3, NoStateSound, SaveStep

\* A kill loses the memory, never the file.
LEMMA CrashPreserves ==
  ASSUME SystemInv, NEW w \in Worker, Crash(w)
  PROVE  SystemInv'
<1>0. PICK s \in StateRow : s = disk[w]
  BY DEF SystemInv
<1>1. IInv' /\ NothingStored
  BY OtherKeeps DEF Crash, SystemInv
<1>2. PICK d \in DaemonRow : d = [at |-> "down", state |-> NoState]
  BY NoStateSound DEF DaemonRow
<1>3. daemon' = [daemon EXCEPT ![w] = d] /\ disk' = [disk EXCEPT ![w] = s]
      /\ executions' = executions /\ crashes' = crashes + 1
  BY <1>0, <1>2 DEF Crash, SystemInv
<1>4. SavedSound(w, s)'
  BY <1>0, <1>1, NothingStoredFrame
<1>5. s.claim # None => executions[s.claim] <= crashes + 1
  <2>1. s.claim # None => s.claim \in RunId
    BY DEF StateRow
  <2> QED BY <2>1, Counters
<1>6. d.at = "down"
  BY <1>2
<1>7. crashes' \in {crashes, crashes + 1} /\ (s.claim # None /\ s.envelope = None => executions[s.claim] <= crashes')
  BY <1>3, <1>5
<1>8. d.at \in {"down", "idle", "once"} /\ (d.at # "down" => d.state = s)
  BY <1>6
<1> QED BY <1>1, <1>3, <1>4, <1>7, <1>8, SaveStep

\* The thread ends; what is saved is what ingest_result will take.
LEMMA AdapterReturnsPreserves ==
  ASSUME SystemInv, NEW w \in Worker, NEW result \in AdapterResult, AdapterReturns(w, result)
  PROVE  SystemInv'
<1>0. PICK s \in StateRow : s = disk[w]
  BY DEF SystemInv
<1>1. daemon[w].state = s /\ s.claim # None /\ s.envelope = None
  BY <1>0 DEF AdapterReturns, SystemInv, MemorySound, AtWork
<1>2. s.claim \in RunId /\ s.approved \in SUBSET Gate
  BY <1>1 DEF StateRow
<1>3. SavedSound(w, s) /\ runs[s.claim].state # "UNUSED"
  <2>1. SavedSound(w, s)
    BY <1>0 DEF SystemInv
  <2> QED BY <1>1, <2>1 DEF SavedSound
<1>4. PICK j \in Job : j = runs[s.claim].job
  BY <1>2, <1>3, RunTypes DEF SystemInv, IInv
<1>p. PICK p : p = WorkerResult(j, s.approved, result)
  OBVIOUS
<1>5. /\ p.status \in RESULT_STATUSES /\ p.gate \in Gate \cup {None} /\ p.artifacts_ok = TRUE
      /\ GateAllowed(j, p) /\ (p.status = "WAIT_USER" => p.gate \notin s.approved)
  BY <1>p, <1>2, WorkerResultSound
<1>6. PICK e \in ReportedPayload : e = [status |-> p.status, gate |-> p.gate,
                                        engine |-> WorkerEngine(Task[j]), legacy |-> FALSE,
                                        artifacts_ok |-> p.artifacts_ok]
  BY <1>5, EngineAgreed DEF ReportedPayload
<1>7. /\ e \in ResultPayload /\ e # None /\ ~e.legacy
      /\ EngineMatches(j, e) /\ GateAllowed(j, e)
      /\ e.status = "WAIT_USER" => e.gate \notin s.approved
  <2>1. e \in ResultPayload /\ e # None
    BY SystemAssumption, ConstantsAssumption
  <2> QED BY <1>5, <1>6, <2>1, EngineAgreed DEF EngineMatches, GateAllowed
<1>8. PICK t \in StateRow : t = [s EXCEPT !.envelope = e]
  BY <1>7 DEF StateRow
<1>9. t.claim = s.claim /\ t.approved = s.approved /\ t.envelope = e
  BY <1>8 DEF StateRow
<1>10. PICK d \in DaemonRow : d = [at |-> "once", state |-> t]
  BY DEF DaemonRow
<1>11. daemon' = [daemon EXCEPT ![w] = d] /\ disk' = [disk EXCEPT ![w] = t]
       /\ executions' = executions /\ crashes' = crashes
  BY <1>p, <1>1, <1>4, <1>6, <1>8, <1>10 DEF AdapterReturns, Save
<1>12. IInv' /\ NothingStored
  BY OtherKeeps DEF AdapterReturns, SystemInv
<1>13. SavedSound(w, t)
  BY <1>1, <1>3, <1>4, <1>7, <1>9 DEF SavedSound
<1>14. SavedSound(w, t)'
  BY <1>2, <1>9, <1>12, <1>13, SavedStep DEF NothingStored
<1> QED BY <1>7, <1>9, <1>10, <1>11, <1>12, <1>14, SaveStep

\* The controller refuses no envelope a daemon holds, and one it accepts is stored as it
\* was sent: the gates approved at the claim are still the approved ones.
LEMMA SentEnvelope ==
  ASSUME SystemInv, NEW w \in Worker, NEW s \in StateRow, s = disk[w], s.envelope # None
  PROVE  LET e == EnvelopeOf(s)
             r == s.claim
         IN  /\ r \in RunId /\ e \in Envelope /\ e.run = r /\ e.body = s.envelope
             /\ runs[r].job \in Job /\ IngestVerdict(e) # "refused"
             /\ IngestVerdict(e) = "accepted" =>
                  /\ runs[r].state = "RUNNING"
                  /\ Normalized(runs[r].job, s.envelope) = [body |-> s.envelope, policy |-> FALSE]
<1> DEFINE e == EnvelopeOf(s)
           r == s.claim
           b == s.envelope
<1>1. /\ r # None /\ b \in ReportedPayload /\ runs[r].state # "UNUSED"
      /\ EngineMatches(runs[r].job, b) /\ GateAllowed(runs[r].job, b)
      /\ b.status = "WAIT_USER" => b.gate \notin s.approved
      /\ runs[r].state = "RUNNING" => s.approved = ApprovedGates(runs[r].job)
  BY DEF SystemInv, SavedSound
<1>2. r \in RunId
  BY <1>1 DEF StateRow
<1>3. runs[r].job \in Job
  BY <1>1, <1>2, RunTypes DEF SystemInv, IInv
<1>4. b \in Payload
  BY <1>1, SystemAssumption
<1>5. e = [run |-> r, claim |-> r, body |-> b] /\ e.run = r /\ e.claim = r /\ e.body = b
  BY DEF EnvelopeOf
<1>6. e \in Envelope
  BY <1>2, <1>4, <1>5 DEF Envelope
<1>7. WellFormed(b)
  <2>1. b.artifacts_ok = TRUE /\ b.legacy = FALSE /\ b.engine \in Engine
    BY <1>1 DEF ReportedPayload
  <2>2. b.engine # None
    BY <2>1, SystemAssumption
  <2> QED BY <2>1, <2>2 DEF WellFormed
<1>8. IngestVerdict(e) # "refused" /\ (IngestVerdict(e) = "accepted" => runs[r].state = "RUNNING")
  BY <1>1, <1>5, <1>7 DEF IngestVerdict, OwnsLease
<1>9. runs[r].state = "RUNNING" => Normalized(runs[r].job, b) = [body |-> b, policy |-> FALSE]
  <2>1. b.status = "WAIT_USER" => b.gate \in Gate
    BY <1>1, <1>3, ConstantsAssumption DEF GateAllowed
  <2>2. runs[r].state = "RUNNING" => ~(b.status = "WAIT_USER" /\ GateIsApproved(runs[r].job, b.gate))
    BY <1>1, <2>1 DEF ApprovedGates
  <2> QED BY <2>2 DEF Normalized
<1> QED BY <1>2, <1>3, <1>5, <1>6, <1>8, <1>9

\* What the handler of a sent envelope does to the tables, accepted or not.
LEMMA IngestedEffect ==
  ASSUME SystemInv, NEW w \in Worker, NEW s \in StateRow, s = disk[w], s.envelope # None,
         Ingested(EnvelopeOf(s))
  PROVE  /\ IInv' /\ NoPolicyRewrite'
         /\ \A q \in RunId : executions[q] > 0 => runs'[q].state # "UNUSED"
         /\ ClaimsKept(Worker \ {w})
         /\ SavedSound(w, s)'
<1> DEFINE e == EnvelopeOf(s)
           r == s.claim
           b == s.envelope
<1>0. IInv /\ TypeOK /\ SavedSound(w, s) /\ r # None
  BY DEF SystemInv, SavedSound, IInv
<1>1. /\ r \in RunId /\ e \in Envelope /\ e.run = r /\ e.body = b /\ runs[r].job \in Job
      /\ IngestVerdict(e) = "accepted" =>
           runs[r].state = "RUNNING" /\ Normalized(runs[r].job, b) = [body |-> b, policy |-> FALSE]
  BY SentEnvelope
<1>2. CASE IngestVerdict(e) # "accepted"
  <2>1. IInv' /\ NothingStored
    BY <1>0, <1>2, OtherKeeps DEF Ingested
  <2> QED BY <2>1, NothingStoredFrame
<1>3. CASE IngestVerdict(e) = "accepted"
  <2>1. IngestResult(e)
    BY <1>3 DEF Ingested
  <2>2. IInv'
    BY <1>0, <1>1, <2>1, StepIInv DEF Next
  <2>3. runs[r].state = "RUNNING" /\ Normalized(runs[e.run].job, e.body) = [body |-> b, policy |-> FALSE]
    BY <1>1, <1>3
  <2>4. /\ runs'[r].result = [body |-> b, policy |-> FALSE]
        /\ runs'[r].state = b.status /\ b.status \in RESULT_STATUSES
        /\ runs'[r].job = runs[r].job /\ runs'[r].worker = runs[r].worker
        /\ \A q \in RunId \ {r} : runs'[q] = runs[q]
        /\ decisions' = decisions
    <3>1. PICK o \in Envelope : o = e
      BY <1>1
    <3>2. PICK st : st = Normalized(runs[o.run].job, o.body)
      OBVIOUS
    <3>3. /\ st.body.status \in RESULT_STATUSES /\ runs'[o.run].state = st.body.status /\ runs'[o.run].result = st
          /\ runs'[o.run].job = runs[o.run].job /\ runs'[o.run].worker = runs[o.run].worker
          /\ \A q \in RunId \ {o.run} : runs'[q] = runs[q]
          /\ decisions' = decisions
      <4>1. IngestResult(o)
        BY <2>1, <3>1
      <4> QED BY <1>0, <3>2, <4>1, IngestEffect
    <3>4. o.run = r /\ st = [body |-> b, policy |-> FALSE] /\ st.body = b
      BY <1>1, <2>3, <3>1, <3>2
    <3> HIDE DEF e, r, b
    <3> QED BY <3>3, <3>4
  <2>5. NoPolicyRewrite'
    BY <2>4 DEF NoPolicyRewrite, SystemInv
  <2>6. \A q \in RunId : executions[q] > 0 => runs'[q].state # "UNUSED"
    BY <2>4 DEF SystemInv, StartsCounted
  <2>7. ClaimsKept(Worker \ {w})
    <3> SUFFICES ASSUME NEW v \in Worker \ {w}, NEW q \in RunId, q = disk[v].claim PROVE RunKept(q)
      BY DEF ClaimsKept
    <3>1. q \in RunId \ {r}
      BY <1>0, ClaimsDistinct, ConstantsAssumption
    <3>2. runs'[q] = runs[q]
      BY <2>4, <3>1
    <3> QED BY <2>4, <3>2 DEF RunKept, ApprovedGates, GateIsApproved
  <2>8. SavedSound(w, s)'
    <3>1. /\ runs[r].worker = w /\ b \in ReportedPayload
          /\ EngineMatches(runs[r].job, b) /\ GateAllowed(runs[r].job, b)
          /\ b.status = "WAIT_USER" => b.gate \notin s.approved
      BY <1>0 DEF SavedSound
    <3>2. EngineMatches(runs[r].job, b)'
      BY <2>4, <3>1 DEF EngineMatches, TaskEngine
    <3>3. GateAllowed(runs[r].job, b)'
      BY <2>4, <3>1 DEF GateAllowed
    <3> QED BY <1>0, <2>4, <3>1, <3>2, <3>3 DEF SavedSound
  <2> QED BY <2>2, <2>5, <2>6, <2>7, <2>8
<1> QED BY <1>2, <1>3

\* The answer arrives: the daemon forgets the claim, since no answer is a refusal.
LEMMA SendAnsweredPreserves ==
  ASSUME SystemInv, NEW w \in Worker, SendAnswered(w)
  PROVE  SystemInv'
<1>0. PICK s \in StateRow : s = disk[w]
  BY DEF SystemInv
<1>1. daemon[w].state = s /\ s.envelope # None
  BY <1>0 DEF SendAnswered, CanSend, SystemInv, MemorySound
<1>2. /\ IInv' /\ NoPolicyRewrite'
      /\ \A q \in RunId : executions[q] > 0 => runs'[q].state # "UNUSED"
      /\ ClaimsKept(Worker \ {w})
  BY <1>0, <1>1, IngestedEffect DEF SendAnswered
<1>3. PICK d \in DaemonRow : d = [at |-> "idle", state |-> NoState]
  BY NoStateSound DEF DaemonRow
<1>4. daemon' = [daemon EXCEPT ![w] = d] /\ disk' = [disk EXCEPT ![w] = NoState]
      /\ executions' = executions /\ crashes' = crashes
  BY <1>0, <1>1, <1>3, SentEnvelope DEF SendAnswered, Save
<1>5. executions \in [RunId -> Nat] /\ crashes \in Nat /\ crashes <= crashes
      /\ \A q \in RunId : executions[q] <= 1 + crashes
  BY Counters
<1> QED BY <1>2, <1>3, <1>4, <1>5, NoStateSound, LocalStep

\* The handler ran and the reply is lost: the envelope stays, and stays what was stored.
LEMMA SendReplyLostPreserves ==
  ASSUME SystemInv, NEW w \in Worker, SendReplyLost(w)
  PROVE  SystemInv'
<1>0. PICK s \in StateRow : s = disk[w]
  BY DEF SystemInv
<1>1. daemon[w].state = s /\ s.envelope # None
  BY <1>0 DEF SendReplyLost, CanSend, SystemInv, MemorySound
<1>2. /\ IInv' /\ NoPolicyRewrite'
      /\ \A q \in RunId : executions[q] > 0 => runs'[q].state # "UNUSED"
      /\ ClaimsKept(Worker \ {w})
      /\ SavedSound(w, s)'
  BY <1>0, <1>1, IngestedEffect DEF SendReplyLost
<1> DEFINE d == [daemon[w] EXCEPT !.at = "idle"]
<1>3. d \in DaemonRow /\ d.at = "idle" /\ d.state = s
  <2>1. daemon[w] \in DaemonRow
    BY DEF SystemInv
  <2>2. d \in DaemonRow /\ d.at = "idle" /\ d.state = daemon[w].state
    BY ONLY <2>1, AtUpdate
  <2> QED BY <1>1, <2>2
<1>4. daemon' = [daemon EXCEPT ![w] = d] /\ disk' = [disk EXCEPT ![w] = s]
      /\ executions' = executions /\ crashes' = crashes
  BY <1>0 DEF SendReplyLost, SystemInv
<1>5. executions \in [RunId -> Nat] /\ crashes \in Nat /\ crashes <= crashes
      /\ \A q \in RunId : executions[q] <= 1 + crashes
  BY Counters
<1> HIDE DEF d
<1> QED BY <1>1, <1>2, <1>3, <1>4, <1>5, LocalStep

-----------------------------------------------------------------------------
LEMMA InitSystemInv == HInit => SystemInv
<1> SUFFICES ASSUME HInit PROVE SystemInv
  OBVIOUS
<1>1. IInv
  BY InitIInv DEF HInit
<1>2. NoState \in StateRow /\ NoState.claim = None /\ NoState.envelope = None
  BY DEF NoState, StateRow
<1>3. daemon \in [Worker -> DaemonRow] /\ disk \in [Worker -> StateRow]
      /\ executions \in [RunId -> Nat] /\ crashes \in Nat
  BY <1>2 DEF HInit, DaemonRow
<1>4. \A w \in Worker : SavedSound(w, disk[w]) /\ MemorySound(w)
  BY <1>2 DEF HInit, SavedSound, MemorySound, AtWork
<1>5. StartsCounted
  BY <1>2 DEF HInit, StartsCounted
<1>6. NoPolicyRewrite
  BY DEF HInit, Init, NoRunRow, NoPolicyRewrite
<1> QED BY <1>1, <1>3, <1>4, <1>5, <1>6 DEF SystemInv

LEMMA StepSystemInv == SystemInv /\ [HNext]_hvars => SystemInv'
<1> SUFFICES ASSUME SystemInv, [HNext]_hvars PROVE SystemInv'
  OBVIOUS
<1>0. IInv
  BY DEF SystemInv
<1>1. CASE UNCHANGED hvars
  <2>1. UNCHANGED vars /\ UNCHANGED dvars
    BY <1>1 DEF hvars, vars, dvars
  <2>2. IInv' /\ NothingStored
    BY <1>0, <2>1, OtherKeeps
  <2> QED BY <2>1, <2>2, QuietStep
<1>2. CASE Operator
  <2>1. IInv' /\ NothingStored
    BY <1>0, <1>2, EnqueueKeeps, ResolveKeeps DEF Operator
  <2> QED BY <1>2, <2>1, QuietStep DEF Operator
<1>3. CASE Sweep
  <2>1. IInv' /\ NothingStored
    BY <1>0, <1>3, SweepKeeps DEF Sweep
  <2> QED BY <1>3, <2>1, QuietStep DEF Sweep
<1>4. CASE Clock
  <2>1. IInv' /\ NothingStored
    BY <1>0, <1>4, OtherKeeps DEF Clock
  <2> QED BY <1>4, <2>1, QuietStep DEF Clock
<1>5. ASSUME NEW w \in Worker, WorkerStep(w) PROVE SystemInv'
  BY <1>5, StartPreserves, MovePreserves, ClaimReceivedPreserves, ExecutePreserves,
     AdapterReturnsPreserves, DiscardPreserves, SendAnsweredPreserves, SendReplyLostPreserves,
     CrashPreserves DEF WorkerStep
<1> QED BY <1>1, <1>2, <1>3, <1>4, <1>5 DEF HNext

LEMMA AlwaysSystemInv == HSpec => []SystemInv
BY InitSystemInv, StepSystemInv, PTL DEF HSpec

\* Whatever replies are lost and daemons are killed: memory and state file agree, the
\* envelope on disk is one the controller takes, ingest_result never has to rewrite a
\* repeated gate request, and the stored outcome is the one that was sent.
THEOREM EnvelopesAreSound == HSpec => []EnvelopesSound
<1>1. SystemInv => EnvelopesSound
  <2> SUFFICES ASSUME SystemInv PROVE EnvelopesSound
    OBVIOUS
  <2>1. SystemTypeOK
    <3>1. \A w \in Worker : daemon[w].at \in {"down", "idle", "once", "executing", "lease lost"}
      BY DEF SystemInv, DaemonRow
    <3> QED BY <3>1 DEF SystemInv, IInv, SystemTypeOK, SavedSound, MemorySound
  <2>2. NoPoisonEnvelope
    <3>1. ASSUME NEW w \in Worker, disk[w].envelope # None
          PROVE  IngestVerdict(EnvelopeOf(disk[w])) # "refused"
      <4>1. disk[w] \in StateRow
        BY DEF SystemInv
      <4> QED BY <3>1, <4>1, SentEnvelope
    <3> QED BY <3>1 DEF NoPoisonEnvelope, SystemInv, NoPolicyRewrite
  <2>3. StoredIsWhatWasSent
    <3> SUFFICES ASSUME NEW w \in Worker, disk[w].claim # None,
                        runs[disk[w].claim].state \in RESULT_STATUSES
                 PROVE  disk[w].envelope # None /\ runs[disk[w].claim].result.body = disk[w].envelope
      BY DEF StoredIsWhatWasSent
    <3>1. /\ disk[w].envelope # None
          /\ runs[disk[w].claim].result = [body |-> disk[w].envelope, policy |-> FALSE]
      BY Zenon DEF SystemInv, SavedSound
    <3> QED BY <3>1
  <2> QED BY <2>1, <2>2, <2>3 DEF EnvelopesSound
<1> QED BY <1>1, AlwaysSystemInv, PTL

\* An adapter is started a second time for one run only after a kill, a manual_reconcile
\* task never for two runs, and two daemons at work on one job never both have a result
\* that counts.
THEOREM ExecutionsAreSound == HSpec => []ExecutionsSound
<1>1. SystemInv => ExecutionsSound
  <2> SUFFICES ASSUME SystemInv PROVE ExecutionsSound
    OBVIOUS
  <2>1. IInv
    BY DEF SystemInv
  <2>2. ASSUME NEW j \in Job, ~Idempotent(j), NEW r \in RunsOf(j), NEW q \in RunsOf(j)
        PROVE  r = q
    BY <2>1, <2>2, OneRunOfManual DEF ManualRunsOnce
  <2>3. RestartedOnlyAfterCrash
    BY <2>2, Counters DEF RestartedOnlyAfterCrash
  <2>4. OneExecutionCounts
    <3> SUFFICES ASSUME NEW v \in Worker, NEW w \in Worker, v # w,
                        daemon[v].at = "executing", daemon[w].at = "executing",
                        runs[daemon[v].state.claim].job = runs[daemon[w].state.claim].job,
                        runs[daemon[v].state.claim].state = "RUNNING",
                        runs[daemon[w].state.claim].state = "RUNNING"
                 PROVE  FALSE
      BY DEF OneExecutionCounts
    <3>1. /\ disk[v].claim # None /\ daemon[v].state = disk[v]
          /\ disk[w].claim # None /\ daemon[w].state = disk[w]
      BY DEF SystemInv, MemorySound, AtWork
    <3>2. disk[v].claim \in RunId /\ disk[w].claim \in RunId
      BY <3>1 DEF SystemInv, StateRow
    <3>3. disk[v].claim = disk[w].claim
      BY <2>1, <3>1, <3>2 DEF IInv, LeaseOwnership
    <3> QED BY <3>1, <3>3, ClaimsDistinct
  <2> QED BY <2>3, <2>4 DEF ExecutionsSound
<1> QED BY <1>1, AlwaysSystemInv, PTL

\* With daemons that heartbeat in pairs, resend and restart, the tables keep what they
\* promise to any client: one holder per job, numbered attempts, a manual_reconcile job
\* handed out once, dependencies first.
THEOREM TablesStaySound ==
  HSpec => [](LeaseOwnership /\ AttemptsSound /\ DecisionsSound /\ RunsAfterDependency)
<1>1. SystemInv => LeaseOwnership /\ AttemptsSound /\ DecisionsSound /\ RunsAfterDependency
  BY OneRunOfManual DEF SystemInv, IInv, AttemptsSound
<1> QED BY <1>1, AlwaysSystemInv, PTL

=============================================================================
