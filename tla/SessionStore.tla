---------------------------- MODULE SessionStore ----------------------------
(***************************************************************************)
(* SessionStore (messaging/session.py): trees, the node-to-tree map and    *)
(* the message log in memory, saved half a second after the last change by *)
(* a timer thread.  The snapshot is taken under the lock and written to    *)
(* the file without it, so two writers may overlap and a timer that fired  *)
(* cannot be cancelled any more.  Every operation holds the lock: one step.*)
(***************************************************************************)
EXTENDS Naturals, Sequences, SequencesExt

CONSTANTS Roots, TreeNodes, MessageIds, LogCap, MaxStoreOps, MaxStoreFaults

VARIABLES sMem, sDirty, sTimer, sWriters, sDisk, sGhost

sVars == <<sMem, sDirty, sTimer, sWriters, sDisk, sGhost>>

Empty == [trees |-> <<>>, nodes |-> <<>>, log |-> <<>>]

\* The timers that will fire, those that wait for the lock, and what
\* _save_timer refers to.
NoTimers == [armed |-> 0, fired |-> 0, ref |-> "none"]

SInit ==
    /\ sMem = Empty /\ sDisk = Empty
    /\ sDirty = FALSE /\ sTimer = NoTimers
    /\ sWriters = {}
    /\ sGhost = [ops |-> 0, faults |-> 0, overlapped |-> FALSE]

-----------------------------------------------------------------------------
\* Saving.

Cancelled(t) == IF t.ref = "armed" THEN [t EXCEPT !.armed = @ - 1, !.ref = "none"] ELSE [t EXCEPT !.ref = "none"]

\* Every change ends with _schedule_save.
ScheduleSave ==
    /\ sDirty' = TRUE
    /\ sTimer' = [Cancelled(sTimer) EXCEPT !.armed = @ + 1, !.ref = "armed"]

Change(mem) ==
    /\ sGhost.ops < MaxStoreOps /\ sGhost' = [sGhost EXCEPT !.ops = @ + 1]
    /\ sMem' = mem
    /\ ScheduleSave
    /\ UNCHANGED <<sWriters, sDisk>>

\* A writer (one of two at most) has its snapshot and will rename it over the
\* file.
Writing(snapshot) ==
    \E id \in {1, 2} \ {w.id : w \in sWriters} :
        sWriters' = sWriters \cup {[id |-> id, snapshot |-> snapshot]}

Overlapping == [sGhost EXCEPT !.overlapped = @ \/ sWriters # {}]

TimerFires(own) ==
    /\ sTimer.armed > 0
    /\ IF own THEN sTimer.ref = "armed" ELSE sTimer.ref = "armed" => sTimer.armed > 1
    /\ sTimer' = [armed |-> sTimer.armed - 1, fired |-> sTimer.fired + 1,
                  ref |-> IF own THEN "fired" ELSE sTimer.ref]
    /\ UNCHANGED <<sMem, sDirty, sWriters, sDisk, sGhost>>

\* The flag is cleared with the snapshot, before that is written.
SaveFromTimer ==
    /\ sTimer.fired > 0
    /\ sTimer' = [sTimer EXCEPT !.fired = @ - 1, !.ref = "none"]
    /\ IF sDirty
       THEN Writing(sMem) /\ sDirty' = FALSE /\ sGhost' = Overlapping
       ELSE UNCHANGED <<sWriters, sDirty, sGhost>>
    /\ UNCHANGED <<sMem, sDisk>>

FlushPendingSave ==
    /\ sGhost.ops < MaxStoreOps
    /\ sTimer' = Cancelled(sTimer) /\ sDirty' = FALSE
    /\ Writing(sMem) /\ sGhost' = [Overlapping EXCEPT !.ops = @ + 1]
    /\ UNCHANGED <<sMem, sDisk>>

MutantWriteSucceeds(w) ==
    /\ sDisk' = w.snapshot /\ sWriters' = sWriters \ {w}
    /\ sDirty' = FALSE
    /\ UNCHANGED <<sMem, sTimer, sGhost>>

WriteSucceeds(w) ==
    /\ sDisk' = w.snapshot /\ sWriters' = sWriters \ {w}
    /\ UNCHANGED <<sMem, sDirty, sTimer, sGhost>>

\* The temporary file is removed; only the flag remembers the change.
WriteFails(w) ==
    /\ sGhost.faults < MaxStoreFaults /\ sGhost' = [sGhost EXCEPT !.faults = @ + 1]
    /\ sWriters' = sWriters \ {w} /\ sDirty' = TRUE
    /\ UNCHANGED <<sMem, sTimer, sDisk>>
-----------------------------------------------------------------------------
\* The operations.

With(f, k, v) == [x \in DOMAIN f \cup {k} |-> IF x = k THEN v ELSE f[x]]
Mapped(f, ks, v) == [x \in DOMAIN f \cup ks |-> IF x \in ks THEN v ELSE f[x]]
Without1(f, ks) == [x \in DOMAIN f \ ks |-> f[x]]

SaveTree(root, nodes) ==
    Change([sMem EXCEPT !.trees = With(@, root, nodes), !.nodes = Mapped(@, nodes, root)])

RegisterNode(node, root) == Change([sMem EXCEPT !.nodes = With(@, node, root)])

RemoveNodeMappings(nodes) == Change([sMem EXCEPT !.nodes = Without1(@, nodes)])

RemoveTree(root) ==
    /\ root \in DOMAIN sMem.trees
    /\ Change([sMem EXCEPT !.trees = Without1(@, {root}), !.nodes = Without1(@, sMem.trees[root])])

SyncFromTreeData(trees, nodes) == Change([sMem EXCEPT !.trees = trees, !.nodes = nodes])

\* A message is logged once; the oldest ones go when the log is full.
RecordMessageId(id) ==
    LET log == Append(sMem.log, id)
    IN  /\ id \notin ToSet(sMem.log)
        /\ Change([sMem EXCEPT !.log = IF Len(log) > LogCap THEN SubSeq(log, Len(log) - LogCap + 1, Len(log)) ELSE log])

\* clear_all saves at once, whatever else is being written.
ClearAll ==
    /\ sGhost.ops < MaxStoreOps
    /\ sMem' = Empty /\ sDirty' = FALSE /\ sTimer' = Cancelled(sTimer)
    /\ Writing(Empty) /\ sGhost' = [Overlapping EXCEPT !.ops = @ + 1]
    /\ UNCHANGED sDisk

\* The process dies and the next one loads the file; a write that was under
\* way leaves a temporary file nobody reads.
Restart ==
    /\ sGhost.faults < MaxStoreFaults
    /\ sGhost' = [sGhost EXCEPT !.faults = @ + 1, !.overlapped = FALSE]
    /\ sMem' = sDisk /\ sDirty' = FALSE /\ sTimer' = NoTimers /\ sWriters' = {}
    /\ UNCHANGED sDisk

SNext ==
    \/ \E root \in Roots, nodes \in SUBSET TreeNodes : root \in nodes /\ SaveTree(root, nodes)
    \/ \E node \in TreeNodes, root \in Roots : RegisterNode(node, root)
    \/ \E nodes \in SUBSET TreeNodes \ {{}} : RemoveNodeMappings(nodes)
    \/ \E root \in Roots : RemoveTree(root)
    \/ SyncFromTreeData(<<>>, <<>>)
    \/ \E id \in MessageIds : RecordMessageId(id)
    \/ ClearAll \/ FlushPendingSave \/ SaveFromTimer \/ Restart
    \/ \E own \in BOOLEAN : TimerFires(own)
    \/ \E w \in sWriters : WriteSucceeds(w) \/ WriteFails(w)

SSpec == SInit /\ [][SNext]_sVars

\* As long as no two writers have overlapped since the last restart, what the
\* file lacks is not forgotten: the flag is up, or a writer carries exactly the
\* memory; and while the flag is up a timer will look at it, unless a write
\* failed.
UnsavedIsRemembered ==
    /\ sGhost.overlapped \/ sDirty \/ sDisk = sMem \/ \E w \in sWriters : w.snapshot = sMem
    /\ sDirty /\ sGhost.faults = 0 => sTimer.armed + sTimer.fired > 0

-----------------------------------------------------------------------------
(***************************************************************************)
(* What makes it inductive: a lone writer carries what is in memory, and   *)
(* _save_timer refers to a timer that is there.                            *)
(***************************************************************************)
TimersCounted ==
    /\ sTimer \in [armed: Nat, fired: Nat, ref: {"none", "armed", "fired"}]
    /\ sTimer.ref = "armed" => sTimer.armed > 0
    /\ sDirty \in BOOLEAN /\ sGhost \in [ops: Nat, faults: Nat, overlapped: BOOLEAN]

LoneWriterIsCurrent ==
    ~sGhost.overlapped =>
        /\ \A v, w \in sWriters : v = w
        /\ ~sDirty => \A w \in sWriters : w.snapshot = sMem
        /\ ~sDirty /\ sWriters = {} => sDisk = sMem

StoreInv == TimersCounted /\ LoneWriterIsCurrent /\ UnsavedIsRemembered
=============================================================================
