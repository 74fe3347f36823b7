---------------------------- MODULE NativeStream ----------------------------
(***************************************************************************)
(* A provider that speaks Anthropic's events itself                        *)
(* (providers/anthropic_messages.py): its blocks may overlap, may lack a   *)
(* start, and may be thinking that is switched off; the block policy       *)
(* renumbers, closes and reopens them, and a tracker of what was emitted   *)
(* closes the message when the stream breaks.                              *)
(***************************************************************************)
EXTENDS StreamClient

CONSTANTS Upstream,    \* block indexes of the provider
          BlockKinds,  \* what they may be: Upstream -> kind
          MaxDeltas

ASSUME UpstreamAssumption == BlockKinds \subseteq [Upstream -> {"thinking", "text", "tool_use"}]

VARIABLES nUp, nPolicy, nTracker, nClient

nVars == <<nUp, nPolicy, nTracker, nClient>>

NInit ==
    /\ nUp \in [pc : {"new"}, kind : BlockKinds, thinking : BOOLEAN, router : BOOLEAN,
                state : {[u \in Upstream |-> "new"]}, deltas : {0}]
    /\ nPolicy = [next |-> 0, down |-> [u \in Upstream |-> -1], open |-> {}, dropped |-> {},
                  suppressed |-> {}, stopped |-> FALSE]
    /\ nTracker = [stack |-> <<>>, max |-> -1]
    /\ nClient = NewClient

-----------------------------------------------------------------------------
\* EmittedNativeSseTracker

Without(stack, i) ==
    IF \E k \in DOMAIN stack : stack[k] = i
    THEN RemoveAt(stack, CHOOSE k \in DOMAIN stack : stack[k] = i) ELSE stack

Observe(t, ev) ==
    CASE ev.type = "start" -> [stack |-> Append(t.stack, ev.index), max |-> IF ev.index > t.max THEN ev.index ELSE t.max]
      [] ev.type = "stop" -> [stack |-> Without(t.stack, ev.index), max |-> t.max]
      [] OTHER -> t

\* iter_close_unclosed_blocks
CloseUnclosed(stack) == [n \in DOMAIN stack |-> BlockStop(Reverse(stack)[n])]

-----------------------------------------------------------------------------
\* transform_native_sse_block_event: the policy p and, as they read every event
\* that is let through, the tracker t and the client c.

Send(w, ev) == [p |-> w.p, t |-> Observe(w.t, ev), c |-> Accept(w.c, ev)]

Hidden(u) == ~nUp.thinking /\ nUp.kind[u] = "thinking"

Allocated(p, u) == [p EXCEPT !.next = @ + 1, !.down[u] = p.next, !.open = @ \cup {u}]

OpenSegment(w, u) == Send([w EXCEPT !.p = Allocated(w.p, u)], BlockStart(w.p.next, nUp.kind[u]))

\* The stops of the other open blocks.  (Neither reader can tell their order,
\* which is that of a dict in the code.)
StopSegment(w, others, i) == IF \E v \in others : w.p.down[v] = i THEN Send(w, BlockStop(i)) ELSE w

StopSegments(w, others) ==
    LET closed[n \in 0..w.p.next] == IF n = 0 THEN w ELSE StopSegment(closed[n - 1], others, n - 1)
    IN  closed[w.p.next]

\* They are closed, and their own stops will be ignored.
CloseOthers(w, u) ==
    LET others == w.p.open \ {u}
    IN  [StopSegments(w, others) EXCEPT !.p.open = @ \ others, !.p.suppressed = @ \cup others]

OnStart(w, u) ==
    IF Hidden(u) THEN [w EXCEPT !.p.dropped = @ \cup {u}] ELSE OpenSegment(CloseOthers(w, u), u)

DeltaOf(w, u) == Send(w, BlockDelta(w.p.down[u], nUp.kind[u], <<>>))

MutantOnDelta(w, u) == IF Hidden(u) THEN w ELSE DeltaOf(w, u)

\* A delta of a block that was closed, or never started, opens a new one.
OnDelta(w, u) ==
    CASE u \in w.p.dropped \/ Hidden(u) -> w
      [] u \in w.p.open /\ u \notin w.p.dropped /\ ~Hidden(u) -> DeltaOf(w, u)
      [] OTHER -> DeltaOf(OpenSegment([w EXCEPT !.p.suppressed = @ \ {u}], u), u)

OnStop(w, u) ==
    CASE u \in w.p.dropped -> w
      [] u \notin w.p.dropped /\ u \in w.p.suppressed -> [w EXCEPT !.p.suppressed = @ \ {u}]
      [] u \notin w.p.dropped \cup w.p.suppressed /\ u \in w.p.open ->
           Send([w EXCEPT !.p.open = @ \ {u}], BlockStop(w.p.down[u]))
      [] OTHER -> w

\* OpenRouter drops what comes after message_stop.
OnMessage(w, type) ==
    IF nUp.router /\ w.p.stopped THEN w
    ELSE Send([w EXCEPT !.p.stopped = @ \/ type = "message_stop"], MessageEvent(type))

-----------------------------------------------------------------------------
\* stream_response

Sending == [p |-> nPolicy, t |-> nTracker, c |-> nClient]

Forward(w) == nPolicy' = w.p /\ nTracker' = w.t /\ nClient' = w.c

UpMessageStart ==
    /\ nUp.pc = "new" /\ nUp' = [nUp EXCEPT !.pc = "open"]
    /\ Forward(OnMessage(Sending, "message_start"))

UpStart(u) ==
    /\ nUp.pc = "open" /\ nUp.state[u] = "new"
    /\ nUp' = [nUp EXCEPT !.state[u] = "started"]
    /\ Forward(OnStart(Sending, u))

\* Deltas come within a block, or without a start if it is not thinking: the
\* policy passes a thinking delta without a start on as it is, and what a
\* client makes of that is left to the providers, which start their thinking.
\* A connection that ends quietly before message_stop is not one of theirs either.
UpDelta(u) ==
    /\ nUp.pc = "open" /\ nUp.deltas < MaxDeltas
    /\ nUp.state[u] \in {"started", "bare"} \/ (nUp.state[u] = "new" /\ nUp.kind[u] # "thinking")
    /\ nUp' = [nUp EXCEPT !.deltas = @ + 1, !.state[u] = IF @ = "new" THEN "bare" ELSE @]
    /\ Forward(OnDelta(Sending, u))

UpStop(u) ==
    /\ nUp.pc = "open" /\ nUp.state[u] \in {"started", "bare"}
    /\ nUp' = [nUp EXCEPT !.state[u] = "stopped"]
    /\ Forward(OnStop(Sending, u))

UpMessageStop ==
    /\ nUp.pc = "open"
    /\ \A u \in Upstream : nUp.state[u] \in {"new", "stopped"}
    /\ \E u \in Upstream : nUp.state[u] = "stopped"
    /\ nUp' = [nUp EXCEPT !.pc = "stopped"]
    /\ Forward(OnMessage(Sending, "message_stop"))

\* OpenRouter's [DONE] after the message.
UpNoise ==
    /\ nUp.pc = "stopped" /\ nUp.router
    /\ nUp' = [nUp EXCEPT !.pc = "ended"]
    /\ Forward(OnMessage(Sending, "noise"))

\* iter_midstream_error_tail
MidstreamError == ReadAll(ReadAll(nClient, CloseUnclosed(nTracker.stack)), ErrorTail(nTracker.max + 1))

\* A message of its own if nothing was sent yet, else the end of this one.
ToldError ==
    IF nUp.pc = "new" THEN ReadAll(Accept(nClient, MessageEvent("message_start")), ErrorTail(0)) ELSE MidstreamError

\* The request is refused or its stream fails before the message has stopped.
UpFails ==
    /\ nUp.pc \in {"new", "open"}
    /\ nUp' = [nUp EXCEPT !.pc = "failed"]
    /\ nClient' = ToldError
    /\ UNCHANGED <<nPolicy, nTracker>>

\* It fails after: the error is appended to a message that is over.
UpFailsLate ==
    /\ nUp.pc \in {"stopped", "ended"}
    /\ nUp' = [nUp EXCEPT !.pc = "late"]
    /\ nClient' = MidstreamError
    /\ UNCHANGED <<nPolicy, nTracker>>

NNext ==
    \/ UpMessageStart \/ UpMessageStop \/ UpNoise \/ UpFails \/ UpFailsLate
    \/ \E u \in Upstream : UpStart(u) \/ UpDelta(u) \/ UpStop(u)

NSpec == NInit /\ [][NNext]_nVars

\* However the provider's blocks overlap, and wherever the stream breaks
\* before its message_stop, the client reads a well-formed message: fresh
\* indexes, deltas inside blocks of their kind, every block closed at the end.
\* (A message of hidden thinking alone has no block; an error after
\* message_stop is the case the code does not cover.)
NativeContract ==
    /\ nUp.pc # "late" => nClient.ok
    /\ nUp.pc = "failed" => Complete(nClient)
    /\ nUp.pc \in {"stopped", "ended"} => nClient.open = {} /\ nClient.stops = 1
=============================================================================
