---------------------------- MODULE OpenAIStream ----------------------------
(***************************************************************************)
(* One streamed answer of an OpenAI-compatible provider turned into the    *)
(* events of an Anthropic message (providers/openai_compat.py and          *)
(* core/anthropic/sse.py).  A chunk with reasoning, text and tool calls is *)
(* handled as that many pieces in a row.  The name of a tool comes whole   *)
(* ("full") or cut ("part", then "rest"); its arguments come in fragments  *)
(* 1..n that are JSON only together, or never.                             *)
(***************************************************************************)
EXTENDS StreamClient, FiniteSets

CONSTANTS Calls,      \* the upstream indexes of the tool calls, 0..n
          CallPlans,  \* what the calls may be: Calls -> [tool, fragments, json]
          MaxPieces   \* reasoning and text pieces of one stream

NCalls == Cardinality(Calls)

ASSUME CallsAssumption ==
    /\ NCalls \in Nat /\ Calls = 0..(NCalls - 1)
    /\ CallPlans \subseteq [Calls -> [tool: {"plain", "Task", "aliased"}, fragments: Nat, json: BOOLEAN]]

VARIABLES oMode, oSse, oCalls, oSent, oClient

oVars == <<oMode, oSse, oCalls, oSent, oClient>>

OInit ==
    /\ oMode \in [pc : {"stream"}, thinking : BOOLEAN, plan : CallPlans]
    /\ oSse = [next |-> 0, thinking |-> -1, text |-> -1, thinkingOpen |-> FALSE, textOpen |-> FALSE,
               hasText |-> FALSE, hasReasoning |-> FALSE, textCall |-> FALSE]
    /\ oCalls = [c \in Calls |-> [name |-> "none", block |-> -1, pre |-> <<>>, buffer |-> <<>>, emitted |-> FALSE]]
    /\ oSent = [pieces |-> 0, fragments |-> [c \in Calls |-> 0], startedAs |-> [c \in Calls |-> "none"]]
    /\ oClient = Accept(NewClient, MessageEvent("message_start"))

-----------------------------------------------------------------------------
\* SSEBuilder: a step takes the builder and what the client has read to the next.

Work == [sse |-> oSse, calls |-> oCalls, client |-> oClient]

Emit(w, ev) == [w EXCEPT !.client = Accept(@, ev)]

Publish(w) == oSse' = w.sse /\ oCalls' = w.calls /\ oClient' = w.client

StopThinking(w) ==
    IF w.sse.thinkingOpen
    THEN Emit([w EXCEPT !.sse.thinkingOpen = FALSE], BlockStop(w.sse.thinking)) ELSE w

StopText(w) ==
    IF w.sse.textOpen THEN Emit([w EXCEPT !.sse.textOpen = FALSE], BlockStop(w.sse.text)) ELSE w

StartThinking(w) ==
    Emit([w EXCEPT !.sse.thinking = w.sse.next, !.sse.thinkingOpen = TRUE, !.sse.next = @ + 1],
         BlockStart(w.sse.next, "thinking"))

StartText(w) ==
    Emit([w EXCEPT !.sse.text = w.sse.next, !.sse.textOpen = TRUE, !.sse.next = @ + 1],
         BlockStart(w.sse.next, "text"))

EnsureThinking(w) == LET v == StopText(w) IN IF v.sse.thinkingOpen THEN v ELSE StartThinking(v)
EnsureText(w) == LET v == StopThinking(w) IN IF v.sse.textOpen THEN v ELSE StartText(v)
CloseContent(w) == StopText(StopThinking(w))

ThinkingDelta(w, blank) ==
    LET v == EnsureThinking(w)
    IN  Emit([v EXCEPT !.sse.hasReasoning = @ \/ ~blank], BlockDelta(v.sse.thinking, "thinking", <<>>))

TextDelta(w, blank) ==
    LET v == EnsureText(w)
    IN  Emit([v EXCEPT !.sse.hasText = @ \/ ~blank], BlockDelta(v.sse.text, "text", <<>>))

\* A call found in the text is a block of its own (_iter_heuristic_tool_use_sse).
TextCall(w) ==
    LET v == CloseContent(w)
        i == v.sse.next
        s == Emit([v EXCEPT !.sse.next = @ + 1], BlockStart(i, "tool_use"))
    IN  Emit(Emit(s, BlockDelta(i, "tool_use", <<>>)), BlockStop(i))

Started(w, c) == w.calls[c].block >= 0

MutantCloseAll(w) == CloseContent(w)

StopTool(w, c) == IF Started(w, c) THEN Emit(w, BlockStop(w.calls[c].block)) ELSE w

\* The code closes and flushes the calls in the order of their first deltas; every
\* call has a block of its own, so the client ends the same in any order.
CloseAll(w) ==
    LET closed[n \in 0..NCalls] ==
          IF n = 0 THEN CloseContent(w) ELSE StopTool(closed[n - 1], n - 1)
    IN  closed[NCalls]

-----------------------------------------------------------------------------
\* Tool calls.

\* register_tool_name
Merged(known, name) ==
    CASE name = "none" -> known
      [] known = "none" /\ name # "none" -> name
      [] known = "part" /\ name \in {"rest", "full"} -> "full"
      [] OTHER -> known

\* A name that is still cut is the name of no tool that is treated specially.
ToolOf(w, c) == IF w.calls[c].name = "full" THEN oMode.plan[c].tool ELSE "plain"
IsJson(c, buffer) == oMode.plan[c].json /\ buffer = [i \in 1..oMode.plan[c].fragments |-> i]

RestoredJson == <<-1>>
NormalizedJson == <<-2>>
EmptyObject == <<-3>>

ToolInput(w, c, data) == Emit(w, BlockDelta(w.calls[c].block, "tool_use", data))

\* _emit_tool_arg_delta: Task and aliased arguments wait until they are JSON.
EmitArgument(w, c, fragments) ==
    LET buffered == w.calls[c].buffer \o fragments
        kept == [w EXCEPT !.calls[c].buffer = buffered]
        taken == [w EXCEPT !.calls[c].buffer = <<>>]
    IN  CASE fragments = <<>> -> w
          [] fragments # <<>> /\ ToolOf(w, c) = "Task" ->
               IF w.calls[c].emitted THEN w
               ELSE IF IsJson(c, buffered)
                    THEN ToolInput([taken EXCEPT !.calls[c].emitted = TRUE], c, NormalizedJson)
                    ELSE kept
          [] fragments # <<>> /\ ToolOf(w, c) = "aliased" ->
               IF IsJson(c, buffered) THEN ToolInput(taken, c, RestoredJson) ELSE kept
          [] OTHER -> ToolInput(w, c, fragments)

\* start_tool_block, which takes over what came before it.
StartToolBlock(w, c) ==
    Emit([w EXCEPT !.calls[c].block = w.sse.next, !.sse.next = @ + 1, !.calls[c].pre = <<>>],
         BlockStart(w.sse.next, "tool_use"))

MutantStartTool(w, c) == StartToolBlock(w, c)

\* The block starts with the first name; what came before it follows at once.
StartTool(w, c) == EmitArgument(StartToolBlock(w, c), c, w.calls[c].pre)

RegisterToolName(w, c, name) == [w EXCEPT !.calls[c].name = Merged(@, name)]
KeepBack(w, c, fragments) == [w EXCEPT !.calls[c].pre = @ \o fragments]

ProcessToolCall(w, c, name, fragments) ==
    LET named == RegisterToolName(w, c, name)
        ready == IF ~Started(named, c) /\ named.calls[c].name # "none" THEN StartTool(named, c) ELSE named
    IN  IF Started(ready, c) THEN EmitArgument(ready, c, fragments) ELSE KeepBack(ready, c, fragments)

FlushCall(w, c) ==
    IF w.calls[c].buffer = <<>> THEN w
    ELSE ToolInput([w EXCEPT !.calls[c].buffer = <<>>, !.calls[c].emitted = TRUE], c,
                   IF ToolOf(w, c) = "Task" THEN EmptyObject ELSE w.calls[c].buffer)

FlushCalls(w) ==
    LET flushed[n \in 0..NCalls] == IF n = 0 THEN w ELSE FlushCall(flushed[n - 1], n - 1)
    IN  flushed[NCalls]

-----------------------------------------------------------------------------
\* _stream_response_impl

OEnd(pc) == oMode' = [oMode EXCEPT !.pc = pc]

\* message_delta and message_stop.
Finish(w) == Emit(Emit(w, MessageEvent("message_delta")), MessageEvent("message_stop"))

\* emit_error
ErrorText(w) ==
    LET i == w.sse.next
        s == Emit([w EXCEPT !.sse.next = @ + 1], BlockStart(i, "text"))
    IN  Emit(Emit(s, BlockDelta(i, "text", <<>>)), BlockStop(i))

\* reasoning_content, or the thinking part of a text; dropped if disabled.
ThinkingPiece(blank) ==
    /\ oMode.pc = "stream" /\ oMode.thinking /\ oSent.pieces < MaxPieces
    /\ Publish(ThinkingDelta(Work, blank))
    /\ oSent' = [oSent EXCEPT !.pieces = @ + 1]
    /\ UNCHANGED oMode

\* What the tool parser makes of a text part: text, a finished call, a call
\* begun that flush will finish.
TextPiece(shown, blank, call, begun) ==
    LET w == IF shown THEN TextDelta(Work, blank) ELSE Work
        v == IF call THEN TextCall(w) ELSE w
    IN  /\ oMode.pc = "stream" /\ oSent.pieces < MaxPieces
        /\ Publish([v EXCEPT !.sse.textCall = begun])
        /\ oSent' = [oSent EXCEPT !.pieces = @ + 1]
        /\ UNCHANGED oMode

\* One native tool call delta; a provider repeats a name or completes it.  An
\* index below 0 stands for a fresh one (the number of calls so far), which
\* with dense indexes is the call of the next c sent in a single delta.
ToolDelta(c, name, n) ==
    LET first == oSent.fragments[c]
        w == ProcessToolCall(CloseContent(Work), c, name, [i \in 1..n |-> first + i])
    IN  /\ oMode.pc = "stream"
        /\ first + n <= oMode.plan[c].fragments /\ (n > 0 \/ name # "none")
        /\ name = "rest" => oCalls[c].name = "part"
        /\ name = "part" => oCalls[c].name = "none"
        /\ Publish(w)
        /\ oSent' = [oSent EXCEPT !.fragments[c] = @ + n,
                                  !.startedAs[c] = IF Started(w, c) /\ @ = "none" THEN w.calls[c].name ELSE @]
        /\ UNCHANGED oMode

\* The upstream call or its stream fails: everything is closed and the error
\* is told as text, or as an error event once a tool block was started.
UpstreamError ==
    LET w == CloseAll(Work)
        told == IF \E c \in Calls : Started(w, c) THEN Emit(w, MessageEvent("error")) ELSE ErrorText(w)
    IN  /\ oMode.pc = "stream" /\ OEnd("failed")
        /\ Publish(Finish(told))
        /\ UNCHANGED oSent

\* The client is gone: the generator is closed and says nothing more.
ClientLeaves == oMode.pc = "stream" /\ OEnd("cancelled") /\ UNCHANGED <<oSse, oCalls, oSent, oClient>>

\* The end: what the parsers still hold, a space when there is no text to
\* show, the arguments that waited for their JSON, and the closing events.
Completes(remaining) ==
    LET r == CASE remaining = "thinking" /\ oMode.thinking -> ThinkingDelta(Work, FALSE)
               [] remaining = "text" -> TextDelta(Work, FALSE)
               [] OTHER -> Work
        h == IF r.sse.textCall THEN TextCall(r) ELSE r
        tools == \E c \in Calls : Started(h, c)
        empty == h.sse.text = -1 /\ h.sse.thinking = -1 /\ ~tools
        silent == ~tools /\ ~h.sse.hasText /\ h.sse.hasReasoning
        t == IF empty \/ silent THEN TextDelta(h, TRUE) ELSE h
    IN  /\ oMode.pc = "stream" /\ OEnd("done")
        /\ Publish(Finish(CloseAll(FlushCalls(t))))
        /\ UNCHANGED oSent

ONext ==
    \/ \E blank \in BOOLEAN : ThinkingPiece(blank)
    \/ \E shown, blank, call, begun \in BOOLEAN : TextPiece(shown, blank, call, begun)
    \/ \E c \in Calls, name \in {"none", "part", "rest", "full"}, n \in 0..2 : ToolDelta(c, name, n)
    \/ UpstreamError
    \/ ClientLeaves
    \/ \E remaining \in {"nothing", "text", "thinking"} : Completes(remaining)

OSpec == OInit /\ [][ONext]_oVars

-----------------------------------------------------------------------------
\* Whatever order reasoning, text and tool deltas come in, and wherever the
\* upstream fails, the client reads a message: every index is new, a delta
\* falls in an open block of its kind, a stop closes a block that is open, and
\* a message that ends has some block, has none open, and stops once.
StreamContract ==
    /\ oClient.ok
    /\ oMode.pc \in {"done", "failed"} => Complete(oClient)

\* The arguments of a call that was announced by its full name arrive whole
\* and in order at the end of the stream, whenever its name came: Task and
\* aliased arguments as one rewritten object, a Task's broken JSON as an empty
\* object, any other broken JSON as it was sent.
ArgumentsDelivered ==
    oMode.pc = "done" =>
        \A c \in Calls :
            oSent.startedAs[c] = "full" =>
                LET sent == [i \in 1..oSent.fragments[c] |-> i]
                    tool == oMode.plan[c].tool
                IN  oClient.input[oCalls[c].block + 1] =
                        CASE tool = "plain" \/ sent = <<>> -> sent
                          [] tool = "Task" /\ sent # <<>> -> IF IsJson(c, sent) THEN NormalizedJson ELSE EmptyObject
                          [] tool = "aliased" /\ sent # <<>> -> IF IsJson(c, sent) THEN RestoredJson ELSE sent
=============================================================================
