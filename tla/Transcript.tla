----------------------------- MODULE Transcript -----------------------------
(***************************************************************************)
(* What a chat user sees of a running task: TranscriptBuffer               *)
(* (messaging/transcript.py) builds segments from the parsed events of the *)
(* CLI, and ThrottledTranscriptEditor (messaging/ui_updates.py) shows them *)
(* in one message that is edited in place.                                 *)
(*                                                                         *)
(* An action is one event, from the parser to the edit.  A text is a       *)
(* number (the order in which the pieces came); a segment is the pieces it *)
(* holds, and its rendering is a length.  An id is the call it belongs to  *)
(* and how it is written: as it was sent, as the variant that some         *)
(* providers put into the result, omitted, naming the tool instead         *)
(* (TaskLike), or the marker of the stack that stands for an omitted id.   *)
(***************************************************************************)
EXTENDS Integers, Sequences, SequencesExt

CONSTANTS Indices,      \* of content blocks; 0 for a block of a full message
          Layouts       \* [limit, marker, status, least, frame, piece, tail,
                        \* results, events]: the last bounds the run

ASSUME TranscriptAssumption ==
    /\ Indices \subseteq Nat /\ 0 \in Indices
    /\ Layouts \subseteq [limit : Nat, marker : Nat, status : Nat \ {0}, least : Nat, frame : Nat, piece : Nat,
                          tail : Nat, results : BOOLEAN, events : Nat]

VARIABLES tSegs,      \* the segments
          tOpen,      \* per kind and index: the open segment, 0 if none
          tStack,     \* the Tasks that have not been answered
          tScreen,    \* [layout, shown, updated, status, ended, bare]
          tFed        \* history: what the stream has said

tVars == <<tSegs, tOpen, tStack, tScreen, tFed>>

Omitted == <<"omitted", 0>>
TaskLike == <<"task", 0>>
CallId(n) == <<"call", n>>
Variant(id) == <<"variant", id[2]>>
Marker(depth) == <<"marker", depth>>
NoSegment == [i \in Indices |-> 0]
NoBlock == [kind |-> "none", block |-> 0]
Nothing == [from |-> 0, tail |-> 0, length |-> 0]

\* live: the block that an index belongs to; tools, tasks: those in use, the
\* Tasks in the order they started; regular: the results of Tasks come in
\* reverse order, and no plain tool's result without an id looks like one;
\* pieces: in which block, and whether they should be seen.
TInit ==
    /\ tSegs = <<>> /\ tStack = <<>>
    /\ tOpen = [thinking |-> NoSegment, text |-> NoSegment, tool |-> NoSegment]
    /\ tScreen \in [layout : Layouts, shown : {Nothing}, updated : {FALSE}, status : {FALSE}, ended : {FALSE},
                 bare : {"no"}]
    /\ tFed = [n |-> 0, live |-> [i \in Indices |-> NoBlock], blocks |-> 0, tasks |-> <<>>, tools |-> {}, calls |-> 0,
               regular |-> TRUE, omitted |-> FALSE, pieces |-> <<>>]

-----------------------------------------------------------------------------
\* Rendering: the newest segments that fit, or the end of the newest one.

LesserOf(a, b) == IF a < b THEN a ELSE b

\* Segment.render in the layout l: an empty text is not shown, a long one
\* only at its end.
SegmentLength(l, s) ==
    IF s.kind = "text" /\ s.parts = <<>> THEN 0
    ELSE l.frame + (IF s.kind \in {"text", "thinking"} THEN LesserOf(l.tail, l.piece * Len(s.parts)) ELSE 0)

\* A segment after a text of so many characters, with a line break before it.
Longer(l, sum, s) ==
    LET new == SegmentLength(l, s)
    IN  IF new = 0 THEN sum ELSE sum + new + (IF sum = 0 THEN 0 ELSE 1)

\* The segments from the k-th on.
Sums(l, segs, k) ==
    LET sums[n \in 0..Len(segs)] == IF n < k THEN 0 ELSE Longer(l, sums[n - 1], segs[n])
    IN  sums

BodyLength(l, segs, k) == Sums(l, segs, k)[Len(segs)]

Visible(l, segs) == {k \in DOMAIN segs : SegmentLength(l, segs[k]) # 0}

Budget(l, status) == l.limit - l.marker - status

\* TranscriptBuffer.render: from which segment on, how much of the newest if
\* not all of it, and how long; status: whether there is a status line.
Render(l, segs, status) ==
    LET line == IF status THEN l.status + 2 ELSE 0
        whole == BodyLength(l, segs, 1) + line
        fits == {k \in Visible(l, segs) : l.marker + BodyLength(l, segs, k) + line <= l.limit}
        newest == CHOOSE k \in Visible(l, segs) : \A j \in Visible(l, segs) : j <= k
        least == CHOOSE k \in fits : \A j \in fits : k <= j
        shown(from, tail, length) == [from |-> from, tail |-> tail, length |-> length]
        tail == LesserOf(Budget(l, line), SegmentLength(l, segs[newest]))
        only == IF status THEN l.status ELSE 0
    IN  IF whole <= l.limit THEN shown(1, 0, whole)
        ELSE IF fits # {} THEN shown(least, 0, l.marker + BodyLength(l, segs, least) + line)
        ELSE IF Visible(l, segs) # {} /\ Budget(l, line) > l.least /\ l.marker + tail + line <= l.limit
             THEN shown(newest, tail, l.marker + tail + line)
        ELSE IF Visible(l, segs) # {} /\ l.marker + only <= l.limit THEN shown(0, 0, l.marker + only)
        ELSE shown(0, 0, only)

\* ThrottledTranscriptEditor.update, the screens it may leave: unless it is
\* forced, one that comes within a second of the last is dropped.  An empty
\* text is never sent, and the status of a forced update is not kept for the
\* next block_stop.
Shows(segs, status) ==
    LET text == Render(tScreen.layout, segs, status)
    IN  [tScreen EXCEPT !.shown = IF text.length = 0 THEN @ ELSE text, !.updated = TRUE]

MutantUpdate(segs, status, force) ==
    {tScreen, Shows(segs, status)}

Update(segs, status, force) ==
    IF force THEN {Shows(segs, status)}
    ELSE {[screen EXCEPT !.status = status] :
             screen \in {Shows(segs, status)} \cup (IF tScreen.updated THEN {tScreen} ELSE {})}

-----------------------------------------------------------------------------
\* Text and thinking.

\* The bound: so many events, and after them one more piece.
Hears == ~tScreen.ended /\ tFed.n < tScreen.layout.events
HearsMore == ~tScreen.ended /\ tFed.n <= tScreen.layout.events

InSubagent == tStack # <<>>

Segment(kind, parts) == [kind |-> kind, parts |-> parts]

\* block_stop: whichever is open at the index, a tool before a text.
Stop(open, i) ==
    IF open.tool[i] # 0 THEN [open EXCEPT !.tool[i] = 0]
    ELSE IF open.thinking[i] # 0 THEN [open EXCEPT !.thinking[i] = 0]
    ELSE [open EXCEPT !.text[i] = 0]

OpenAt(open, kind, i, k) == IF i = 0 THEN open ELSE [open EXCEPT ![kind][i] = k]

SegmentStart(kind, i) ==
    /\ Hears /\ i # 0
    /\ IF InSubagent THEN UNCHANGED <<tSegs, tOpen>>
       ELSE /\ tSegs' = Append(tSegs, Segment(kind, <<>>))
            /\ tOpen' = OpenAt(Stop(tOpen, i), kind, i, Len(tSegs) + 1)
    /\ tFed' = [tFed EXCEPT !.n = @ + 1, !.blocks = @ + 1, !.live[i] = [kind |-> kind, block |-> tFed.blocks + 1]]
    /\ tScreen' \in Update(tSegs', TRUE, FALSE)
    /\ UNCHANGED tStack

\* A delta of the block at index i, or the text of a full message (i = 0).
SegmentDelta(kind, i) ==
    LET n == Len(tFed.pieces) + 1
        at == tOpen[kind][i]
        block == IF i = 0 THEN tFed.blocks + 1 ELSE tFed.live[i].block
        expected == IF tFed.tasks = <<>> THEN (IF tFed.omitted /\ ~tFed.regular THEN "either" ELSE "shown")
                    ELSE IF tFed.regular THEN "hidden" ELSE "either"
    IN  /\ HearsMore /\ (i # 0 => tFed.live[i].kind = kind)
        /\ IF InSubagent THEN UNCHANGED <<tSegs, tOpen>>
           ELSE IF at # 0 THEN tSegs' = [tSegs EXCEPT ![at].parts = Append(@, n)] /\ UNCHANGED tOpen
           ELSE /\ tSegs' = Append(tSegs, Segment(kind, <<n>>))
                /\ tOpen' = OpenAt(tOpen, kind, i, Len(tSegs) + 1)
        /\ tFed' = [tFed EXCEPT !.n = @ + 1, !.blocks = IF i = 0 THEN @ + 1 ELSE @,
                                !.pieces = Append(@, [block |-> block, expected |-> expected])]
        /\ tScreen' \in Update(tSegs', TRUE, FALSE)
        /\ UNCHANGED tStack

SegmentStop(i) ==
    /\ Hears /\ tFed.live[i].kind # "none"
    /\ tOpen' = Stop(tOpen, i)
    /\ tFed' = [tFed EXCEPT !.n = @ + 1, !.live[i] = NoBlock]
    /\ tScreen' \in Update(tSegs, tScreen.status, TRUE)
    /\ UNCHANGED <<tSegs, tStack>>

-----------------------------------------------------------------------------
\* Tools and subagents.

CallsTool(id, i) ==
    [tFed EXCEPT !.n = @ + 1, !.calls = @ + 1, !.omitted = @ \/ id = Omitted,
                 !.live[i] = IF i = 0 THEN @ ELSE [kind |-> "tool", block |-> 0]]

Push(id) == Append(tStack, IF id = Omitted THEN Marker(Len(tStack) + 1) ELSE id)

\* tool_use_start (i # 0) and tool_use (i = 0) of a plain tool; inside a
\* Task it is a line of the Task's segment.
ToolUse(id, i) ==
    /\ Hears
    /\ tSegs' = IF InSubagent THEN tSegs ELSE Append(tSegs, Segment("tool_call", <<>>))
    /\ tOpen' = IF i = 0 THEN tOpen ELSE [Stop(tOpen, i) EXCEPT !.tool[i] = 1]
    /\ tFed' = [CallsTool(id, i) EXCEPT !.tools = @ \cup {id}]
    /\ tScreen' \in Update(tSegs', TRUE, FALSE)
    /\ UNCHANGED tStack

TaskUse(id, i) ==
    /\ Hears
    /\ tSegs' = Append(tSegs, Segment("subagent", <<>>))
    /\ tOpen' = IF i = 0 THEN tOpen ELSE Stop(tOpen, i)
    /\ tStack' = Push(id)
    /\ tFed' = [CallsTool(id, i) EXCEPT !.tasks = Append(@, id)]
    /\ tScreen' \in Update(tSegs', TRUE, FALSE)

\* tool_use_delta: only the status line.
ToolUseDelta(i) ==
    /\ Hears /\ tFed.live[i].kind = "tool"
    /\ tFed' = [tFed EXCEPT !.n = @ + 1]
    /\ tScreen' \in Update(tSegs, TRUE, FALSE)
    /\ UNCHANGED <<tSegs, tOpen, tStack>>

RoughlyMatch(a, b) == {a[1], b[1]} \subseteq {"call", "variant"} /\ a[2] = b[2]

\* _subagent_pop, with the reconciliation of an unknown id that looks like a
\* Task's: everything from the matching entry on, or the marker at the top.
MutantPop(id) ==
    IF tStack # <<>> /\ RoughlyMatch(Last(tStack), id) THEN Front(tStack) ELSE tStack

Pop(id) ==
    LET matching == {k \in DOMAIN tStack : RoughlyMatch(tStack[k], id)}
    IN  IF matching # {} THEN SubSeq(tStack, 1, (CHOOSE k \in matching : \A j \in matching : j <= k) - 1)
        ELSE IF id \in {Omitted, TaskLike} /\ tStack # <<>> /\ Last(tStack)[1] = "marker" THEN Front(tStack)
        ELSE tStack

\* tool_result, in a message of its own: no block goes on after it.
ToolResult(id, fed) ==
    /\ Hears
    /\ tStack' = Pop(id)
    /\ tSegs' = IF tScreen.layout.results THEN Append(tSegs, Segment("tool_result", <<>>)) ELSE tSegs
    /\ tFed' = [fed EXCEPT !.n = @ + 1, !.live = [i \in Indices |-> NoBlock]]
    /\ tScreen' \in Update(tSegs', TRUE, FALSE)
    /\ UNCHANGED tOpen

\* The ids that the result of a tool called with `id` may carry.
ResultIds(id) == IF id = Omitted THEN {Omitted, TaskLike} ELSE {id, Variant(id)}

TaskResult(k) ==
    LET last == Len(tFed.tasks) = 1
    IN  \E id \in ResultIds(tFed.tasks[k]) :
            ToolResult(id, [tFed EXCEPT !.tasks = RemoveAt(@, k),
                                        !.regular = (@ /\ k = Len(tFed.tasks)) \/ (last /\ ~tFed.omitted)])

PlainResult(id) ==
    ToolResult(id, [tFed EXCEPT !.tools = @ \ {id},
                                !.regular = @ /\ (id = Omitted /\ InSubagent => Last(tStack)[1] # "marker")])

-----------------------------------------------------------------------------
\* error and exit (process_parsed_cli_event): shown at once; the message of a
\* task that said nothing is "Done.", a stopped one keeps what it has.

ErrorShown ==
    /\ Hears
    /\ tSegs' = Append(tSegs, Segment("error", <<>>))
    /\ tFed' = [tFed EXCEPT !.n = @ + 1]
    /\ tScreen' \in Update(tSegs', TRUE, TRUE)
    /\ UNCHANGED <<tOpen, tStack>>

\* bare: whether the handler has a status of its own to show ("due").
Ended(screens, bare) == {[screen EXCEPT !.ended = TRUE, !.bare = bare] : screen \in screens}

ExitEvent ==
    LET said == IF tFed.n = 0 THEN <<1>> ELSE <<>>
    IN  /\ ~tScreen.ended
        /\ tSegs' = IF said # <<>> THEN Append(tSegs, Segment("text", said)) ELSE tSegs
        /\ tFed' = [tFed EXCEPT !.pieces = IF said # <<>> THEN <<[block |-> 1, expected |-> "shown"]>> ELSE @]
        /\ tScreen' \in Ended(Update(tSegs', TRUE, TRUE), "no")
        /\ UNCHANGED <<tOpen, tStack>>

\* The task is cancelled; without /stop an error says so.
CancelledTask(stopped) ==
    /\ ~tScreen.ended
    /\ tSegs' = IF stopped THEN tSegs ELSE Append(tSegs, Segment("error", <<>>))
    /\ tScreen' \in Ended(Update(tSegs', TRUE, TRUE), "due")
    /\ UNCHANGED <<tOpen, tStack, tFed>>

\* update_cancelled_nodes_ui: whoever cancelled the task edits the same message
\* to a line that says "Stopped." and nothing else.  Before the task's own last
\* edit this leaves no trace; after it, nothing else is left.
StoppedShown ==
    /\ tScreen.bare = "due"
    /\ tScreen' = [tScreen EXCEPT !.shown = [from |-> 0, tail |-> 0, length |-> tScreen.layout.status],
                                  !.bare = "shown"]
    /\ UNCHANGED <<tSegs, tOpen, tStack, tFed>>

TNext ==
    \/ \E i \in Indices : \/ \E kind \in {"text", "thinking"} : SegmentStart(kind, i) \/ SegmentDelta(kind, i)
                          \/ SegmentStop(i) \/ ToolUseDelta(i)
                          \/ \E id \in {Omitted, CallId(tFed.calls + 1)} : ToolUse(id, i) \/ TaskUse(id, i)
    \/ \E k \in DOMAIN tFed.tasks : TaskResult(k)
    \/ \E id \in tFed.tools : PlainResult(id)
    \/ ErrorShown
    \/ ExitEvent
    \/ \E stopped \in BOOLEAN : CancelledTask(stopped)
    \/ StoppedShown

TSpec == TInit /\ [][TNext]_tVars

-----------------------------------------------------------------------------
Holding(n) == {k \in DOMAIN tSegs : n \in ToSet(tSegs[k].parts)}

\* The transcript shows what the task itself said and nothing that a subagent
\* said: every piece said with no Task running is in one segment, with pieces
\* of its own block only and in their order, whatever indices are used again
\* without a stop; and no piece said while a Task runs is in any.  Tasks
\* answered out of order may end the suppression early, and only ids that are
\* left out can leave a piece of the task itself out.
TranscriptFaithful ==
    /\ \A n \in DOMAIN tFed.pieces :
          /\ tFed.pieces[n].expected = "shown" => \E k \in DOMAIN tSegs : Holding(n) = {k}
          /\ tFed.pieces[n].expected = "hidden" => Holding(n) = {}
    /\ \A k \in DOMAIN tSegs : \A i, j \in DOMAIN tSegs[k].parts :
          i < j => /\ tSegs[k].parts[i] < tSegs[k].parts[j]
                   /\ tFed.pieces[tSegs[k].parts[i]].block = tFed.pieces[tSegs[k].parts[j]].block

\* What is on the screen fits the platform's limit (unless the status line
\* alone does not), and where there is room for more than a few characters it
\* ends with the newest segment; when the task is over, the screen shows the
\* last transcript, however close the last events were to each other, unless
\* the task was cancelled and who cancelled it wrote over it (StoppedShown).
ScreenRight ==
    LET l == tScreen.layout
        now == Render(l, tSegs, TRUE)
    IN  /\ tScreen.shown.length <= l.limit \/ l.status > l.limit
        /\ Visible(l, tSegs) # {} /\ l.limit - l.marker - l.status - 2 > l.least =>
               now.from # 0 /\ now.length <= l.limit
        /\ tScreen.ended /\ tScreen.bare # "shown" => tScreen.shown = now
=============================================================================
