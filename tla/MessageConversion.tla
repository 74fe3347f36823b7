------------------------- MODULE MessageConversion -------------------------
(***************************************************************************)
(* AnthropicToOpenAIConverter (core/anthropic/conversion.py): the history  *)
(* of a conversation replayed in the format of an OpenAI-compatible        *)
(* provider.  There an assistant message has its text before its tool      *)
(* calls and the results follow at once, so text after a tool call is held *)
(* back until the results have been replayed.                              *)
(*                                                                         *)
(* The loop over the messages is one action per message; a block is        *)
(* [kind, id] and its text is its id, a tool's id is the block's.  The     *)
(* client sends what the Anthropic API takes: the results of the last      *)
(* message's tools, each once, in one or more messages, before any text.   *)
(***************************************************************************)
EXTENDS Naturals, Sequences, SequencesExt

CONSTANTS AssistantKinds,   \* the contents of assistant messages, as kinds
          MaxMessages

BlockTypes == {"text", "thinking", "redacted_thinking", "tool_use", "nameless_tool", "image", "server_tool_use"}

ASSUME AssistantAssumption == AssistantKinds \subseteq Seq(BlockTypes)

VARIABLES cvMode, cvOut, cvPending, cvFed

cvVars == <<cvMode, cvOut, cvPending, cvFed>>

ReplayModes == {"disabled", "think_tags", "reasoning_content"}

\* fed: the texts in the order they came; open: the tools that may still be
\* answered; early: a later text was replayed before text that is held back.
CVInit ==
    /\ cvMode \in [replay : ReplayModes, raised : {FALSE}]
    /\ cvOut = <<>> /\ cvPending = {}
    /\ cvFed = [n |-> 0, next |-> 1, texts |-> <<>>, open |-> {}, early |-> FALSE]

-----------------------------------------------------------------------------
\* Assistant messages.

Message(role, parts) == [role |-> role, parts |-> parts, calls |-> <<>>, result |-> 0, reasoning |-> FALSE]
Ids(blocks) == [i \in DOMAIN blocks |-> blocks[i].id]
Forbidden == {"image", "server_tool_use"}
ToolKinds == {"tool_use", "nameless_tool"}

\* What becomes text of the message; redacted thinking never does.
TextKinds == IF cvMode.replay = "think_tags" THEN {"text", "thinking"} ELSE {"text"}

\* The blocks of the given kinds, in their order.
Kept(blocks, kinds) ==
    LET kept[n \in 0..Len(blocks)] ==
            IF n = 0 THEN <<>>
            ELSE IF blocks[n].kind \in kinds THEN Append(kept[n - 1], blocks[n]) ELSE kept[n - 1]
    IN  kept[Len(blocks)]

\* _convert_assistant_message
ConvertAssistant(blocks, top) ==
    LET thinking == \E i \in DOMAIN blocks : blocks[i].kind = "thinking"
    IN  [Message("assistant", Ids(Kept(blocks, TextKinds)))
            EXCEPT !.reasoning = (cvMode.replay = "reasoning_content" /\ (top \/ thinking))]

FirstTool(blocks) ==
    CHOOSE i \in DOMAIN blocks : blocks[i].kind \in ToolKinds /\ \A j \in 1..(i - 1) : blocks[j].kind \notin ToolKinds

\* A tool without an id is waited for by nobody.
Awaited(blocks) == {b.id : b \in {t \in ToSet(blocks) : t.kind = "tool_use"}}

\* _convert_assistant_message_with_split: the text before the first call, the
\* calls, and what has to wait for their results.
Split(blocks, top) ==
    LET first == FirstTool(blocks)
        pre == ConvertAssistant(SubSeq(blocks, 1, first - 1), top)
        after == Kept(SubSeq(blocks, first, Len(blocks)), BlockTypes \ ToolKinds)
    IN  [message |-> [pre EXCEPT !.calls = Ids(Kept(blocks, ToolKinds))],
         pending |-> IF after = <<>> THEN {}
                     ELSE {[blocks |-> after, top |-> top, remaining |-> Awaited(blocks)]}]

\* _deferred_post_tool_to_messages: nothing, or the text that waited.
Deferred(pending) == {ConvertAssistant(p.blocks, p.top) : p \in pending}
Released(pending) == SetToSeq(Deferred(pending))

-----------------------------------------------------------------------------
\* User messages: consecutive texts are one message, a result is one.

FlushText(acc) ==
    IF acc.texts = <<>> THEN acc
    ELSE [acc EXCEPT !.out = Append(@, Message("user", acc.texts)), !.texts = <<>>]

MutantAnswered(pending, id) == {[p EXCEPT !.remaining = {}] : p \in pending}

Answered(pending, id) == {[p EXCEPT !.remaining = @ \ {id}] : p \in pending}

\* One block of _convert_user_message (no pending) and of its variant with
\* injection, which releases the text after the last result.
UserBlock(acc, b) ==
    IF b.kind = "text" THEN [acc EXCEPT !.texts = Append(@, b.id)]
    ELSE LET flushed == FlushText(acc)
             told == Append(flushed.out, [Message("tool", <<>>) EXCEPT !.result = b.id])
             left == Answered(acc.pending, b.id)
             free == \A p \in left : p.remaining = {}
         IN  [out |-> IF free THEN told \o Released(left) ELSE told, texts |-> <<>>, pending |-> left]

ConvertUser(blocks, pending) ==
    LET acc[n \in 0..Len(blocks)] ==
            IF n = 0 THEN [out |-> <<>>, texts |-> <<>>, pending |-> pending]
            ELSE UserBlock(acc[n - 1], blocks[n])
    IN  FlushText(acc[Len(blocks)])

-----------------------------------------------------------------------------
\* convert_messages, one message at a time.

Feeds == ~cvMode.raised /\ cvFed.n < MaxMessages

Numbered(kinds) == [i \in DOMAIN kinds |-> [kind |-> kinds[i], id |-> cvFed.next + i - 1]]

AssistantBlocks(kinds, top) ==
    LET blocks == Numbered(kinds)
        split == IF \E i \in DOMAIN blocks : blocks[i].kind \in ToolKinds THEN Split(blocks, top)
                 ELSE [message |-> ConvertAssistant(blocks, top), pending |-> {}]
    IN  /\ Feeds /\ ToSet(kinds) \cap Forbidden = {}
        /\ cvOut' = Append(cvOut \o Released(cvPending), split.message)
        /\ cvPending' = split.pending
        /\ cvFed' = [cvFed EXCEPT !.n = @ + 1, !.next = @ + Len(kinds),
                                  !.texts = @ \o Ids(Kept(blocks, TextKinds)),
                                  !.open = Awaited(blocks)]
        /\ UNCHANGED cvMode

\* OpenAIConversionError: the request is refused as a whole (a user's image too).
Unsupported(kinds) ==
    /\ Feeds /\ ToSet(kinds) \cap Forbidden # {}
    /\ cvMode' = [cvMode EXCEPT !.raised = TRUE]
    /\ UNCHANGED <<cvOut, cvPending, cvFed>>

\* A message whose content is a string; only a user's releases what waits.
\* An assistant's reasoning (top) is replayed in its field or in tags.
StringMessage(role, top) ==
    LET tagged == top /\ cvMode.replay = "think_tags"
        parts == IF tagged THEN <<cvFed.next, cvFed.next + 1>> ELSE <<cvFed.next>>
        message == [Message(role, parts) EXCEPT !.reasoning = top /\ cvMode.replay = "reasoning_content"]
        released == IF role = "user" THEN Released(cvPending) ELSE <<>>
    IN  /\ Feeds /\ (top => role = "assistant")
        /\ cvOut' = Append(cvOut \o released, message)
        /\ cvPending' = IF role = "user" THEN {} ELSE cvPending
        /\ cvFed' = [cvFed EXCEPT !.n = @ + 1, !.next = @ + Len(parts), !.texts = @ \o parts, !.open = {},
                                  !.early = @ \/ (role = "assistant" /\ cvPending # {})]
        /\ UNCHANGED cvMode

UserBlocks(results, text) ==
    LET told == [i \in DOMAIN results |-> [kind |-> "tool_result", id |-> results[i]]]
        blocks == told \o (IF text THEN <<[kind |-> "text", id |-> cvFed.next]>> ELSE <<>>)
        waits == \E p \in cvPending : p.remaining # {}
        user == ConvertUser(blocks, IF waits THEN cvPending ELSE {})
        still == {p \in user.pending : p.remaining # {}}
    IN  /\ Feeds
        /\ cvOut' = IF waits THEN cvOut \o user.out ELSE cvOut \o Released(cvPending) \o user.out
        /\ cvPending' = still
        /\ cvFed' = [cvFed EXCEPT !.n = @ + 1, !.next = IF text THEN @ + 1 ELSE @,
                                  !.texts = IF text THEN Append(@, cvFed.next) ELSE @,
                                  !.open = IF text THEN {} ELSE @ \ ToSet(results),
                                  !.early = @ \/ (text /\ still # {})]
        /\ UNCHANGED cvMode

CVNext ==
    \/ \E kinds \in AssistantKinds \cup {<<"image">>} : Unsupported(kinds)
    \/ \E kinds \in AssistantKinds, top \in BOOLEAN : AssistantBlocks(kinds, top)
    \/ \E role \in {"assistant", "user"}, top \in BOOLEAN : StringMessage(role, top)
    \/ \E S \in SUBSET cvFed.open, text \in BOOLEAN : \E results \in SetToSeqs(S) : UserBlocks(results, text)

CVSpec == CVInit /\ [][CVNext]_cvVars

-----------------------------------------------------------------------------
\* What the provider is sent if the conversation ends here.
Replayed == cvOut \o Released(cvPending)

TextsOf(messages) == FlattenSeq([i \in DOMAIN messages |-> messages[i].parts])

\* Every result follows the message with its call, with results only between.
ResultsFollow(messages) ==
    \A i \in DOMAIN messages :
       messages[i].result # 0 =>
          \E j \in 1..(i - 1) : /\ messages[i].result \in ToSet(messages[j].calls)
                                /\ \A k \in (j + 1)..(i - 1) : messages[k].role = "tool"

\* The provider sees the conversation the client had.  Every text that the
\* replay mode keeps is there once and in its order, however text, thinking
\* and calls alternate in a message and whether or not the results came; the
\* order gives way only where an assistant string, or a user's text with
\* results left out, comes while text still waits.  And the results of an
\* assistant message follow it with nothing between.
ConversationReplayed ==
    /\ ~cvFed.early => TextsOf(Replayed) = cvFed.texts
    /\ Len(TextsOf(Replayed)) = Len(cvFed.texts) /\ ToSet(TextsOf(Replayed)) = ToSet(cvFed.texts)
    /\ ResultsFollow(Replayed)
=============================================================================
