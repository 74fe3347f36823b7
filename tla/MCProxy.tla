------------------------------ MODULE MCProxy ------------------------------
(***************************************************************************)
(* The proxy below the message trees, for TLC: provider rate limits, tag   *)
(* parsing, the stream and history converters, the session store, the      *)
(* messaging limiter, the CLI sessions and the transcript.  They share no  *)
(* state; a behaviour is one of one of them, named by `part`.              *)
(***************************************************************************)
EXTENDS ProviderRate, ThinkTags, OpenAIStream, NativeStream, MessageConversion, SessionStore,
        MessagingLimiter, CliSessions, Transcript

VARIABLE part

Parts == {"rate", "tags", "openai", "native", "conversion", "store", "limiter", "cli", "transcript"}

One(S) == {CHOOSE x \in S : TRUE}

XInit ==
    /\ part \in Parts
    /\ RInit /\ TKInit /\ OInit /\ NInit /\ CVInit /\ SInit /\ LInit /\ CInit /\ TInit
    /\ part # "openai" => oMode.thinking /\ oMode.plan \in One(CallPlans)
    /\ part # "native" => nUp.thinking /\ nUp.router /\ nUp.kind \in One(BlockKinds)
    /\ part # "conversion" => cvMode.replay = "disabled"
    /\ part # "transcript" => tScreen.layout \in One(Layouts)

XNext ==
    /\ UNCHANGED part
    /\ \/ part = "rate" /\ RNext /\ UNCHANGED <<tkVars, oVars, nVars, sVars, lVars, cVars, cvVars, tVars>>
       \/ part = "tags" /\ TKNext /\ UNCHANGED <<rVars, oVars, nVars, sVars, lVars, cVars, cvVars, tVars>>
       \/ part = "openai" /\ ONext /\ UNCHANGED <<rVars, tkVars, nVars, sVars, lVars, cVars, cvVars, tVars>>
       \/ part = "native" /\ NNext /\ UNCHANGED <<rVars, tkVars, oVars, sVars, lVars, cVars, cvVars, tVars>>
       \/ part = "store" /\ SNext /\ UNCHANGED <<rVars, tkVars, oVars, nVars, lVars, cVars, cvVars, tVars>>
       \/ part = "limiter" /\ LNext /\ UNCHANGED <<rVars, tkVars, oVars, nVars, sVars, cVars, cvVars, tVars>>
       \/ part = "cli" /\ CNext /\ UNCHANGED <<rVars, tkVars, oVars, nVars, sVars, lVars, cvVars, tVars>>
       \/ part = "conversion" /\ CVNext /\ UNCHANGED <<rVars, tkVars, oVars, nVars, sVars, lVars, cVars, tVars>>
       \/ part = "transcript" /\ TNext /\ UNCHANGED <<rVars, tkVars, oVars, nVars, sVars, lVars, cVars, cvVars>>

xVars == <<part, rVars, tkVars, oVars, nVars, sVars, lVars, cVars, cvVars, tVars>>

XSpec == XInit /\ [][XNext]_xVars

\* The requests of the rate limiter are interchangeable.
Symmetry == Permutations(Requests)

-----------------------------------------------------------------------------
(* Tool calls: the Task tool and one whose parameters have aliases, each   *)
(* before the other, with valid and invalid JSON, and two plain tools, one *)
(* without arguments.                                                      *)

Plan(tool, n, json) == [tool |-> tool, fragments |-> n, json |-> json]
Plans(first, second) == [c \in {0, 1} |-> IF c = 0 THEN first ELSE second]
MCCallPlans == {Plans(Plan("Task", 2, TRUE), Plan("aliased", 1, FALSE)),
                Plans(Plan("aliased", 2, TRUE), Plan("Task", 1, FALSE)),
                Plans(Plan("plain", 2, TRUE), Plan("plain", 0, FALSE))}

\* Assistant messages: text around, before and after tools, two tools, one
\* without an id, thinking, and a block that cannot be converted.
MCAssistantKinds == {<<"text">>, <<"text", "tool_use">>, <<"tool_use", "text">>, <<"tool_use", "tool_use">>,
                     <<"thinking", "tool_use", "text", "tool_use", "thinking">>, <<"nameless_tool", "text">>,
                     <<"redacted_thinking", "server_tool_use">>}

MCBlockKinds == [Upstream -> {"text", "thinking", "tool_use"}]

\* Four calls of the messaging limiter, three of them edits of one message.
MCKeyOf == <<1, 1, 1, 2>>

\* A new conversation and two replies to it.
MCParentOf == <<NoId, RealId(1), RealId(1)>>

\* A screen for about two segments, one that cuts a segment and shows tool
\* results, and one too small for anything but the status.
Layout(limit, results, events) ==
    [limit |-> limit, marker |-> 4, status |-> 3, least |-> 5, frame |-> 2, piece |-> 6, tail |-> 10,
     results |-> results, events |-> events]
MCLayouts == {Layout(24, FALSE, 4), Layout(16, TRUE, 3), Layout(6, FALSE, 2)}
=============================================================================
