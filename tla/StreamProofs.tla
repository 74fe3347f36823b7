---------------------------- MODULE StreamProofs ----------------------------
(***************************************************************************)
(* What the client of a streamed answer reads: for any number of tool      *)
(* calls, pieces and fragments of a provider that is converted, and for    *)
(* any number of blocks of one that speaks Anthropic's events itself.      *)
(***************************************************************************)
EXTENDS OpenAIStream, NativeStream, TLAPS, FiniteSetTheorems, SequenceTheorems, NaturalsInduction, WellFoundedInduction

-----------------------------------------------------------------------------
(***************************************************************************)
(* The reader.  In the middle of a message it has seen the blocks          *)
(* 0..n-1, of which those in open are open.                                *)
(***************************************************************************)
Kinds == {"thinking", "text", "tool_use"}

Client ==
  [starts: Nat, stops: Nat, open: SUBSET (Nat \X Kinds), seen: SUBSET Nat,
   input: Seq(Seq(Int)), ok: BOOLEAN]

Reads(c, n, open) ==
  /\ c \in Client /\ n \in Nat
  /\ c.starts = 1 /\ c.stops = 0 /\ c.ok
  /\ c.seen = 0..(n - 1) /\ Len(c.input) = n /\ c.open = open
  /\ \A b \in open : b[1] \in 0..(n - 1)
  /\ \A b, d \in open : b[1] = d[1] => b = d

\* A block with the next index may start.
LEMMA ReadStart ==
  ASSUME NEW c, NEW n, NEW open, Reads(c, n, open), NEW kind \in Kinds
  PROVE  /\ Reads(Accept(c, BlockStart(n, kind)), n + 1, open \cup {<<n, kind>>})
         /\ Accept(c, BlockStart(n, kind)).input = Append(c.input, <<>>)
<1>1. PICK ev : ev = BlockStart(n, kind)
  OBVIOUS
<1>2. ev.type = "start" /\ ev.index = n /\ ev.kind = kind
  BY <1>1 DEF BlockStart
<1>3. PICK d : d = Accept(c, ev)
  OBVIOUS
<1>4. /\ c \in Client /\ n \in Nat /\ c.starts = 1 /\ c.stops = 0 /\ c.ok
      /\ c.seen = 0..(n - 1) /\ Len(c.input) = n /\ c.open = open
      /\ \A b \in open : b[1] \in 0..(n - 1)
      /\ \A b, e \in open : b[1] = e[1] => b = e
  BY DEF Reads
<1>5. c.input \in Seq(Seq(Int)) /\ open \in SUBSET (Nat \X Kinds)
  BY <1>4 DEF Client
<1>6. Expected(c, ev)
  BY <1>2, <1>4 DEF Expected
<1>7. (c.ok /\ Expected(c, ev)) = TRUE
  BY <1>4, <1>6
<1>8. PICK new : new = <<n, kind>>
  OBVIOUS
<1>9. PICK left : left = open \cup {new}
  OBVIOUS
<1>10. PICK seen : seen = c.seen \cup {n}
  OBVIOUS
<1>11. PICK input : input = Append(c.input, <<>>)
  OBVIOUS
<1>12. d = [starts |-> 1, stops |-> 0, open |-> left, seen |-> seen, input |-> input, ok |-> TRUE]
  BY <1>2, <1>3, <1>4, <1>7, <1>8, <1>9, <1>10, <1>11 DEF Accept
<1>13. input \in Seq(Seq(Int)) /\ Len(input) = n + 1
  <2>1. <<>> \in Seq(Int)
    OBVIOUS
  <2> QED BY <1>4, <1>5, <1>11, <2>1
<1>14. new \in Nat \X Kinds /\ new[1] = n
  BY <1>4, <1>8
<1>15. left \in SUBSET (Nat \X Kinds)
  BY <1>5, <1>9, <1>14
<1>16. seen = 0..((n + 1) - 1) /\ seen \in SUBSET Nat
  BY <1>4, <1>10
<1>17. d \in Client
  BY <1>12, <1>13, <1>15, <1>16 DEF Client
<1>18. /\ \A b \in left : b[1] \in 0..((n + 1) - 1)
       /\ \A b, e \in left : b[1] = e[1] => b = e
  <2>1. \A b \in open : b[1] # n /\ b[1] \in 0..((n + 1) - 1)
    BY <1>4
  <2> QED BY <1>4, <1>9, <1>14, <2>1
<1>19. Reads(d, n + 1, left)
  <2>1. /\ d.starts = 1 /\ d.stops = 0 /\ d.ok /\ d.open = left /\ d.seen = 0..((n + 1) - 1)
        /\ Len(d.input) = n + 1 /\ n + 1 \in Nat
    BY <1>4, <1>12, <1>13, <1>16
  <2> QED BY <1>17, <1>18, <2>1 DEF Reads
<1>20. d.input = Append(c.input, <<>>)
  BY <1>11, <1>12
<1> QED BY <1>1, <1>3, <1>8, <1>9, <1>19, <1>20

\* What a record of the reader is made of.
LEMMA ClientMade ==
  ASSUME NEW c, NEW d, NEW n, NEW open, Reads(c, n, open), NEW left \in SUBSET open,
         NEW input \in Seq(Seq(Int)), Len(input) = n,
         d = [starts |-> 1, stops |-> 0, open |-> left, seen |-> c.seen, input |-> input, ok |-> TRUE]
  PROVE  Reads(d, n, left)
<1>1. /\ c \in Client /\ n \in Nat /\ c.seen = 0..(n - 1) /\ c.open = open
      /\ \A b \in open : b[1] \in 0..(n - 1)
      /\ \A b, e \in open : b[1] = e[1] => b = e
  BY DEF Reads
<1>2. left \in SUBSET (Nat \X Kinds) /\ c.seen \in SUBSET Nat
  BY <1>1 DEF Client
<1>3. d \in Client
  BY <1>2 DEF Client
<1>4. /\ d.starts = 1 /\ d.stops = 0 /\ d.open = left /\ d.seen = 0..(n - 1) /\ d.input = input /\ d.ok
  BY <1>1
<1> QED BY <1>1, <1>3, <1>4 DEF Reads

\* The contents of the blocks after something was added to the one with index i.
Added(after, before, i, data) == after = [before EXCEPT ![i + 1] = before[i + 1] \o data]

\* A delta may fall into an open block of its kind.
LEMMA ReadDelta ==
  ASSUME NEW c, NEW n, NEW open, Reads(c, n, open), NEW i, NEW kind, <<i, kind>> \in open,
         NEW data \in Seq(Int)
  PROVE  /\ Reads(Accept(c, BlockDelta(i, kind, data)), n, open)
         /\ i \in 0..(n - 1) /\ i + 1 \in DOMAIN c.input
         /\ Added(Accept(c, BlockDelta(i, kind, data)).input, c.input, i, data)
<1>1. PICK ev : ev = BlockDelta(i, kind, data)
  OBVIOUS
<1>2. ev.type = "delta" /\ ev.index = i /\ ev.kind = kind /\ ev.data = data
  BY <1>1 DEF BlockDelta
<1>3. PICK d : d = Accept(c, ev)
  OBVIOUS
<1>4. /\ c \in Client /\ n \in Nat /\ c.starts = 1 /\ c.stops = 0 /\ c.ok
      /\ c.seen = 0..(n - 1) /\ Len(c.input) = n /\ c.open = open
      /\ \A b \in open : b[1] \in 0..(n - 1)
  BY DEF Reads
<1>5. c.input \in Seq(Seq(Int))
  BY <1>4 DEF Client
<1>6. i \in 0..(n - 1)
  <2>1. <<i, kind>>[1] = i
    OBVIOUS
  <2> QED BY <1>4, <2>1
<1>7. i + 1 \in DOMAIN c.input
  BY <1>4, <1>5, <1>6
<1>8. (c.ok /\ Expected(c, ev)) = TRUE
  BY <1>2, <1>4 DEF Expected
<1>9. PICK input : input = [c.input EXCEPT ![i + 1] = c.input[i + 1] \o data]
  OBVIOUS
<1>10. input \in Seq(Seq(Int)) /\ Len(input) = n
  <2>1. c.input[i + 1] \in Seq(Int)
    BY <1>5, <1>7
  <2>2. c.input[i + 1] \o data \in Seq(Int)
    BY <2>1
  <2> QED BY <1>4, <1>5, <1>7, <1>9, <2>2
<1>11. d = [starts |-> 1, stops |-> 0, open |-> open, seen |-> c.seen, input |-> input, ok |-> TRUE]
  BY <1>2, <1>3, <1>4, <1>7, <1>8, <1>9 DEF Accept
<1>12. Reads(d, n, open)
  BY <1>10, <1>11, ClientMade
<1>13. d.input = input
  BY <1>11
<1> QED BY <1>1, <1>3, <1>6, <1>7, <1>9, <1>12, <1>13 DEF Added

\* An open block may stop.
LEMMA ReadStop ==
  ASSUME NEW c, NEW n, NEW open, Reads(c, n, open), NEW i, NEW kind, <<i, kind>> \in open
  PROVE  /\ Reads(Accept(c, BlockStop(i)), n, open \ {<<i, kind>>})
         /\ Accept(c, BlockStop(i)).input = c.input
<1>1. PICK ev : ev = BlockStop(i)
  OBVIOUS
<1>2. ev.type = "stop" /\ ev.index = i
  BY <1>1 DEF BlockStop
<1>3. PICK d : d = Accept(c, ev)
  OBVIOUS
<1>4. /\ c \in Client /\ n \in Nat /\ c.starts = 1 /\ c.stops = 0 /\ c.ok
      /\ Len(c.input) = n /\ c.open = open
      /\ \A b, e \in open : b[1] = e[1] => b = e
  BY DEF Reads
<1>5. c.input \in Seq(Seq(Int))
  BY <1>4 DEF Client
<1>6. <<i, kind>>[1] = i
  OBVIOUS
<1>7. (c.ok /\ Expected(c, ev)) = TRUE
  BY <1>2, <1>4, <1>6 DEF Expected
<1>8. {b \in c.open : b[1] # i} = open \ {<<i, kind>>}
  BY <1>4, <1>6
<1>9. d = [starts |-> 1, stops |-> 0, open |-> open \ {<<i, kind>>}, seen |-> c.seen,
           input |-> c.input, ok |-> TRUE]
  BY <1>2, <1>3, <1>4, <1>7, <1>8 DEF Accept
<1>10. Reads(d, n, open \ {<<i, kind>>})
  BY <1>4, <1>5, <1>9, ClientMade
<1>11. d.input = c.input
  BY <1>9
<1> QED BY <1>1, <1>3, <1>10, <1>11

\* An event of the message itself changes no block; message_stop ends it.
LEMMA ReadMessage ==
  ASSUME NEW c, NEW n, NEW open, Reads(c, n, open), NEW type \in {"message_delta", "error"}
  PROVE  /\ Reads(Accept(c, MessageEvent(type)), n, open)
         /\ Accept(c, MessageEvent(type)).input = c.input
<1>1. PICK ev : ev = MessageEvent(type)
  OBVIOUS
<1>2. ev.type = type
  BY <1>1 DEF MessageEvent
<1>3. PICK d : d = Accept(c, ev)
  OBVIOUS
<1>4. c \in Client /\ c.starts = 1 /\ c.stops = 0 /\ c.ok /\ Len(c.input) = n /\ c.open = open
  BY DEF Reads
<1>5. c.input \in Seq(Seq(Int))
  BY <1>4 DEF Client
<1>6. (c.ok /\ Expected(c, ev)) = TRUE
  BY <1>2, <1>4 DEF Expected
<1>7. d = [starts |-> 1, stops |-> 0, open |-> open, seen |-> c.seen, input |-> c.input, ok |-> TRUE]
  BY <1>2, <1>3, <1>4, <1>6 DEF Accept
<1>8. Reads(d, n, open) /\ d.input = c.input
  BY <1>4, <1>5, <1>7, ClientMade
<1> QED BY <1>1, <1>3, <1>8

\* A message without open blocks may end.
LEMMA ReadOver ==
  ASSUME NEW c, NEW n, Reads(c, n, {})
  PROVE  LET d == Accept(c, MessageEvent("message_stop"))
         IN  d.ok /\ d.open = {} /\ d.stops = 1 /\ d.seen = c.seen /\ d.input = c.input
<1>1. PICK ev : ev = MessageEvent("message_stop")
  OBVIOUS
<1>2. ev.type = "message_stop"
  BY <1>1 DEF MessageEvent
<1>3. PICK d : d = Accept(c, ev)
  OBVIOUS
<1>4. n \in Nat /\ c.starts = 1 /\ c.stops = 0 /\ c.ok /\ c.seen = 0..(n - 1) /\ c.open = {}
  BY DEF Reads
<1>5. (c.ok /\ Expected(c, ev)) = TRUE
  BY <1>2, <1>4 DEF Expected
<1>6. d = [starts |-> 1, stops |-> 1, open |-> {}, seen |-> c.seen, input |-> c.input, ok |-> TRUE]
  <2>1. c.stops + 1 = 1
    BY <1>4
  <2>2. d = [starts |-> c.starts, stops |-> c.stops + 1, open |-> c.open, seen |-> c.seen,
             input |-> c.input, ok |-> c.ok /\ Expected(c, ev)]
    BY <1>2, <1>3 DEF Accept
  <2> QED BY <1>4, <1>5, <2>1, <2>2
<1>7. d.ok /\ d.open = {} /\ d.stops = 1 /\ d.seen = c.seen /\ d.input = c.input
  BY <1>6
<1> QED BY <1>1, <1>3, <1>7

LEMMA ReadEnd ==
  ASSUME NEW c, NEW n, Reads(c, n, {}), n > 0
  PROVE  /\ Complete(Accept(c, MessageEvent("message_stop")))
         /\ Accept(c, MessageEvent("message_stop")).input = c.input
<1>1. PICK d : d = Accept(c, MessageEvent("message_stop"))
  OBVIOUS
<1>2. d.ok /\ d.open = {} /\ d.stops = 1 /\ d.seen = c.seen /\ d.input = c.input
  BY <1>1, ReadOver
<1>3. 0 \in c.seen
  BY DEF Reads
<1> QED BY <1>1, <1>2, <1>3 DEF Complete

-----------------------------------------------------------------------------
(***************************************************************************)
(* SSEBuilder: what it remembers is what the client has open.              *)
(***************************************************************************)
Sse ==
  [next: Nat, thinking: Int, text: Int, thinkingOpen: BOOLEAN, textOpen: BOOLEAN,
   hasText: BOOLEAN, hasReasoning: BOOLEAN, textCall: BOOLEAN]

CallNames == {"none", "part", "full"}

Call ==
  [name: CallNames, block: Int, pre: Seq(Int), buffer: Seq(Int), emitted: BOOLEAN]

ThinkingBlock(sse) == IF sse.thinkingOpen THEN {<<sse.thinking, "thinking">>} ELSE {}
TextBlock(sse) == IF sse.textOpen THEN {<<sse.text, "text">>} ELSE {}
ToolBlocks(calls) == {<<calls[c].block, "tool_use">> : c \in {d \in Calls : calls[d].block >= 0}}
OpenOf(sse, calls) == ThinkingBlock(sse) \cup TextBlock(sse) \cup ToolBlocks(calls)

\* The builder without its reader: a content block that was begun has an index, no
\* two calls share a block, and arguments wait only for a call that has a block.
Layout(sse, calls) ==
  /\ sse \in Sse /\ calls \in [Calls -> Call]
  /\ sse.thinking # -1 \/ sse.text # -1 => sse.next > 0
  /\ \A c, d \in Calls : calls[c].block >= 0 /\ calls[c].block = calls[d].block => c = d
  /\ \A c \in Calls : calls[c].buffer # <<>> => calls[c].block >= 0

Sound(w) ==
  /\ w = [sse |-> w.sse, calls |-> w.calls, client |-> w.client]
  /\ Layout(w.sse, w.calls)
  /\ Reads(w.client, w.sse.next, OpenOf(w.sse, w.calls))

\* What is sent outside the tool calls leaves them and their blocks alone.
Keeps(w, v) ==
  /\ v.calls = w.calls
  /\ \A c \in Calls : w.calls[c].block >= 0 =>
       v.client.input[w.calls[c].block + 1] = w.client.input[w.calls[c].block + 1]

LEMMA KeepsOn == ASSUME NEW u, NEW v, NEW w, Keeps(u, v), Keeps(v, w) PROVE Keeps(u, w)
BY DEF Keeps

\* A block of a call lies within what the client has read.
LEMMA ToolBlockRead ==
  ASSUME NEW w, Sound(w), NEW c \in Calls, w.calls[c].block >= 0
  PROVE  /\ <<w.calls[c].block, "tool_use">> \in OpenOf(w.sse, w.calls)
         /\ w.calls[c].block \in 0..(w.sse.next - 1) /\ w.calls[c].block + 1 \in 1..Len(w.client.input)
         /\ Len(w.client.input) = w.sse.next /\ w.sse.next \in Nat
<1>1. <<w.calls[c].block, "tool_use">> \in OpenOf(w.sse, w.calls)
  BY DEF OpenOf, ToolBlocks
<1>2. /\ \A b \in OpenOf(w.sse, w.calls) : b[1] \in 0..(w.sse.next - 1)
      /\ Len(w.client.input) = w.sse.next /\ w.sse.next \in Nat
  BY DEF Sound, Reads
<1>3. <<w.calls[c].block, "tool_use">>[1] = w.calls[c].block
  OBVIOUS
<1>4. w.calls[c].block \in 0..(w.sse.next - 1)
  BY <1>1, <1>2, <1>3
<1> QED BY <1>1, <1>2, <1>4

\* The blocks of a builder whose content changes.
LEMMA OpenWithoutThinking ==
  ASSUME NEW sse \in Sse, NEW calls
  PROVE  LET new == [sse EXCEPT !.thinkingOpen = FALSE]
         IN  /\ new \in Sse /\ new.thinkingOpen = FALSE
             /\ new.next = sse.next /\ new.thinking = sse.thinking /\ new.text = sse.text
             /\ new.textOpen = sse.textOpen /\ new.hasText = sse.hasText
             /\ new.hasReasoning = sse.hasReasoning /\ new.textCall = sse.textCall
             /\ sse.thinkingOpen => OpenOf(new, calls) = OpenOf(sse, calls) \ {<<sse.thinking, "thinking">>}
<1>1. PICK new : new = [sse EXCEPT !.thinkingOpen = FALSE]
  OBVIOUS
<1>2. /\ new \in Sse /\ new.thinkingOpen = FALSE
      /\ new.next = sse.next /\ new.thinking = sse.thinking /\ new.text = sse.text
      /\ new.textOpen = sse.textOpen /\ new.hasText = sse.hasText
      /\ new.hasReasoning = sse.hasReasoning /\ new.textCall = sse.textCall
  BY <1>1 DEF Sse
<1>3. ASSUME sse.thinkingOpen PROVE OpenOf(new, calls) = OpenOf(sse, calls) \ {<<sse.thinking, "thinking">>}
  <2>1. ThinkingBlock(new) = {} /\ TextBlock(new) = TextBlock(sse)
    BY <1>2 DEF ThinkingBlock, TextBlock
  <2>2. ThinkingBlock(sse) = {<<sse.thinking, "thinking">>}
    BY <1>3 DEF ThinkingBlock
  <2>3. <<sse.thinking, "thinking">> \notin TextBlock(sse) \cup ToolBlocks(calls)
    BY DEF TextBlock, ToolBlocks
  <2> QED BY <2>1, <2>2, <2>3 DEF OpenOf
<1> QED BY <1>1, <1>2, <1>3

LEMMA OpenWithoutText ==
  ASSUME NEW sse \in Sse, NEW calls
  PROVE  LET new == [sse EXCEPT !.textOpen = FALSE]
         IN  /\ new \in Sse /\ new.textOpen = FALSE
             /\ new.next = sse.next /\ new.thinking = sse.thinking /\ new.text = sse.text
             /\ new.thinkingOpen = sse.thinkingOpen /\ new.hasText = sse.hasText
             /\ new.hasReasoning = sse.hasReasoning /\ new.textCall = sse.textCall
             /\ sse.textOpen => OpenOf(new, calls) = OpenOf(sse, calls) \ {<<sse.text, "text">>}
<1>1. PICK new : new = [sse EXCEPT !.textOpen = FALSE]
  OBVIOUS
<1>2. /\ new \in Sse /\ new.textOpen = FALSE
      /\ new.next = sse.next /\ new.thinking = sse.thinking /\ new.text = sse.text
      /\ new.thinkingOpen = sse.thinkingOpen /\ new.hasText = sse.hasText
      /\ new.hasReasoning = sse.hasReasoning /\ new.textCall = sse.textCall
  BY <1>1 DEF Sse
<1>3. ASSUME sse.textOpen PROVE OpenOf(new, calls) = OpenOf(sse, calls) \ {<<sse.text, "text">>}
  <2>1. TextBlock(new) = {} /\ ThinkingBlock(new) = ThinkingBlock(sse)
    BY <1>2 DEF ThinkingBlock, TextBlock
  <2>2. TextBlock(sse) = {<<sse.text, "text">>}
    BY <1>3 DEF TextBlock
  <2>3. <<sse.text, "text">> \notin ThinkingBlock(sse) \cup ToolBlocks(calls)
    BY DEF ThinkingBlock, ToolBlocks
  <2> QED BY <2>1, <2>2, <2>3 DEF OpenOf
<1> QED BY <1>1, <1>2, <1>3

\* Emit adds to what the client has read.
LEMMA Emitted ==
  ASSUME NEW sse, NEW calls, NEW client, NEW ev
  PROVE  Emit([sse |-> sse, calls |-> calls, client |-> client], ev)
           = [sse |-> sse, calls |-> calls, client |-> Accept(client, ev)]
BY DEF Emit

\* A step that changes the builder's fields, or those of a call.
IsWork(w) == w = [sse |-> w.sse, calls |-> w.calls, client |-> w.client]

LEMMA WithSse ==
  ASSUME NEW w, IsWork(w), NEW new
  PROVE  [w EXCEPT !.sse = new] = [sse |-> new, calls |-> w.calls, client |-> w.client]
<1>1. PICK sse : sse = w.sse
  OBVIOUS
<1>2. PICK calls : calls = w.calls
  OBVIOUS
<1>3. PICK client : client = w.client
  OBVIOUS
<1>4. w = [sse |-> sse, calls |-> calls, client |-> client]
  BY <1>1, <1>2, <1>3 DEF IsWork
<1> QED BY <1>2, <1>3, <1>4

LEMMA WithCalls ==
  ASSUME NEW w, IsWork(w), NEW new
  PROVE  [w EXCEPT !.calls = new] = [sse |-> w.sse, calls |-> new, client |-> w.client]
<1>1. PICK sse : sse = w.sse
  OBVIOUS
<1>2. PICK calls : calls = w.calls
  OBVIOUS
<1>3. PICK client : client = w.client
  OBVIOUS
<1>4. w = [sse |-> sse, calls |-> calls, client |-> client]
  BY <1>1, <1>2, <1>3 DEF IsWork
<1> QED BY <1>1, <1>3, <1>4

LEMMA EmittedOn ==
  ASSUME NEW w, IsWork(w), NEW ev
  PROVE  /\ Emit(w, ev) = [sse |-> w.sse, calls |-> w.calls, client |-> Accept(w.client, ev)]
         /\ IsWork(Emit(w, ev)) /\ Emit(w, ev).sse = w.sse /\ Emit(w, ev).calls = w.calls
         /\ Emit(w, ev).client = Accept(w.client, ev)
<1>1. PICK sse : sse = w.sse
  OBVIOUS
<1>2. PICK calls : calls = w.calls
  OBVIOUS
<1>3. PICK client : client = w.client
  OBVIOUS
<1>4. w = [sse |-> sse, calls |-> calls, client |-> client]
  BY <1>1, <1>2, <1>3 DEF IsWork
<1>5. Emit(w, ev) = [sse |-> sse, calls |-> calls, client |-> Accept(client, ev)]
  BY <1>4, Emitted
<1> QED BY <1>1, <1>2, <1>3, <1>5 DEF IsWork

\* stop_thinking_block and stop_text_block, if there is one to stop.
LEMMA StopThinkingSound ==
  ASSUME NEW w, Sound(w)
  PROVE  LET v == StopThinking(w)
         IN  /\ Sound(v) /\ Keeps(w, v) /\ v.sse.thinkingOpen = FALSE
             /\ v.sse.next = w.sse.next /\ v.sse.textOpen = w.sse.textOpen
             /\ v.sse.thinking = w.sse.thinking /\ v.sse.text = w.sse.text
             /\ v.sse.textCall = w.sse.textCall
<1>1. PICK v : v = StopThinking(w)
  OBVIOUS
<1>2. /\ w = [sse |-> w.sse, calls |-> w.calls, client |-> w.client] /\ Layout(w.sse, w.calls) /\ w.sse \in Sse
      /\ Reads(w.client, w.sse.next, OpenOf(w.sse, w.calls))
  BY DEF Sound, Layout
<1>3. CASE w.sse.thinkingOpen
  <2>1. PICK new : new = [w.sse EXCEPT !.thinkingOpen = FALSE]
    OBVIOUS
  <2>2. PICK client : client = Accept(w.client, BlockStop(w.sse.thinking))
    OBVIOUS
  <2>3. v = [sse |-> new, calls |-> w.calls, client |-> client]
    <3>1. [w EXCEPT !.sse.thinkingOpen = FALSE] = [sse |-> new, calls |-> w.calls, client |-> w.client]
      BY <1>2, <2>1, WithSse DEF IsWork
    <3>2. v = Emit([w EXCEPT !.sse.thinkingOpen = FALSE], BlockStop(w.sse.thinking))
      BY <1>1, <1>3 DEF StopThinking
    <3> QED BY <2>2, <3>1, <3>2, Emitted
  <2>4. /\ new \in Sse /\ new.thinkingOpen = FALSE
        /\ new.next = w.sse.next /\ new.thinking = w.sse.thinking /\ new.text = w.sse.text
        /\ new.textOpen = w.sse.textOpen /\ new.textCall = w.sse.textCall
        /\ OpenOf(new, w.calls) = OpenOf(w.sse, w.calls) \ {<<w.sse.thinking, "thinking">>}
    BY <1>2, <1>3, <2>1, OpenWithoutThinking
  <2>5. <<w.sse.thinking, "thinking">> \in OpenOf(w.sse, w.calls)
    BY <1>3 DEF OpenOf, ThinkingBlock
  <2>6. Reads(client, w.sse.next, OpenOf(new, w.calls)) /\ client.input = w.client.input
    BY <1>2, <2>2, <2>4, <2>5, ReadStop
  <2>7. v.sse = new /\ v.calls = w.calls /\ v.client = client
    BY <2>3
  <2>8. Layout(new, w.calls)
    BY <1>2, <2>4 DEF Layout
  <2>9. Sound(v)
    BY <2>3, <2>4, <2>6, <2>7, <2>8 DEF Sound
  <2>10. Keeps(w, v)
    BY <2>6, <2>7 DEF Keeps
  <2> QED BY <1>1, <2>4, <2>7, <2>9, <2>10
<1>4. CASE ~w.sse.thinkingOpen
  <2>1. v = w
    BY <1>1, <1>4 DEF StopThinking
  <2>2. w.sse.thinkingOpen = FALSE
    BY <1>2, <1>4 DEF Sse
  <2> QED BY <1>1, <2>1, <2>2 DEF Keeps
<1> QED BY <1>3, <1>4

LEMMA StopTextSound ==
  ASSUME NEW w, Sound(w)
  PROVE  LET v == StopText(w)
         IN  /\ Sound(v) /\ Keeps(w, v) /\ v.sse.textOpen = FALSE
             /\ v.sse.next = w.sse.next /\ v.sse.thinkingOpen = w.sse.thinkingOpen
             /\ v.sse.thinking = w.sse.thinking /\ v.sse.text = w.sse.text
             /\ v.sse.textCall = w.sse.textCall
<1>1. PICK v : v = StopText(w)
  OBVIOUS
<1>2. /\ w = [sse |-> w.sse, calls |-> w.calls, client |-> w.client] /\ Layout(w.sse, w.calls) /\ w.sse \in Sse
      /\ Reads(w.client, w.sse.next, OpenOf(w.sse, w.calls))
  BY DEF Sound, Layout
<1>3. CASE w.sse.textOpen
  <2>1. PICK new : new = [w.sse EXCEPT !.textOpen = FALSE]
    OBVIOUS
  <2>2. PICK client : client = Accept(w.client, BlockStop(w.sse.text))
    OBVIOUS
  <2>3. v = [sse |-> new, calls |-> w.calls, client |-> client]
    <3>1. [w EXCEPT !.sse.textOpen = FALSE] = [sse |-> new, calls |-> w.calls, client |-> w.client]
      BY <1>2, <2>1, WithSse DEF IsWork
    <3>2. v = Emit([w EXCEPT !.sse.textOpen = FALSE], BlockStop(w.sse.text))
      BY <1>1, <1>3 DEF StopText
    <3> QED BY <2>2, <3>1, <3>2, Emitted
  <2>4. /\ new \in Sse /\ new.textOpen = FALSE
        /\ new.next = w.sse.next /\ new.thinking = w.sse.thinking /\ new.text = w.sse.text
        /\ new.thinkingOpen = w.sse.thinkingOpen /\ new.textCall = w.sse.textCall
        /\ OpenOf(new, w.calls) = OpenOf(w.sse, w.calls) \ {<<w.sse.text, "text">>}
    BY <1>2, <1>3, <2>1, OpenWithoutText
  <2>5. <<w.sse.text, "text">> \in OpenOf(w.sse, w.calls)
    BY <1>3 DEF OpenOf, TextBlock
  <2>6. Reads(client, w.sse.next, OpenOf(new, w.calls)) /\ client.input = w.client.input
    BY <1>2, <2>2, <2>4, <2>5, ReadStop
  <2>7. v.sse = new /\ v.calls = w.calls /\ v.client = client
    BY <2>3
  <2>8. Layout(new, w.calls)
    BY <1>2, <2>4 DEF Layout
  <2>9. Sound(v)
    BY <2>3, <2>4, <2>6, <2>7, <2>8 DEF Sound
  <2>10. Keeps(w, v)
    BY <2>6, <2>7 DEF Keeps
  <2> QED BY <1>1, <2>4, <2>7, <2>9, <2>10
<1>4. CASE ~w.sse.textOpen
  <2>1. v = w
    BY <1>1, <1>4 DEF StopText
  <2>2. w.sse.textOpen = FALSE
    BY <1>2, <1>4 DEF Sse
  <2> QED BY <1>1, <2>1, <2>2 DEF Keeps
<1> QED BY <1>3, <1>4

\* The arguments that were read so far are as they were, except those of block i.
InputKept(w, v) ==
  \A c \in Calls : w.calls[c].block >= 0 =>
    v.client.input[w.calls[c].block + 1] = w.client.input[w.calls[c].block + 1]
InputKeptBut(w, v, i) ==
  \A c \in Calls : w.calls[c].block >= 0 /\ w.calls[c].block # i =>
    v.client.input[w.calls[c].block + 1] = w.client.input[w.calls[c].block + 1]

InputAdded(w, v, i, data) == v.client.input[i + 1] = w.client.input[i + 1] \o data

\* A block with the next index starts.
LEMMA BlockOpened ==
  ASSUME NEW w, Sound(w), NEW v, IsWork(v), Layout(v.sse, v.calls), NEW kind \in Kinds,
         v.client = Accept(w.client, BlockStart(w.sse.next, kind)), v.sse.next = w.sse.next + 1,
         OpenOf(v.sse, v.calls) = OpenOf(w.sse, w.calls) \cup {<<w.sse.next, kind>>}
  PROVE  Sound(v) /\ v.client.input = Append(w.client.input, <<>>) /\ InputKept(w, v)
<1>1. PICK client : client = Accept(w.client, BlockStart(w.sse.next, kind))
  OBVIOUS
<1>2. PICK n : n = w.sse.next
  OBVIOUS
<1>3. PICK open : open = OpenOf(w.sse, w.calls)
  OBVIOUS
<1>4. Reads(w.client, n, open)
  BY <1>2, <1>3 DEF Sound
<1>5. Reads(client, n + 1, open \cup {<<n, kind>>}) /\ client.input = Append(w.client.input, <<>>)
  BY <1>1, <1>2, <1>4, ReadStart
<1>6. Sound(v)
  <2>1. v = [sse |-> v.sse, calls |-> v.calls, client |-> v.client]
    BY DEF IsWork
  <2>2. Reads(v.client, v.sse.next, OpenOf(v.sse, v.calls))
    BY <1>1, <1>2, <1>3, <1>5
  <2> QED BY <2>1, <2>2 DEF Sound
<1>7. w.client.input \in Seq(Seq(Int))
  BY <1>4 DEF Reads, Client
<1>8. ASSUME NEW c \in Calls, w.calls[c].block >= 0
      PROVE  client.input[w.calls[c].block + 1] = w.client.input[w.calls[c].block + 1]
  <2>1. w.calls[c].block + 1 \in 1..Len(w.client.input)
    BY <1>8, ToolBlockRead
  <2> QED BY <1>5, <1>7, <2>1
<1> QED BY <1>1, <1>5, <1>6, <1>8 DEF InputKept

\* Something falls into an open block.
LEMMA DeltaSent ==
  ASSUME NEW w, Sound(w), NEW v, IsWork(v), Layout(v.sse, v.calls), v.sse.next = w.sse.next,
         OpenOf(v.sse, v.calls) = OpenOf(w.sse, w.calls),
         NEW i, NEW kind, NEW data \in Seq(Int), <<i, kind>> \in OpenOf(w.sse, w.calls),
         v.client = Accept(w.client, BlockDelta(i, kind, data))
  PROVE  /\ Sound(v) /\ InputAdded(w, v, i, data) /\ InputKeptBut(w, v, i)
         /\ kind # "tool_use" => InputKept(w, v)
<1>1. PICK client : client = Accept(w.client, BlockDelta(i, kind, data))
  OBVIOUS
<1>2. PICK open : open = OpenOf(w.sse, w.calls)
  OBVIOUS
<1>3. PICK n : n = w.sse.next
  OBVIOUS
<1>4. Reads(w.client, n, open) /\ <<i, kind>> \in open
  BY <1>2, <1>3 DEF Sound
<1>5. Reads(client, n, open) /\ i + 1 \in DOMAIN w.client.input /\ i \in 0..(n - 1)
      /\ Added(client.input, w.client.input, i, data)
  BY <1>1, <1>4, ReadDelta
<1>6. v.client = client
  BY <1>1
<1>7. Sound(v)
  <2>1. v = [sse |-> v.sse, calls |-> v.calls, client |-> v.client]
    BY DEF IsWork
  <2>2. Reads(v.client, v.sse.next, OpenOf(v.sse, v.calls))
    BY <1>2, <1>3, <1>5, <1>6
  <2> QED BY <2>1, <2>2 DEF Sound
<1>8. w.client.input \in Seq(Seq(Int)) /\ i \in Int /\ Len(w.client.input) = n /\ n \in Nat
  BY <1>4, <1>5 DEF Reads, Client
<1>9. /\ client.input[i + 1] = w.client.input[i + 1] \o data
      /\ \A k \in DOMAIN w.client.input : k # i + 1 => client.input[k] = w.client.input[k]
  BY <1>5 DEF Added
<1>10. ASSUME NEW c \in Calls, w.calls[c].block >= 0, w.calls[c].block # i
       PROVE  client.input[w.calls[c].block + 1] = w.client.input[w.calls[c].block + 1]
  <2>1. PICK b : b = w.calls[c].block
    OBVIOUS
  <2>2. b + 1 \in 1..Len(w.client.input) /\ b \in 0..(n - 1)
    BY <1>3, <1>10, <2>1, ToolBlockRead
  <2>3. b # i /\ b \in Int
    BY <1>8, <1>10, <2>1, <2>2
  <2>4. b + 1 # i + 1
    BY <1>8, <2>3
  <2>5. b + 1 \in DOMAIN w.client.input
    BY <1>8, <2>2
  <2> QED BY <1>9, <2>1, <2>4, <2>5
<1>11. InputKeptBut(w, v, i)
  BY <1>6, <1>10 DEF InputKeptBut
<1>12. ASSUME kind # "tool_use" PROVE InputKept(w, v)
  <2> SUFFICES ASSUME NEW c \in Calls, w.calls[c].block >= 0 PROVE w.calls[c].block # i
    BY <1>6, <1>10 DEF InputKept
  <2>1. <<w.calls[c].block, "tool_use">> \in open
    BY <1>2, ToolBlockRead
  <2>2. \A b, d \in open : b[1] = d[1] => b = d
    BY <1>4 DEF Reads
  <2>3. <<w.calls[c].block, "tool_use">>[1] = w.calls[c].block /\ <<i, kind>>[1] = i
        /\ <<w.calls[c].block, "tool_use">>[2] = "tool_use" /\ <<i, kind>>[2] = kind
    OBVIOUS
  <2> QED BY <1>4, <1>12, <2>1, <2>2, <2>3
<1> QED BY <1>6, <1>7, <1>9, <1>11, <1>12 DEF InputAdded

\* start_thinking_block and start_text_block, where none is open.
LEMMA StartThinkingSound ==
  ASSUME NEW w, Sound(w), ~w.sse.thinkingOpen
  PROVE  LET v == StartThinking(w)
         IN  /\ Sound(v) /\ Keeps(w, v) /\ v.sse.thinkingOpen = TRUE /\ v.sse.textOpen = w.sse.textOpen
             /\ v.sse.next = w.sse.next + 1
<1>1. PICK v : v = StartThinking(w)
  OBVIOUS
<1>2. /\ IsWork(w) /\ Layout(w.sse, w.calls) /\ w.sse \in Sse /\ w.sse.next \in Nat
  BY DEF Sound, Layout, IsWork, Sse
<1>3. PICK sse : sse = w.sse
  OBVIOUS
<1>4. PICK first : first = [sse EXCEPT !.thinking = sse.next]
  OBVIOUS
<1>5. PICK second : second = [first EXCEPT !.thinkingOpen = TRUE]
  OBVIOUS
<1>6. PICK new : new = [second EXCEPT !.next = second.next + 1]
  OBVIOUS
<1>7. v = [sse |-> new, calls |-> w.calls, client |-> Accept(w.client, BlockStart(w.sse.next, "thinking"))]
  <2>1. [w EXCEPT !.sse.thinking = w.sse.next, !.sse.thinkingOpen = TRUE, !.sse.next = @ + 1]
          = [sse |-> new, calls |-> w.calls, client |-> w.client]
    <3>1. PICK a : a = [w EXCEPT !.sse.thinking = w.sse.next]
      OBVIOUS
    <3>2. a = [sse |-> first, calls |-> w.calls, client |-> w.client]
      BY <1>2, <1>3, <1>4, <3>1, WithSse
    <3>3. IsWork(a) /\ a.sse = first /\ a.calls = w.calls /\ a.client = w.client
      BY <3>2 DEF IsWork
    <3>4. PICK b : b = [a EXCEPT !.sse.thinkingOpen = TRUE]
      OBVIOUS
    <3>5. b = [sse |-> second, calls |-> w.calls, client |-> w.client]
      BY <1>5, <3>3, <3>4, WithSse
    <3>6. IsWork(b) /\ b.sse = second /\ b.calls = w.calls /\ b.client = w.client
      BY <3>5 DEF IsWork
    <3>7. [b EXCEPT !.sse.next = @ + 1] = [sse |-> new, calls |-> w.calls, client |-> w.client]
      BY <1>6, <3>6, WithSse
    <3>8. [w EXCEPT !.sse.thinking = w.sse.next, !.sse.thinkingOpen = TRUE, !.sse.next = @ + 1] = [b EXCEPT !.sse.next = @ + 1]
      BY <3>1, <3>4
    <3> QED BY <3>7, <3>8
  <2>2. v = Emit([w EXCEPT !.sse.thinking = w.sse.next, !.sse.thinkingOpen = TRUE, !.sse.next = @ + 1],
                 BlockStart(w.sse.next, "thinking"))
    BY <1>1 DEF StartThinking
  <2> QED BY <2>1, <2>2, Emitted
<1>8. /\ new \in Sse /\ new.thinkingOpen = TRUE /\ new.next = w.sse.next + 1 /\ new.thinking = w.sse.next
      /\ new.textOpen = w.sse.textOpen /\ new.text = w.sse.text
  <2>1. first \in Sse /\ first.thinking = sse.next /\ first.next = sse.next /\ first.textOpen = sse.textOpen /\ first.text = sse.text
    BY <1>2, <1>3, <1>4 DEF Sse
  <2>2. /\ second \in Sse /\ second.thinking = sse.next /\ second.next = sse.next /\ second.thinkingOpen = TRUE
        /\ second.textOpen = sse.textOpen /\ second.text = sse.text
    BY <1>5, <2>1 DEF Sse
  <2> QED BY <1>2, <1>3, <1>6, <2>2 DEF Sse
<1>9. OpenOf(new, w.calls) = OpenOf(w.sse, w.calls) \cup {<<w.sse.next, "thinking">>}
  <2>1. ThinkingBlock(new) = {<<w.sse.next, "thinking">>} /\ ThinkingBlock(w.sse) = {} /\ TextBlock(new) = TextBlock(w.sse)
    BY <1>8 DEF ThinkingBlock, TextBlock
  <2> QED BY <2>1 DEF OpenOf
<1>10. Layout(new, w.calls)
  BY <1>2, <1>8 DEF Layout
<1>11. /\ IsWork(v) /\ v.sse = new /\ v.calls = w.calls
       /\ v.client = Accept(w.client, BlockStart(w.sse.next, "thinking"))
  BY <1>7 DEF IsWork
<1>12. /\ Layout(v.sse, v.calls) /\ v.sse.next = w.sse.next + 1 /\ "thinking" \in Kinds
       /\ OpenOf(v.sse, v.calls) = OpenOf(w.sse, w.calls) \cup {<<w.sse.next, "thinking">>}
  BY <1>8, <1>9, <1>10, <1>11 DEF Kinds
<1>13. Sound(v) /\ InputKept(w, v)
  BY <1>11, <1>12, BlockOpened
<1> QED BY <1>1, <1>8, <1>11, <1>13 DEF Keeps, InputKept

LEMMA StartTextSound ==
  ASSUME NEW w, Sound(w), ~w.sse.textOpen
  PROVE  LET v == StartText(w)
         IN  /\ Sound(v) /\ Keeps(w, v) /\ v.sse.textOpen = TRUE /\ v.sse.thinkingOpen = w.sse.thinkingOpen
             /\ v.sse.next = w.sse.next + 1
<1>1. PICK v : v = StartText(w)
  OBVIOUS
<1>2. /\ IsWork(w) /\ Layout(w.sse, w.calls) /\ w.sse \in Sse /\ w.sse.next \in Nat
  BY DEF Sound, Layout, IsWork, Sse
<1>3. PICK sse : sse = w.sse
  OBVIOUS
<1>4. PICK first : first = [sse EXCEPT !.text = sse.next]
  OBVIOUS
<1>5. PICK second : second = [first EXCEPT !.textOpen = TRUE]
  OBVIOUS
<1>6. PICK new : new = [second EXCEPT !.next = second.next + 1]
  OBVIOUS
<1>7. v = [sse |-> new, calls |-> w.calls, client |-> Accept(w.client, BlockStart(w.sse.next, "text"))]
  <2>1. [w EXCEPT !.sse.text = w.sse.next, !.sse.textOpen = TRUE, !.sse.next = @ + 1]
          = [sse |-> new, calls |-> w.calls, client |-> w.client]
    <3>1. PICK a : a = [w EXCEPT !.sse.text = w.sse.next]
      OBVIOUS
    <3>2. a = [sse |-> first, calls |-> w.calls, client |-> w.client]
      BY <1>2, <1>3, <1>4, <3>1, WithSse
    <3>3. IsWork(a) /\ a.sse = first /\ a.calls = w.calls /\ a.client = w.client
      BY <3>2 DEF IsWork
    <3>4. PICK b : b = [a EXCEPT !.sse.textOpen = TRUE]
      OBVIOUS
    <3>5. b = [sse |-> second, calls |-> w.calls, client |-> w.client]
      BY <1>5, <3>3, <3>4, WithSse
    <3>6. IsWork(b) /\ b.sse = second /\ b.calls = w.calls /\ b.client = w.client
      BY <3>5 DEF IsWork
    <3>7. [b EXCEPT !.sse.next = @ + 1] = [sse |-> new, calls |-> w.calls, client |-> w.client]
      BY <1>6, <3>6, WithSse
    <3>8. [w EXCEPT !.sse.text = w.sse.next, !.sse.textOpen = TRUE, !.sse.next = @ + 1] = [b EXCEPT !.sse.next = @ + 1]
      BY <3>1, <3>4
    <3> QED BY <3>7, <3>8
  <2>2. v = Emit([w EXCEPT !.sse.text = w.sse.next, !.sse.textOpen = TRUE, !.sse.next = @ + 1],
                 BlockStart(w.sse.next, "text"))
    BY <1>1 DEF StartText
  <2> QED BY <2>1, <2>2, Emitted
<1>8. /\ new \in Sse /\ new.textOpen = TRUE /\ new.next = w.sse.next + 1 /\ new.text = w.sse.next
      /\ new.thinkingOpen = w.sse.thinkingOpen /\ new.thinking = w.sse.thinking
  <2>1. first \in Sse /\ first.text = sse.next /\ first.next = sse.next /\ first.thinkingOpen = sse.thinkingOpen /\ first.thinking = sse.thinking
    BY <1>2, <1>3, <1>4 DEF Sse
  <2>2. /\ second \in Sse /\ second.text = sse.next /\ second.next = sse.next /\ second.textOpen = TRUE
        /\ second.thinkingOpen = sse.thinkingOpen /\ second.thinking = sse.thinking
    BY <1>5, <2>1 DEF Sse
  <2> QED BY <1>2, <1>3, <1>6, <2>2 DEF Sse
<1>9. OpenOf(new, w.calls) = OpenOf(w.sse, w.calls) \cup {<<w.sse.next, "text">>}
  <2>1. TextBlock(new) = {<<w.sse.next, "text">>} /\ TextBlock(w.sse) = {} /\ ThinkingBlock(new) = ThinkingBlock(w.sse)
    BY <1>8 DEF ThinkingBlock, TextBlock
  <2> QED BY <2>1 DEF OpenOf
<1>10. Layout(new, w.calls)
  BY <1>2, <1>8 DEF Layout
<1>11. /\ IsWork(v) /\ v.sse = new /\ v.calls = w.calls
       /\ v.client = Accept(w.client, BlockStart(w.sse.next, "text"))
  BY <1>7 DEF IsWork
<1>12. /\ Layout(v.sse, v.calls) /\ v.sse.next = w.sse.next + 1 /\ "text" \in Kinds
       /\ OpenOf(v.sse, v.calls) = OpenOf(w.sse, w.calls) \cup {<<w.sse.next, "text">>}
  BY <1>8, <1>9, <1>10, <1>11 DEF Kinds
<1>13. Sound(v) /\ InputKept(w, v)
  BY <1>11, <1>12, BlockOpened
<1> QED BY <1>1, <1>8, <1>11, <1>13 DEF Keeps, InputKept

\* What a piece of text or reasoning leaves behind.
Grows(w, v) == Sound(v) /\ Keeps(w, v) /\ v.sse.next \in Nat /\ v.sse.next >= w.sse.next

LEMMA GrowsOn == ASSUME NEW u, NEW v, NEW w, Sound(u), Grows(u, v), Grows(v, w) PROVE Grows(u, w)
<1>1. u.sse.next \in Nat
  BY DEF Sound, Layout, Sse
<1>2. Keeps(u, w)
  BY KeepsOn DEF Grows
<1> QED BY <1>1, <1>2 DEF Grows

LEMMA SoundGrows == ASSUME NEW w, Sound(w) PROVE Grows(w, w)
BY DEF Grows, Keeps, Sound, Layout, Sse

LEMMA EnsureThinkingSound ==
  ASSUME NEW w, Sound(w)
  PROVE  Grows(w, EnsureThinking(w)) /\ EnsureThinking(w).sse.thinkingOpen = TRUE
<1>1. PICK u : u = StopText(w)
  OBVIOUS
<1>2. w.sse.next \in Nat
  BY DEF Sound, Layout, Sse
<1>3. Sound(u) /\ Keeps(w, u) /\ u.sse.next = w.sse.next
  BY <1>1, StopTextSound
<1>4. u.sse.thinkingOpen \in BOOLEAN
  BY <1>3 DEF Sound, Layout, Sse
<1>5. CASE u.sse.thinkingOpen
  <2>1. EnsureThinking(w) = u /\ u.sse.thinkingOpen = TRUE
    BY <1>1, <1>4, <1>5 DEF EnsureThinking
  <2> QED BY <1>2, <1>3, <2>1 DEF Grows
<1>6. CASE ~u.sse.thinkingOpen
  <2>1. PICK v : v = StartThinking(u)
    OBVIOUS
  <2>2. Sound(v) /\ Keeps(u, v) /\ v.sse.thinkingOpen = TRUE /\ v.sse.next = u.sse.next + 1
    BY <1>3, <1>6, <2>1, StartThinkingSound
  <2>3. Keeps(w, v)
    BY <1>3, <2>2, KeepsOn
  <2>4. EnsureThinking(w) = v
    BY <1>1, <1>6, <2>1 DEF EnsureThinking
  <2> QED BY <1>2, <1>3, <2>2, <2>3, <2>4 DEF Grows
<1> QED BY <1>5, <1>6

LEMMA EnsureTextSound ==
  ASSUME NEW w, Sound(w)
  PROVE  Grows(w, EnsureText(w)) /\ EnsureText(w).sse.textOpen = TRUE
<1>1. PICK u : u = StopThinking(w)
  OBVIOUS
<1>2. w.sse.next \in Nat
  BY DEF Sound, Layout, Sse
<1>3. Sound(u) /\ Keeps(w, u) /\ u.sse.next = w.sse.next
  BY <1>1, StopThinkingSound
<1>4. u.sse.textOpen \in BOOLEAN
  BY <1>3 DEF Sound, Layout, Sse
<1>5. CASE u.sse.textOpen
  <2>1. EnsureText(w) = u /\ u.sse.textOpen = TRUE
    BY <1>1, <1>4, <1>5 DEF EnsureText
  <2> QED BY <1>2, <1>3, <2>1 DEF Grows
<1>6. CASE ~u.sse.textOpen
  <2>1. PICK v : v = StartText(u)
    OBVIOUS
  <2>2. Sound(v) /\ Keeps(u, v) /\ v.sse.textOpen = TRUE /\ v.sse.next = u.sse.next + 1
    BY <1>3, <1>6, <2>1, StartTextSound
  <2>3. Keeps(w, v)
    BY <1>3, <2>2, KeepsOn
  <2>4. EnsureText(w) = v
    BY <1>1, <1>6, <2>1 DEF EnsureText
  <2> QED BY <1>2, <1>3, <2>2, <2>3, <2>4 DEF Grows
<1> QED BY <1>5, <1>6

\* close_content_blocks
LEMMA CloseContentSound ==
  ASSUME NEW w, Sound(w)
  PROVE  LET v == CloseContent(w)
         IN  /\ Grows(w, v) /\ v.sse.next = w.sse.next
             /\ v.sse.thinkingOpen = FALSE /\ v.sse.textOpen = FALSE
<1>1. PICK u : u = StopThinking(w)
  OBVIOUS
<1>2. PICK v : v = StopText(u)
  OBVIOUS
<1>3. w.sse.next \in Nat
  BY DEF Sound, Layout, Sse
<1>4. Sound(u) /\ Keeps(w, u) /\ u.sse.next = w.sse.next /\ u.sse.thinkingOpen = FALSE
  BY <1>1, StopThinkingSound
<1>5. Sound(v) /\ Keeps(u, v) /\ v.sse.next = u.sse.next /\ v.sse.textOpen = FALSE /\ v.sse.thinkingOpen = u.sse.thinkingOpen
  BY <1>2, <1>4, StopTextSound
<1>6. Keeps(w, v)
  BY <1>4, <1>5, KeepsOn
<1>7. v = CloseContent(w)
  BY <1>1, <1>2 DEF CloseContent
<1> QED BY <1>3, <1>4, <1>5, <1>6, <1>7 DEF Grows

\* emit_thinking_delta and emit_text_delta
LEMMA ThinkingDeltaSound ==
  ASSUME NEW w, Sound(w), NEW blank \in BOOLEAN
  PROVE  Grows(w, ThinkingDelta(w, blank))
<1>1. PICK u : u = EnsureThinking(w)
  OBVIOUS
<1>2. PICK v : v = ThinkingDelta(w, blank)
  OBVIOUS
<1>3. Grows(w, u) /\ u.sse.thinkingOpen = TRUE
  BY <1>1, EnsureThinkingSound
<1>4. Sound(u) /\ IsWork(u) /\ Layout(u.sse, u.calls) /\ u.sse \in Sse /\ u.sse.next \in Nat
  BY <1>3 DEF Grows, Sound, IsWork, Layout
<1>5. PICK sse : sse = u.sse
  OBVIOUS
<1>6. PICK has : has = (sse.hasReasoning \/ ~blank)
  OBVIOUS
<1>7. has \in BOOLEAN
  BY <1>6
<1>8. PICK new : new = [sse EXCEPT !.hasReasoning = has]
  OBVIOUS
<1>9. v = [sse |-> new, calls |-> u.calls, client |-> Accept(u.client, BlockDelta(u.sse.thinking, "thinking", <<>>))]
  <2>1. [u EXCEPT !.sse.hasReasoning = @ \/ ~blank] = [sse |-> new, calls |-> u.calls, client |-> u.client]
    BY <1>4, <1>5, <1>6, <1>8, WithSse DEF IsWork
  <2>2. v = Emit([u EXCEPT !.sse.hasReasoning = @ \/ ~blank], BlockDelta(u.sse.thinking, "thinking", <<>>))
    BY <1>1, <1>2 DEF ThinkingDelta
  <2> QED BY <2>1, <2>2, Emitted
<1>10. /\ new \in Sse /\ new.next = u.sse.next /\ new.thinking = u.sse.thinking /\ new.text = u.sse.text
       /\ new.thinkingOpen = u.sse.thinkingOpen /\ new.textOpen = u.sse.textOpen
  BY <1>4, <1>5, <1>7, <1>8 DEF Sse
<1>11. OpenOf(new, u.calls) = OpenOf(u.sse, u.calls)
  BY <1>10 DEF OpenOf, ThinkingBlock, TextBlock
<1>12. <<u.sse.thinking, "thinking">> \in OpenOf(u.sse, u.calls)
  BY <1>3 DEF OpenOf, ThinkingBlock
<1>13. Layout(new, u.calls)
  BY <1>4, <1>10 DEF Layout
<1>14. <<>> \in Seq(Int)
  OBVIOUS
<1>15. /\ IsWork(v) /\ v.sse = new /\ v.calls = u.calls
       /\ v.client = Accept(u.client, BlockDelta(u.sse.thinking, "thinking", <<>>))
  BY <1>9 DEF IsWork
<1>16. /\ Layout(v.sse, v.calls) /\ v.sse.next = u.sse.next /\ OpenOf(v.sse, v.calls) = OpenOf(u.sse, u.calls)
       /\ "thinking" # "tool_use"
  BY <1>10, <1>11, <1>13, <1>15
<1>17. Sound(v) /\ InputKept(u, v)
  <2>1. PICK i : i = u.sse.thinking
    OBVIOUS
  <2>2. PICK kind : kind = "thinking"
    OBVIOUS
  <2>3. PICK data : data = <<>>
    OBVIOUS
  <2>4. <<i, kind>> \in OpenOf(u.sse, u.calls) /\ data \in Seq(Int) /\ v.client = Accept(u.client, BlockDelta(i, kind, data))
    BY <1>12, <1>14, <1>15, <2>1, <2>2, <2>3
  <2>5. Sound(u) /\ IsWork(v) /\ Layout(v.sse, v.calls) /\ v.sse.next = u.sse.next /\ OpenOf(v.sse, v.calls) = OpenOf(u.sse, u.calls)
    BY <1>4, <1>15, <1>16
  <2>6. Sound(v) /\ (kind # "tool_use" => InputKept(u, v))
    BY <2>4, <2>5, DeltaSent
  <2> QED BY <2>2, <2>6
<1>18. u.sse.next \in Nat
  BY <1>4
<1>19. Grows(u, v)
  BY <1>10, <1>15, <1>17, <1>18 DEF Grows, Keeps, InputKept
<1> QED BY <1>2, <1>3, <1>19, GrowsOn

LEMMA TextDeltaSound ==
  ASSUME NEW w, Sound(w), NEW blank \in BOOLEAN
  PROVE  Grows(w, TextDelta(w, blank)) /\ TextDelta(w, blank).sse.next > 0
<1>1. PICK u : u = EnsureText(w)
  OBVIOUS
<1>2. PICK v : v = TextDelta(w, blank)
  OBVIOUS
<1>3. Grows(w, u) /\ u.sse.textOpen = TRUE
  BY <1>1, EnsureTextSound
<1>4. Sound(u) /\ IsWork(u) /\ Layout(u.sse, u.calls) /\ u.sse \in Sse /\ u.sse.next \in Nat
  BY <1>3 DEF Grows, Sound, IsWork, Layout
<1>5. PICK sse : sse = u.sse
  OBVIOUS
<1>6. PICK has : has = (sse.hasText \/ ~blank)
  OBVIOUS
<1>7. has \in BOOLEAN
  BY <1>6
<1>8. PICK new : new = [sse EXCEPT !.hasText = has]
  OBVIOUS
<1>9. v = [sse |-> new, calls |-> u.calls, client |-> Accept(u.client, BlockDelta(u.sse.text, "text", <<>>))]
  <2>1. [u EXCEPT !.sse.hasText = @ \/ ~blank] = [sse |-> new, calls |-> u.calls, client |-> u.client]
    BY <1>4, <1>5, <1>6, <1>8, WithSse DEF IsWork
  <2>2. v = Emit([u EXCEPT !.sse.hasText = @ \/ ~blank], BlockDelta(u.sse.text, "text", <<>>))
    BY <1>1, <1>2 DEF TextDelta
  <2> QED BY <2>1, <2>2, Emitted
<1>10. /\ new \in Sse /\ new.next = u.sse.next /\ new.thinking = u.sse.thinking /\ new.text = u.sse.text
       /\ new.thinkingOpen = u.sse.thinkingOpen /\ new.textOpen = u.sse.textOpen
  BY <1>4, <1>5, <1>7, <1>8 DEF Sse
<1>11. OpenOf(new, u.calls) = OpenOf(u.sse, u.calls)
  BY <1>10 DEF OpenOf, ThinkingBlock, TextBlock
<1>12. <<u.sse.text, "text">> \in OpenOf(u.sse, u.calls)
  BY <1>3 DEF OpenOf, TextBlock
<1>13. Layout(new, u.calls)
  BY <1>4, <1>10 DEF Layout
<1>14. <<>> \in Seq(Int)
  OBVIOUS
<1>15. /\ IsWork(v) /\ v.sse = new /\ v.calls = u.calls
       /\ v.client = Accept(u.client, BlockDelta(u.sse.text, "text", <<>>))
  BY <1>9 DEF IsWork
<1>16. /\ Layout(v.sse, v.calls) /\ v.sse.next = u.sse.next /\ OpenOf(v.sse, v.calls) = OpenOf(u.sse, u.calls)
       /\ "text" # "tool_use"
  BY <1>10, <1>11, <1>13, <1>15
<1>17. Sound(v) /\ InputKept(u, v)
  <2>1. PICK i : i = u.sse.text
    OBVIOUS
  <2>2. PICK kind : kind = "text"
    OBVIOUS
  <2>3. PICK data : data = <<>>
    OBVIOUS
  <2>4. <<i, kind>> \in OpenOf(u.sse, u.calls) /\ data \in Seq(Int) /\ v.client = Accept(u.client, BlockDelta(i, kind, data))
    BY <1>12, <1>14, <1>15, <2>1, <2>2, <2>3
  <2>5. Sound(u) /\ IsWork(v) /\ Layout(v.sse, v.calls) /\ v.sse.next = u.sse.next /\ OpenOf(v.sse, v.calls) = OpenOf(u.sse, u.calls)
    BY <1>4, <1>15, <1>16
  <2>6. Sound(v) /\ (kind # "tool_use" => InputKept(u, v))
    BY <2>4, <2>5, DeltaSent
  <2> QED BY <2>2, <2>6
<1>18. u.sse.next \in Nat
  BY <1>4
<1>19. Grows(u, v)
  BY <1>10, <1>15, <1>17, <1>18 DEF Grows, Keeps, InputKept
<1>20. v.sse.next > 0
  <2>1. Reads(u.client, u.sse.next, OpenOf(u.sse, u.calls))
    BY <1>4 DEF Sound
  <2>2. <<u.sse.text, "text">>[1] \in 0..(u.sse.next - 1)
    BY <1>12, <2>1 DEF Reads
  <2> QED BY <1>4, <1>16, <2>2
<1> QED BY <1>2, <1>3, <1>19, <1>20, GrowsOn

SameUpTo(n, after, before) == \A k \in 1..n : after[k] = before[k]

\* A block that starts, has its delta and stops at once.
LEMMA ReadWhole ==
  ASSUME NEW c, NEW n, NEW open, Reads(c, n, open), NEW kind \in Kinds, NEW d,
         d = Accept(Accept(Accept(c, BlockStart(n, kind)), BlockDelta(n, kind, <<>>)), BlockStop(n))
  PROVE  Reads(d, n + 1, open) /\ SameUpTo(n, d.input, c.input)
<1>1. PICK block : block = <<n, kind>>
  OBVIOUS
<1>2. PICK more : more = open \cup {block}
  OBVIOUS
<1>3. PICK a : a = Accept(c, BlockStart(n, kind))
  OBVIOUS
<1>4. PICK b : b = Accept(a, BlockDelta(n, kind, <<>>))
  OBVIOUS
<1>5. Reads(a, n + 1, more) /\ a.input = Append(c.input, <<>>)
  BY <1>1, <1>2, <1>3, ReadStart
<1>6. /\ Reads(b, n + 1, more) /\ n + 1 \in DOMAIN a.input
      /\ Added(b.input, a.input, n, <<>>)
  <2>1. <<>> \in Seq(Int) /\ <<n, kind>> \in more
    BY <1>1, <1>2
  <2> QED BY <1>4, <1>5, <2>1, ReadDelta
<1>7. Reads(d, n + 1, more \ {block}) /\ d.input = b.input
  <2>1. d = Accept(b, BlockStop(n)) /\ <<n, kind>> \in more
    BY <1>1, <1>2, <1>3, <1>4
  <2> QED BY <1>1, <1>6, <2>1, ReadStop
<1>8. n \in Nat /\ c.input \in Seq(Seq(Int)) /\ Len(c.input) = n /\ \A o \in open : o[1] \in 0..(n - 1)
  BY DEF Reads, Client
<1>9. more \ {block} = open
  <2>1. block[1] = n
    BY <1>1
  <2> QED BY <1>2, <1>8, <2>1
<1>10. \A k \in 1..n : d.input[k] = c.input[k]
  <2> SUFFICES ASSUME NEW k \in 1..n PROVE d.input[k] = c.input[k]
    OBVIOUS
  <2>1. a.input[k] = c.input[k] /\ k # n + 1 /\ k \in DOMAIN a.input
    BY <1>5, <1>8
  <2>2. b.input[k] = a.input[k]
    BY <1>6, <2>1 DEF Added
  <2> QED BY <1>7, <2>1, <2>2
<1> QED BY <1>7, <1>9, <1>10 DEF SameUpTo

\* _iter_heuristic_tool_use_sse
LEMMA TextCallSound ==
  ASSUME NEW w, Sound(w)
  PROVE  Grows(w, TextCall(w)) /\ TextCall(w).sse.next > 0
<1>1. PICK u : u = CloseContent(w)
  OBVIOUS
<1>2. PICK v : v = TextCall(w)
  OBVIOUS
<1>3. Grows(w, u)
  BY <1>1, CloseContentSound
<1>4. Sound(u) /\ IsWork(u) /\ Layout(u.sse, u.calls) /\ u.sse \in Sse /\ u.sse.next \in Nat
      /\ Reads(u.client, u.sse.next, OpenOf(u.sse, u.calls))
  BY <1>3 DEF Grows, Sound, IsWork, Layout
<1>5. PICK sse : sse = u.sse
  OBVIOUS
<1>6. PICK new : new = [sse EXCEPT !.next = sse.next + 1]
  OBVIOUS
<1>7. PICK client :
        client = Accept(Accept(Accept(u.client, BlockStart(u.sse.next, "tool_use")),
                               BlockDelta(u.sse.next, "tool_use", <<>>)), BlockStop(u.sse.next))
  OBVIOUS
<1>8. v = [sse |-> new, calls |-> u.calls, client |-> client]
  <2>1. [u EXCEPT !.sse.next = @ + 1] = [sse |-> new, calls |-> u.calls, client |-> u.client]
    BY <1>4, <1>5, <1>6, WithSse DEF IsWork
  <2>2. v = Emit(Emit(Emit([u EXCEPT !.sse.next = @ + 1], BlockStart(u.sse.next, "tool_use")),
                      BlockDelta(u.sse.next, "tool_use", <<>>)), BlockStop(u.sse.next))
    BY <1>1, <1>2 DEF TextCall
  <2>3. PICK a : a = [sse |-> new, calls |-> u.calls, client |-> u.client]
    OBVIOUS
  <2>4. IsWork(a) /\ a.sse = new /\ a.calls = u.calls /\ a.client = u.client
    BY <2>3 DEF IsWork
  <2>5. PICK b : b = Emit(a, BlockStart(u.sse.next, "tool_use"))
    OBVIOUS
  <2>6. PICK d : d = Emit(b, BlockDelta(u.sse.next, "tool_use", <<>>))
    OBVIOUS
  <2>7. IsWork(b) /\ b.sse = new /\ b.calls = u.calls /\ b.client = Accept(u.client, BlockStart(u.sse.next, "tool_use"))
    BY <2>4, <2>5, EmittedOn
  <2>8. IsWork(d) /\ d.sse = new /\ d.calls = u.calls /\ d.client = Accept(b.client, BlockDelta(u.sse.next, "tool_use", <<>>))
    BY <2>6, <2>7, EmittedOn
  <2>9. v = Emit(d, BlockStop(u.sse.next))
    BY <2>1, <2>2, <2>3, <2>5, <2>6
  <2>10. v = [sse |-> d.sse, calls |-> d.calls, client |-> Accept(d.client, BlockStop(u.sse.next))]
    BY <2>8, <2>9, EmittedOn
  <2> QED BY <1>7, <2>7, <2>8, <2>10
<1>9. Reads(client, u.sse.next + 1, OpenOf(u.sse, u.calls)) /\ SameUpTo(u.sse.next, client.input, u.client.input)
  <2>1. PICK n : n = u.sse.next
    OBVIOUS
  <2>2. PICK open : open = OpenOf(u.sse, u.calls)
    OBVIOUS
  <2>3. PICK c : c = u.client
    OBVIOUS
  <2>4. Reads(c, n, open)
    BY <1>4, <2>1, <2>2, <2>3
  <2>5. client = Accept(Accept(Accept(c, BlockStart(n, "tool_use")), BlockDelta(n, "tool_use", <<>>)), BlockStop(n))
    BY <1>7, <2>1, <2>3
  <2>6. "tool_use" \in Kinds
    BY DEF Kinds
  <2>7. Reads(client, n + 1, open) /\ SameUpTo(n, client.input, c.input)
    BY <2>4, <2>5, <2>6, ReadWhole
  <2> QED BY <2>1, <2>2, <2>3, <2>7
<1>10. /\ new \in Sse /\ new.next = u.sse.next + 1 /\ new.thinking = u.sse.thinking /\ new.text = u.sse.text
       /\ new.thinkingOpen = u.sse.thinkingOpen /\ new.textOpen = u.sse.textOpen
  BY <1>4, <1>5, <1>6 DEF Sse
<1>11. OpenOf(new, u.calls) = OpenOf(u.sse, u.calls)
  BY <1>10 DEF OpenOf, ThinkingBlock, TextBlock
<1>12. Layout(new, u.calls)
  BY <1>4, <1>10 DEF Layout
<1>13. v.sse = new /\ v.calls = u.calls /\ v.client = client
  BY <1>8
<1>14. Sound(v)
  BY <1>8, <1>9, <1>10, <1>11, <1>12, <1>13 DEF Sound
<1>15. Keeps(u, v)
  <2> SUFFICES ASSUME NEW c \in Calls, u.calls[c].block >= 0
               PROVE  client.input[u.calls[c].block + 1] = u.client.input[u.calls[c].block + 1]
    BY <1>13 DEF Keeps
  <2>1. u.calls[c].block + 1 \in 1..Len(u.client.input) /\ Len(u.client.input) = u.sse.next
    BY <1>4, ToolBlockRead
  <2> QED BY <1>9, <2>1 DEF SameUpTo
<1>16. Grows(u, v) /\ v.sse.next > 0
  BY <1>4, <1>10, <1>13, <1>14, <1>15 DEF Grows
<1> QED BY <1>2, <1>3, <1>16, GrowsOn

\* What the tool parser has begun is remembered only.
LEMMA TextCallBegun ==
  ASSUME NEW w, Sound(w), NEW begun \in BOOLEAN
  PROVE  Grows(w, [w EXCEPT !.sse.textCall = begun])
<1>1. IsWork(w) /\ Layout(w.sse, w.calls) /\ w.sse \in Sse /\ w.sse.next \in Nat
      /\ Reads(w.client, w.sse.next, OpenOf(w.sse, w.calls))
  BY DEF Sound, IsWork, Layout, Sse
<1>2. PICK sse : sse = w.sse
  OBVIOUS
<1>3. PICK new : new = [sse EXCEPT !.textCall = begun]
  OBVIOUS
<1>4. PICK v : v = [w EXCEPT !.sse.textCall = begun]
  OBVIOUS
<1>5. v = [sse |-> new, calls |-> w.calls, client |-> w.client]
  BY <1>1, <1>2, <1>3, <1>4, WithSse DEF IsWork
<1>6. /\ new \in Sse /\ new.next = w.sse.next /\ new.thinking = w.sse.thinking /\ new.text = w.sse.text
      /\ new.thinkingOpen = w.sse.thinkingOpen /\ new.textOpen = w.sse.textOpen
  BY <1>1, <1>2, <1>3 DEF Sse
<1>7. OpenOf(new, w.calls) = OpenOf(w.sse, w.calls)
  BY <1>6 DEF OpenOf, ThinkingBlock, TextBlock
<1>8. Layout(new, w.calls)
  BY <1>1, <1>6 DEF Layout
<1>9. v.sse = new /\ v.calls = w.calls /\ v.client = w.client
  BY <1>5
<1>10. Sound(v)
  BY <1>1, <1>5, <1>6, <1>7, <1>8, <1>9 DEF Sound
<1> QED BY <1>1, <1>4, <1>6, <1>9, <1>10 DEF Grows, Keeps

-----------------------------------------------------------------------------
(***************************************************************************)
(* The tool calls.                                                         *)
(***************************************************************************)
\* The first n fragments of the arguments.
Sent(n) == [i \in 1..n |-> i]

More(a, n) == [i \in 1..n |-> a + i]

LEMMA SentGrows ==
  ASSUME NEW a \in Nat, NEW n \in Nat
  PROVE  /\ More(a, n) \in Seq(Int) /\ Sent(a) \in Seq(Int) /\ Sent(a + n) \in Seq(Int)
         /\ a + n \in Nat /\ Sent(a) \o More(a, n) = Sent(a + n)
         /\ More(a, n) = <<>> <=> n = 0
<1>1. PICK more : more = More(a, n)
  OBVIOUS
<1>2. more = [i \in 1..n |-> a + i]
  BY <1>1 DEF More
<1>3. more \in Seq(Int) /\ Len(more) = n /\ \A i \in 1..n : more[i] = a + i
  BY <1>2
<1>4. ASSUME NEW m \in Nat PROVE Sent(m) \in Seq(Int) /\ Len(Sent(m)) = m /\ \A i \in 1..m : Sent(m)[i] = i
  BY DEF Sent
<1>5. PICK left : left = Sent(a)
  OBVIOUS
<1>6. PICK all : all = Sent(a + n)
  OBVIOUS
<1>7. a + n \in Nat
  OBVIOUS
<1>8. left \in Seq(Int) /\ Len(left) = a /\ \A i \in 1..a : left[i] = i
  BY <1>4, <1>5
<1>9. all \in Seq(Int) /\ Len(all) = a + n /\ \A i \in 1..(a + n) : all[i] = i
  BY <1>4, <1>6, <1>7
<1>10. PICK both : both = left \o more
  OBVIOUS
<1>11. both \in Seq(Int) /\ Len(both) = a + n
       /\ \A i \in 1..(a + n) : both[i] = IF i <= a THEN left[i] ELSE more[i - a]
  BY <1>3, <1>8, <1>10, ConcatProperties
<1>12. \A i \in 1..(a + n) : both[i] = all[i]
  <2> SUFFICES ASSUME NEW i \in 1..(a + n) PROVE both[i] = i
    BY <1>9
  <2>1. CASE i <= a
    BY <1>8, <1>11, <2>1
  <2>2. CASE ~(i <= a)
    <3>1. i - a \in 1..n
      BY <2>2
    <3>2. more[i - a] = a + (i - a)
      BY <1>3, <3>1
    <3>3. both[i] = more[i - a]
      BY <1>11, <2>2
    <3> QED BY <3>2, <3>3
  <2> QED BY <2>1, <2>2
<1>13. both = all
  BY <1>9, <1>11, <1>12, SeqEqual
<1>14. more = <<>> <=> n = 0
  BY <1>3
<1> QED BY <1>1, <1>3, <1>5, <1>6, <1>7, <1>8, <1>9, <1>10, <1>13, <1>14

PlanTyped(plan) ==
  plan \in [Calls -> [tool: {"plain", "Task", "aliased"}, fragments: Nat, json: BOOLEAN]]

\* The n fragments sent are the whole object.
Whole(plan, c, n) == n > 0 /\ plan[c].json /\ n = plan[c].fragments

LEMMA JsonIsWhole ==
  ASSUME PlanTyped(oMode.plan), NEW c \in Calls, NEW n \in Nat, n > 0
  PROVE  IsJson(c, Sent(n)) <=> Whole(oMode.plan, c, n)
<1>1. PICK all : all = oMode.plan[c].fragments
  OBVIOUS
<1>2. all \in Nat
  BY <1>1 DEF PlanTyped
<1>3. Len(Sent(n)) = n /\ Len(Sent(all)) = all
  BY <1>2 DEF Sent
<1>4. Sent(n) = Sent(all) <=> n = all
  BY <1>3
<1> QED BY <1>1, <1>4 DEF IsJson, Whole, Sent

\* What is done for one call leaves the others alone.
KeepsCall(w, v, c) ==
  /\ v.calls[c] = w.calls[c]
  /\ w.calls[c].block >= 0 =>
       v.client.input[w.calls[c].block + 1] = w.client.input[w.calls[c].block + 1]

KeepsOthers(w, v, c) == \A d \in Calls \ {c} : KeepsCall(w, v, d)

LEMMA KeepsOthersOn ==
  ASSUME NEW u, NEW v, NEW w, NEW c, KeepsOthers(u, v, c), KeepsOthers(v, w, c)
  PROVE  KeepsOthers(u, w, c)
BY DEF KeepsOthers, KeepsCall

LEMMA KeepsAll == ASSUME NEW u, NEW v, Keeps(u, v), NEW c PROVE KeepsOthers(u, v, c) /\ \A d \in Calls : KeepsCall(u, v, d)
BY DEF Keeps, KeepsOthers, KeepsCall

RowPut(after, before, c, row) == after = [before EXCEPT ![c] = row]

\* The row of a call changes, but not its block.
LEMMA RowChanged ==
  ASSUME NEW w, Sound(w), NEW c \in Calls, NEW row \in Call, row.block = w.calls[c].block,
         row.buffer # <<>> => row.block >= 0,
         NEW v, IsWork(v), v.sse = w.sse, v.client = w.client, RowPut(v.calls, w.calls, c, row)
  PROVE  /\ Sound(v) /\ v.sse = w.sse /\ v.client = w.client /\ v.calls[c] = row
         /\ KeepsOthers(w, v, c)
<1>1. /\ IsWork(w) /\ Layout(w.sse, w.calls) /\ w.calls \in [Calls -> Call]
      /\ Reads(w.client, w.sse.next, OpenOf(w.sse, w.calls))
  BY DEF Sound, IsWork, Layout
<1>2. PICK calls : calls = v.calls
  OBVIOUS
<1>3. /\ calls \in [Calls -> Call] /\ calls[c] = row
      /\ \A d \in Calls : d # c => calls[d] = w.calls[d]
      /\ \A d \in Calls : calls[d].block = w.calls[d].block
  BY <1>1, <1>2 DEF RowPut
<1>4. ToolBlocks(calls) = ToolBlocks(w.calls)
  BY <1>3 DEF ToolBlocks
<1>5. OpenOf(w.sse, calls) = OpenOf(w.sse, w.calls)
  BY <1>4 DEF OpenOf
<1>6. Layout(w.sse, calls)
  <2>1. \A d, e \in Calls : calls[d].block >= 0 /\ calls[d].block = calls[e].block => d = e
    BY <1>1, <1>3 DEF Layout
  <2>2. \A d \in Calls : calls[d].buffer # <<>> => calls[d].block >= 0
    BY <1>1, <1>3 DEF Layout
  <2> QED BY <1>1, <1>3, <2>1, <2>2 DEF Layout
<1>7. Sound(v)
  <2>1. v = [sse |-> v.sse, calls |-> v.calls, client |-> v.client]
    BY DEF IsWork
  <2>2. Layout(v.sse, v.calls) /\ Reads(v.client, v.sse.next, OpenOf(v.sse, v.calls))
    BY <1>1, <1>2, <1>5, <1>6
  <2> QED BY <2>1, <2>2 DEF Sound
<1> QED BY <1>2, <1>3, <1>7 DEF KeepsOthers, KeepsCall

\* emit_tool_delta
LEMMA ToolInputSound ==
  ASSUME NEW w, Sound(w), NEW c \in Calls, Started(w, c), NEW data \in Seq(Int)
  PROVE  LET v == ToolInput(w, c, data)
         IN  /\ Sound(v) /\ v.sse = w.sse /\ v.calls = w.calls /\ KeepsOthers(w, v, c)
             /\ v.client.input[w.calls[c].block + 1] = w.client.input[w.calls[c].block + 1] \o data
<1>1. PICK v : v = ToolInput(w, c, data)
  OBVIOUS
<1>2. /\ IsWork(w) /\ Layout(w.sse, w.calls)
  BY DEF Sound, IsWork
<1>3. PICK i : i = w.calls[c].block
  OBVIOUS
<1>4. IsWork(v) /\ v.sse = w.sse /\ v.calls = w.calls /\ v.client = Accept(w.client, BlockDelta(i, "tool_use", data))
  <2>1. v = Emit(w, BlockDelta(i, "tool_use", data))
    BY <1>1, <1>3 DEF ToolInput
  <2> QED BY <1>2, <2>1, EmittedOn DEF IsWork
<1>5. PICK kind : kind = "tool_use"
  OBVIOUS
<1>6. /\ <<i, kind>> \in OpenOf(w.sse, w.calls) /\ v.client = Accept(w.client, BlockDelta(i, kind, data))
      /\ Layout(v.sse, v.calls) /\ v.sse.next = w.sse.next /\ OpenOf(v.sse, v.calls) = OpenOf(w.sse, w.calls)
  BY <1>2, <1>3, <1>4, <1>5, ToolBlockRead DEF Started
<1>7. Sound(v) /\ v.client.input[i + 1] = w.client.input[i + 1] \o data /\ InputKeptBut(w, v, i)
  <2>1. Sound(w) /\ data \in Seq(Int)
    OBVIOUS
  <2>2. IsWork(v)
    BY <1>4
  <2>3. InputKeptBut(w, v, i)
    BY <1>6, <2>1, <2>2, DeltaSent
  <2>4. Sound(v)
    BY <1>6, <2>1, <2>2, DeltaSent
  <2>5. InputAdded(w, v, i, data)
    BY <1>6, <2>1, <2>2, DeltaSent
  <2> QED BY <2>3, <2>4, <2>5 DEF InputAdded
<1>8. KeepsOthers(w, v, c)
  <2> SUFFICES ASSUME NEW d \in Calls, d # c, w.calls[d].block >= 0
               PROVE  v.client.input[w.calls[d].block + 1] = w.client.input[w.calls[d].block + 1]
    BY <1>4 DEF KeepsOthers, KeepsCall
  <2>1. w.calls[d].block # i
    BY <1>2, <1>3 DEF Layout
  <2> QED BY <1>7, <2>1 DEF InputKeptBut
<1> QED BY <1>1, <1>3, <1>4, <1>7, <1>8

\* Columns of a call's row.
WithBuffer(w, c, b) == [w EXCEPT !.calls[c].buffer = b]

LEMMA BufferSet ==
  ASSUME NEW w, Sound(w), NEW c \in Calls, NEW b \in Seq(Int), Started(w, c)
  PROVE  LET v == WithBuffer(w, c, b)
         IN  /\ Sound(v) /\ v.sse = w.sse /\ v.client = w.client /\ KeepsOthers(w, v, c)
             /\ v.calls[c].buffer = b /\ v.calls[c].name = w.calls[c].name
             /\ v.calls[c].block = w.calls[c].block /\ v.calls[c].emitted = w.calls[c].emitted
<1>1. PICK v : v = WithBuffer(w, c, b)
  OBVIOUS
<1>2. PICK k : k = w.calls[c]
  OBVIOUS
<1>3. PICK row : row = [k EXCEPT !.buffer = b]
  OBVIOUS
<1>4. PICK calls : calls = [w.calls EXCEPT ![c] = row]
  OBVIOUS
<1>5. IsWork(w) /\ k \in Call /\ k.block >= 0
  BY <1>2 DEF Sound, IsWork, Layout, Started
<1>6. row \in Call /\ row.block = k.block /\ row.buffer = b /\ row.name = k.name /\ row.emitted = k.emitted
  BY <1>3, <1>5 DEF Call
<1>7. v = [sse |-> w.sse, calls |-> calls, client |-> w.client]
  BY <1>1, <1>2, <1>3, <1>4, <1>5, WithCalls DEF IsWork, WithBuffer
<1>8. IsWork(v) /\ v.sse = w.sse /\ v.client = w.client /\ RowPut(v.calls, w.calls, c, row)
  BY <1>4, <1>7 DEF IsWork, RowPut
<1>9. row \in Call /\ row.block = w.calls[c].block /\ (row.buffer # <<>> => row.block >= 0)
  BY <1>2, <1>5, <1>6
<1>10. Sound(v) /\ v.calls[c] = row /\ KeepsOthers(w, v, c)
  BY <1>8, <1>9, RowChanged
<1> QED BY <1>1, <1>2, <1>6, <1>8, <1>10

LEMMA EmittedSet ==
  ASSUME NEW w, Sound(w), NEW c \in Calls, Started(w, c)
  PROVE  LET v == [w EXCEPT !.calls[c].emitted = TRUE]
         IN  /\ Sound(v) /\ v.sse = w.sse /\ v.client = w.client /\ KeepsOthers(w, v, c)
             /\ v.calls[c].buffer = w.calls[c].buffer /\ v.calls[c].name = w.calls[c].name
             /\ v.calls[c].block = w.calls[c].block /\ v.calls[c].emitted = TRUE
<1>1. PICK v : v = [w EXCEPT !.calls[c].emitted = TRUE]
  OBVIOUS
<1>2. PICK k : k = w.calls[c]
  OBVIOUS
<1>3. PICK row : row = [k EXCEPT !.emitted = TRUE]
  OBVIOUS
<1>4. PICK calls : calls = [w.calls EXCEPT ![c] = row]
  OBVIOUS
<1>5. IsWork(w) /\ k \in Call /\ k.block >= 0
  BY <1>2 DEF Sound, IsWork, Layout, Started
<1>6. row \in Call /\ row.block = k.block /\ row.buffer = k.buffer /\ row.name = k.name /\ row.emitted = TRUE
  BY <1>3, <1>5 DEF Call
<1>7. v = [sse |-> w.sse, calls |-> calls, client |-> w.client]
  BY <1>1, <1>2, <1>3, <1>4, <1>5, WithCalls DEF IsWork
<1>8. IsWork(v) /\ v.sse = w.sse /\ v.client = w.client /\ RowPut(v.calls, w.calls, c, row)
  BY <1>4, <1>7 DEF IsWork, RowPut
<1>9. row \in Call /\ row.block = w.calls[c].block /\ (row.buffer # <<>> => row.block >= 0)
  BY <1>2, <1>5, <1>6
<1>10. Sound(v) /\ v.calls[c] = row /\ KeepsOthers(w, v, c)
  BY <1>8, <1>9, RowChanged
<1> QED BY <1>1, <1>2, <1>6, <1>8, <1>10

\* What a call that was announced by its full name has for its first n fragments.
Delivered(plan, w, c, n) ==
  LET row == w.calls[c]
      read == w.client.input[row.block + 1]
  IN  /\ row.name = "full" /\ row.block >= 0
      /\ plan[c].tool = "plain" => row.buffer = <<>> /\ read = Sent(n)
      /\ plan[c].tool = "Task" => row.emitted = Whole(plan, c, n)
      /\ plan[c].tool # "plain" /\ Whole(plan, c, n) =>
           /\ row.buffer = <<>>
           /\ read = IF plan[c].tool = "Task" THEN NormalizedJson ELSE RestoredJson
      /\ plan[c].tool # "plain" /\ ~Whole(plan, c, n) => row.buffer = Sent(n) /\ read = <<>>

\* _emit_tool_arg_delta, whatever the call and the fragments are.
LEMMA EmitArgumentSound ==
  ASSUME NEW w, Sound(w), NEW c \in Calls, Started(w, c), NEW fragments \in Seq(Int)
  PROVE  LET v == EmitArgument(w, c, fragments)
         IN  /\ Sound(v) /\ v.sse = w.sse /\ KeepsOthers(w, v, c)
             /\ v.calls[c].block = w.calls[c].block /\ v.calls[c].name = w.calls[c].name
<1>1. PICK v : v = EmitArgument(w, c, fragments)
  OBVIOUS
<1>2. PICK b : b = w.calls[c].buffer \o fragments
  OBVIOUS
<1>3. PICK kept : kept = WithBuffer(w, c, b)
  OBVIOUS
<1>4. PICK taken : taken = WithBuffer(w, c, <<>>)
  OBVIOUS
<1>5. PICK told : told = [taken EXCEPT !.calls[c].emitted = TRUE]
  OBVIOUS
<1>6. \/ v = w \/ v = kept \/ v = ToolInput(told, c, NormalizedJson)
      \/ v = ToolInput(taken, c, RestoredJson) \/ v = ToolInput(w, c, fragments)
  BY <1>1, <1>2, <1>3, <1>4, <1>5 DEF EmitArgument, WithBuffer
<1>7. b \in Seq(Int) /\ <<>> \in Seq(Int) /\ NormalizedJson \in Seq(Int) /\ RestoredJson \in Seq(Int)
  <2>1. w.calls[c].buffer \in Seq(Int)
    BY DEF Sound, Layout, Call
  <2> QED BY <1>2, <2>1 DEF NormalizedJson, RestoredJson
<1>8. /\ Sound(kept) /\ kept.sse = w.sse /\ kept.client = w.client /\ KeepsOthers(w, kept, c)
      /\ kept.calls[c].name = w.calls[c].name /\ kept.calls[c].block = w.calls[c].block
  BY <1>3, <1>7, BufferSet
<1>9. /\ Sound(taken) /\ taken.sse = w.sse /\ taken.client = w.client /\ KeepsOthers(w, taken, c)
      /\ taken.calls[c].name = w.calls[c].name /\ taken.calls[c].block = w.calls[c].block
  <2>1. PICK nothing : nothing = <<>>
    OBVIOUS
  <2>2. taken = WithBuffer(w, c, nothing) /\ nothing \in Seq(Int)
    BY <1>4, <1>7, <2>1
  <2> QED BY <2>2, BufferSet
<1>10. Started(taken, c)
  BY <1>9 DEF Started
<1>11. /\ Sound(told) /\ told.sse = w.sse /\ KeepsOthers(w, told, c)
       /\ told.calls[c].name = w.calls[c].name /\ told.calls[c].block = w.calls[c].block
  <2>1. /\ Sound(told) /\ told.sse = taken.sse /\ KeepsOthers(taken, told, c)
        /\ told.calls[c].name = taken.calls[c].name /\ told.calls[c].block = taken.calls[c].block
    BY <1>5, <1>9, <1>10, EmittedSet
  <2>2. KeepsOthers(w, told, c)
    BY <1>9, <2>1, KeepsOthersOn
  <2> QED BY <1>9, <2>1, <2>2
<1>12. Started(told, c)
  BY <1>11 DEF Started
<1>13. ASSUME NEW u, Sound(u), u.sse = w.sse, KeepsOthers(w, u, c), Started(u, c), u.calls[c].name = w.calls[c].name,
              u.calls[c].block = w.calls[c].block, NEW data \in Seq(Int), v = ToolInput(u, c, data)
       PROVE  /\ Sound(v) /\ v.sse = w.sse /\ KeepsOthers(w, v, c)
              /\ v.calls[c].block = w.calls[c].block /\ v.calls[c].name = w.calls[c].name
  <2>1. Sound(v) /\ v.sse = u.sse /\ v.calls = u.calls /\ KeepsOthers(u, v, c)
    BY <1>13, ToolInputSound
  <2>2. KeepsOthers(w, v, c)
    BY <1>13, <2>1, KeepsOthersOn
  <2> QED BY <1>13, <2>1, <2>2
<1>14. KeepsOthers(w, w, c)
  BY DEF KeepsOthers, KeepsCall
<1> HIDE DEF NormalizedJson, RestoredJson
<1>15. CASE v = w
  BY <1>1, <1>14, <1>15
<1>16. CASE v = kept
  BY <1>1, <1>8, <1>16
<1>17. CASE v = ToolInput(told, c, NormalizedJson)
  BY <1>1, <1>7, <1>11, <1>12, <1>13, <1>17
<1>18. CASE v = ToolInput(taken, c, RestoredJson)
  BY <1>1, <1>7, <1>9, <1>10, <1>13, <1>18
<1>19. CASE v = ToolInput(w, c, fragments)
  BY <1>1, <1>13, <1>14, <1>19
<1> QED BY <1>6, <1>15, <1>16, <1>17, <1>18, <1>19

LEMMA NothingBefore ==
  ASSUME NEW data \in Seq(Int)
  PROVE  <<>> \o data = data
OBVIOUS

LEMMA RewrittenIsData == NormalizedJson \in Seq(Int) /\ RestoredJson \in Seq(Int) /\ EmptyObject \in Seq(Int)
<1>1. -1 \in Int /\ -2 \in Int /\ -3 \in Int
  OBVIOUS
<1> QED BY <1>1 DEF NormalizedJson, RestoredJson, EmptyObject

\* What EmitArgument does with the next fragments of a call whose name is known.
LEMMA EmitArgumentDelivers ==
  ASSUME NEW plan, plan = oMode.plan, PlanTyped(plan), NEW w, Sound(w), NEW c \in Calls, NEW a \in Nat, NEW n \in Nat,
         a + n <= plan[c].fragments, NEW more, more = More(a, n), Delivered(plan, w, c, a)
  PROVE  Delivered(plan, EmitArgument(w, c, more), c, a + n)
<1>1. PICK v : v = EmitArgument(w, c, more)
  OBVIOUS
<1>2. PICK tool : tool = plan[c].tool
  OBVIOUS
<1>3. tool \in {"plain", "Task", "aliased"} /\ plan[c].fragments \in Nat
  BY <1>2 DEF PlanTyped
<1>4. Started(w, c) /\ w.calls[c].name = "full" /\ w.calls[c].block >= 0
  BY DEF Delivered, Started
<1>5. ToolOf(w, c) = tool
  BY <1>2, <1>4 DEF ToolOf
<1>6. /\ more \in Seq(Int) /\ Sent(a) \in Seq(Int) /\ Sent(a + n) \in Seq(Int) /\ a + n \in Nat
      /\ Sent(a) \o more = Sent(a + n) /\ (more = <<>> <=> n = 0)
  BY SentGrows
<1>7. <<>> \in Seq(Int) /\ NormalizedJson \in Seq(Int) /\ RestoredJson \in Seq(Int)
  BY RewrittenIsData
<1>8. CASE n = 0
  <2>1. v = w
    BY <1>1, <1>6, <1>8 DEF EmitArgument, WithBuffer
  <2>2. a + n = a
    BY <1>8
  <2> QED BY <1>1, <2>1, <2>2
<1>9. CASE n # 0 /\ tool = "plain"
  <2>1. v = ToolInput(w, c, more)
    BY <1>1, <1>5, <1>6, <1>9 DEF EmitArgument, WithBuffer
  <2>2. /\ v.calls = w.calls
        /\ v.client.input[w.calls[c].block + 1] = w.client.input[w.calls[c].block + 1] \o more
    BY <1>4, <1>6, <2>1, ToolInputSound
  <2>3. w.calls[c].buffer = <<>> /\ w.client.input[w.calls[c].block + 1] = Sent(a)
    BY <1>2, <1>9 DEF Delivered
  <2>4. v.client.input[w.calls[c].block + 1] = Sent(a + n)
    BY <1>6, <2>2, <2>3
  <2> QED BY <1>1, <1>2, <1>4, <1>9, <2>2, <2>3, <2>4 DEF Delivered
<1>10. ASSUME n # 0, tool # "plain" PROVE Delivered(plan, v, c, a + n)
  <2>1. ~Whole(plan, c, a) /\ a + n > 0
    BY <1>3, <1>10 DEF Whole
  <2>2. w.calls[c].buffer = Sent(a) /\ w.client.input[w.calls[c].block + 1] = <<>>
    BY <1>2, <1>10, <2>1 DEF Delivered
  <2>3. tool = "Task" => w.calls[c].emitted = FALSE
    BY <1>2, <2>1 DEF Delivered
  <2>4. PICK b : b = w.calls[c].buffer \o more
    OBVIOUS
  <2>5. b = Sent(a + n) /\ b \in Seq(Int)
    BY <1>6, <2>2, <2>4
  <2>6. IsJson(c, b) <=> Whole(plan, c, a + n)
    BY <1>6, <2>1, <2>5, JsonIsWhole
  <2>7. PICK taken : taken = WithBuffer(w, c, <<>>)
    OBVIOUS
  <2>8. /\ Sound(taken) /\ taken.sse = w.sse /\ taken.client = w.client /\ taken.calls[c].buffer = <<>>
        /\ taken.calls[c].name = w.calls[c].name /\ taken.calls[c].block = w.calls[c].block
    <3>1. PICK nothing : nothing = <<>>
      OBVIOUS
    <3>2. taken = WithBuffer(w, c, nothing) /\ nothing \in Seq(Int)
      BY <1>7, <2>7, <3>1
    <3>3. /\ Sound(taken) /\ taken.sse = w.sse /\ taken.client = w.client /\ taken.calls[c].buffer = nothing
          /\ taken.calls[c].name = w.calls[c].name /\ taken.calls[c].block = w.calls[c].block
      BY <1>4, <3>2, BufferSet
    <3> QED BY <3>1, <3>3
  <2>9. Started(taken, c)
    BY <1>4, <2>8 DEF Started
  <2>10. CASE ~Whole(plan, c, a + n)
    <3>1. v = WithBuffer(w, c, b)
      BY <1>1, <1>3, <1>5, <1>6, <1>10, <2>3, <2>4, <2>6, <2>10 DEF EmitArgument, WithBuffer
    <3>2. /\ v.client = w.client /\ v.calls[c].buffer = b /\ v.calls[c].name = w.calls[c].name
          /\ v.calls[c].block = w.calls[c].block /\ v.calls[c].emitted = w.calls[c].emitted
      BY <1>4, <2>5, <3>1, BufferSet
    <3>3. Whole(plan, c, a + n) = FALSE
      BY <2>10 DEF Whole
    <3> QED BY <1>2, <1>4, <1>10, <2>2, <2>3, <2>5, <2>10, <3>2, <3>3 DEF Delivered
  <2>11. CASE Whole(plan, c, a + n) /\ tool = "Task"
    <3>1. PICK told : told = [taken EXCEPT !.calls[c].emitted = TRUE]
      OBVIOUS
    <3>2. /\ Sound(told) /\ told.client = taken.client /\ told.calls[c].buffer = taken.calls[c].buffer
          /\ told.calls[c].name = taken.calls[c].name /\ told.calls[c].block = taken.calls[c].block
          /\ told.calls[c].emitted = TRUE
      BY <2>8, <2>9, <3>1, EmittedSet
    <3>3. Started(told, c)
      BY <2>9, <3>2 DEF Started
    <3>4. v = ToolInput(told, c, NormalizedJson)
      BY <1>1, <1>5, <1>6, <1>10, <2>3, <2>4, <2>6, <2>7, <2>11, <3>1 DEF EmitArgument, WithBuffer
    <3>5. /\ v.calls = told.calls
          /\ v.client.input[told.calls[c].block + 1] = told.client.input[told.calls[c].block + 1] \o NormalizedJson
      BY <1>7, <3>2, <3>3, <3>4, ToolInputSound
    <3>6. v.client.input[w.calls[c].block + 1] = NormalizedJson
      <4>1. <<>> \o NormalizedJson = NormalizedJson
        BY <1>7, NothingBefore
      <4> QED BY <2>2, <2>8, <3>2, <3>5, <4>1
    <3>7. Whole(plan, c, a + n) = TRUE
      BY <2>11 DEF Whole
    <3> QED BY <1>2, <1>4, <2>8, <2>11, <3>2, <3>5, <3>6, <3>7 DEF Delivered
  <2>12. CASE Whole(plan, c, a + n) /\ tool = "aliased"
    <3>1. v = ToolInput(taken, c, RestoredJson)
      BY <1>1, <1>5, <1>6, <1>10, <2>4, <2>6, <2>7, <2>12 DEF EmitArgument, WithBuffer
    <3>2. /\ v.calls = taken.calls
          /\ v.client.input[taken.calls[c].block + 1] = taken.client.input[taken.calls[c].block + 1] \o RestoredJson
      BY <1>7, <2>8, <2>9, <3>1, ToolInputSound
    <3>3. v.client.input[w.calls[c].block + 1] = RestoredJson
      <4>1. <<>> \o RestoredJson = RestoredJson
        BY <1>7, NothingBefore
      <4> QED BY <2>2, <2>8, <3>2, <4>1
    <3> QED BY <1>2, <1>4, <2>8, <2>12, <3>2, <3>3 DEF Delivered
  <2> QED BY <1>3, <1>10, <2>10, <2>11, <2>12
<1> QED BY <1>1, <1>8, <1>9, <1>10

\* The block of a call starts, with nothing in it.
LEMMA BlockOfCall ==
  ASSUME NEW w, Sound(w), NEW c \in Calls, ~Started(w, c),
         NEW s, s = StartToolBlock(w, c)
  PROVE  /\ Sound(s) /\ KeepsOthers(w, s, c) /\ s.sse.next = w.sse.next + 1 /\ Started(s, c)
         /\ s.calls[c].name = w.calls[c].name /\ s.calls[c].buffer = <<>>
         /\ s.calls[c].emitted = w.calls[c].emitted
         /\ s.client.input[s.calls[c].block + 1] = <<>>
<1>1. /\ IsWork(w) /\ Layout(w.sse, w.calls) /\ w.sse \in Sse /\ w.calls \in [Calls -> Call] /\ w.sse.next \in Nat
      /\ Reads(w.client, w.sse.next, OpenOf(w.sse, w.calls))
  BY DEF Sound, IsWork, Layout, Sse
<1>2. PICK sse : sse = w.sse
  OBVIOUS
<1>3. PICK k : k = w.calls[c]
  OBVIOUS
<1>4. PICK new : new = [sse EXCEPT !.next = sse.next + 1]
  OBVIOUS
<1>5. PICK row : row = [k EXCEPT !.block = sse.next, !.pre = <<>>]
  OBVIOUS
<1>6. PICK calls : calls = [w.calls EXCEPT ![c] = row]
  OBVIOUS
<1>7. [w EXCEPT !.calls[c].block = w.sse.next, !.sse.next = @ + 1, !.calls[c].pre = <<>>]
        = [sse |-> new, calls |-> calls, client |-> w.client]
  <2>1. PICK first : first = [k EXCEPT !.block = sse.next]
    OBVIOUS
  <2>2. PICK a : a = [w EXCEPT !.calls[c].block = w.sse.next]
    OBVIOUS
  <2>3. PICK firsts : firsts = [w.calls EXCEPT ![c] = first]
    OBVIOUS
  <2>4. a = [sse |-> sse, calls |-> firsts, client |-> w.client]
    BY <1>1, <1>2, <1>3, <2>1, <2>2, <2>3, WithCalls DEF IsWork
  <2>5. IsWork(a) /\ a.sse = sse /\ a.calls = firsts /\ a.client = w.client
    BY <2>4 DEF IsWork
  <2>6. PICK b : b = [a EXCEPT !.sse.next = @ + 1]
    OBVIOUS
  <2>7. b = [sse |-> new, calls |-> firsts, client |-> w.client]
    BY <1>4, <2>5, <2>6, WithSse
  <2>8. IsWork(b) /\ b.sse = new /\ b.calls = firsts /\ b.client = w.client
    BY <2>7 DEF IsWork
  <2>9. firsts[c] = first /\ [first EXCEPT !.pre = <<>>] = row
    BY <1>1, <1>5, <2>1, <2>3
  <2>10. [firsts EXCEPT ![c] = row] = calls
    BY <1>1, <1>6, <2>3
  <2>11. [b EXCEPT !.calls[c].pre = <<>>] = [sse |-> new, calls |-> calls, client |-> w.client]
    BY <2>8, <2>9, <2>10, WithCalls
  <2>12. [w EXCEPT !.calls[c].block = w.sse.next, !.sse.next = @ + 1, !.calls[c].pre = <<>>]
           = [b EXCEPT !.calls[c].pre = <<>>]
    BY <2>2, <2>6
  <2> QED BY <2>11, <2>12
<1>8. s = [sse |-> new, calls |-> calls, client |-> Accept(w.client, BlockStart(w.sse.next, "tool_use"))]
  BY <1>7, Emitted DEF StartToolBlock
<1>9. /\ row \in Call /\ row.block = w.sse.next /\ row.name = k.name /\ row.emitted = k.emitted /\ row.buffer = k.buffer
  <2>1. k \in Call /\ <<>> \in Seq(Int)
    BY <1>1, <1>3
  <2>2. PICK first : first = [k EXCEPT !.block = sse.next]
    OBVIOUS
  <2>3. /\ first \in Call /\ first.block = w.sse.next /\ first.name = k.name /\ first.emitted = k.emitted
        /\ first.buffer = k.buffer
    <3>1. sse.next \in Int /\ sse.next = w.sse.next
      BY <1>1, <1>2
    <3> QED BY <2>1, <2>2, <3>1 DEF Call
  <2>4. row = [first EXCEPT !.pre = <<>>]
    BY <1>5, <2>2
  <2> QED BY <2>1, <2>3, <2>4 DEF Call
<1>10. k.buffer = <<>> /\ k.block < 0
  <2>1. k.block \in Int
    BY <1>1, <1>3 DEF Call
  <2> QED BY <1>1, <1>3, <2>1 DEF Layout, Started
<1>11. /\ new \in Sse /\ new.next = w.sse.next + 1 /\ new.thinking = w.sse.thinking /\ new.text = w.sse.text
       /\ new.thinkingOpen = w.sse.thinkingOpen /\ new.textOpen = w.sse.textOpen
  BY <1>1, <1>2, <1>4 DEF Sse
<1>12. calls \in [Calls -> Call] /\ calls[c] = row /\ \A d \in Calls : d # c => calls[d] = w.calls[d]
  BY <1>1, <1>6, <1>9
<1>13. \A d \in Calls : w.calls[d].block \in Int /\ (w.calls[d].block >= 0 => w.calls[d].block < w.sse.next)
  <2> SUFFICES ASSUME NEW d \in Calls PROVE w.calls[d].block \in Int /\ (w.calls[d].block >= 0 => w.calls[d].block < w.sse.next)
    OBVIOUS
  <2>1. w.calls[d].block \in Int
    BY <1>1 DEF Call
  <2>2. ASSUME w.calls[d].block >= 0 PROVE w.calls[d].block < w.sse.next
    <3>1. w.calls[d].block \in 0..(w.sse.next - 1)
      BY <2>2, ToolBlockRead
    <3> QED BY <1>1, <3>1
  <2> QED BY <2>1, <2>2
<1>14. Layout(new, calls)
  <2>1. \A d, e \in Calls : calls[d].block >= 0 /\ calls[d].block = calls[e].block => d = e
    BY <1>1, <1>9, <1>12, <1>13 DEF Layout
  <2>2. \A d \in Calls : calls[d].buffer # <<>> => calls[d].block >= 0
    BY <1>1, <1>3, <1>9, <1>10, <1>12 DEF Layout
  <2> QED BY <1>1, <1>11, <1>12, <2>1, <2>2 DEF Layout
<1>15. OpenOf(new, calls) = OpenOf(w.sse, w.calls) \cup {<<w.sse.next, "tool_use">>}
  <2>1. ThinkingBlock(new) = ThinkingBlock(w.sse) /\ TextBlock(new) = TextBlock(w.sse)
    BY <1>11 DEF ThinkingBlock, TextBlock
  <2>2. {d \in Calls : calls[d].block >= 0} = {d \in Calls : w.calls[d].block >= 0} \cup {c}
    BY <1>1, <1>9, <1>12
  <2>3. ToolBlocks(calls) = ToolBlocks(w.calls) \cup {<<w.sse.next, "tool_use">>}
    <3>1. calls[c].block = w.sse.next /\ w.calls[c].block < 0
      BY <1>3, <1>9, <1>10, <1>12
    <3>2. \A d \in Calls : w.calls[d].block >= 0 => d # c /\ calls[d].block = w.calls[d].block
      <4>1. ~(w.calls[c].block >= 0)
        BY <1>3, <1>10, <1>13
      <4> QED BY <1>12, <4>1
    <3>3. PICK old : old = {d \in Calls : w.calls[d].block >= 0}
      OBVIOUS
    <3>4. {<<calls[d].block, "tool_use">> : d \in old \cup {c}}
            = {<<w.calls[d].block, "tool_use">> : d \in old} \cup {<<w.sse.next, "tool_use">>}
      BY <3>1, <3>2, <3>3
    <3> QED BY <2>2, <3>3, <3>4 DEF ToolBlocks
  <2> QED BY <2>1, <2>3 DEF OpenOf
<1>16. IsWork(s) /\ s.sse = new /\ s.calls = calls /\ s.client = Accept(w.client, BlockStart(w.sse.next, "tool_use"))
  BY <1>8 DEF IsWork
<1>17. Sound(s) /\ s.client.input = Append(w.client.input, <<>>) /\ InputKept(w, s)
  <2>1. /\ Sound(w) /\ "tool_use" \in Kinds /\ Layout(s.sse, s.calls) /\ s.sse.next = w.sse.next + 1
        /\ OpenOf(s.sse, s.calls) = OpenOf(w.sse, w.calls) \cup {<<w.sse.next, "tool_use">>}
    BY <1>11, <1>14, <1>15, <1>16 DEF Kinds
  <2> QED BY <1>16, <2>1, BlockOpened
<1>18. s.client.input[w.sse.next + 1] = <<>>
  <2>1. PICK input : input = w.client.input
    OBVIOUS
  <2>2. input \in Seq(Seq(Int)) /\ Len(input) = w.sse.next
    BY <1>1, <2>1 DEF Reads, Client
  <2>3. Append(input, <<>>)[Len(input) + 1] = <<>>
    BY <2>2
  <2> QED BY <1>17, <2>1, <2>2, <2>3
<1>19. KeepsOthers(w, s, c)
  BY <1>12, <1>16, <1>17 DEF KeepsOthers, KeepsCall, InputKept
<1>20. Started(s, c)
  BY <1>1, <1>9, <1>12, <1>16 DEF Started
<1> QED BY <1>3, <1>9, <1>10, <1>11, <1>12, <1>16, <1>17, <1>18, <1>19, <1>20

WithName(w, c, word) == [w EXCEPT !.calls[c].name = word]
WithPre(w, c, pre) == [w EXCEPT !.calls[c].pre = pre]

LEMMA NameSet ==
  ASSUME NEW w, Sound(w), NEW c \in Calls, NEW word \in CallNames
  PROVE  LET v == WithName(w, c, word)
         IN  /\ Sound(v) /\ v.sse = w.sse /\ v.client = w.client /\ KeepsOthers(w, v, c)
             /\ v.calls[c].buffer = w.calls[c].buffer /\ v.calls[c].name = word
             /\ v.calls[c].block = w.calls[c].block /\ v.calls[c].emitted = w.calls[c].emitted
             /\ v.calls[c].pre = w.calls[c].pre
<1>1. PICK v : v = WithName(w, c, word)
  OBVIOUS
<1>2. PICK k : k = w.calls[c]
  OBVIOUS
<1>3. PICK row : row = [k EXCEPT !.name = word]
  OBVIOUS
<1>4. PICK calls : calls = [w.calls EXCEPT ![c] = row]
  OBVIOUS
<1>5. IsWork(w) /\ k \in Call /\ (k.buffer # <<>> => k.block >= 0)
  BY <1>2 DEF Sound, IsWork, Layout
<1>6. row \in Call /\ row.block = k.block /\ row.buffer = k.buffer /\ row.name = word /\ row.emitted = k.emitted /\ row.pre = k.pre
  BY <1>3, <1>5 DEF Call
<1>7. v = [sse |-> w.sse, calls |-> calls, client |-> w.client]
  BY <1>1, <1>2, <1>3, <1>4, <1>5, WithCalls DEF IsWork, WithName
<1>8. IsWork(v) /\ v.sse = w.sse /\ v.client = w.client /\ RowPut(v.calls, w.calls, c, row)
  BY <1>4, <1>7 DEF IsWork, RowPut
<1>9. row \in Call /\ row.block = w.calls[c].block /\ (row.buffer # <<>> => row.block >= 0)
  BY <1>2, <1>5, <1>6
<1>10. Sound(v) /\ v.calls[c] = row /\ KeepsOthers(w, v, c)
  BY <1>8, <1>9, RowChanged
<1> QED BY <1>1, <1>2, <1>6, <1>8, <1>10

LEMMA PreSet ==
  ASSUME NEW w, Sound(w), NEW c \in Calls, NEW pre \in Seq(Int)
  PROVE  LET v == WithPre(w, c, pre)
         IN  /\ Sound(v) /\ v.sse = w.sse /\ v.client = w.client /\ KeepsOthers(w, v, c)
             /\ v.calls[c].name = w.calls[c].name
             /\ v.calls[c].block = w.calls[c].block /\ v.calls[c].emitted = w.calls[c].emitted
             /\ v.calls[c].pre = pre
<1>1. PICK v : v = WithPre(w, c, pre)
  OBVIOUS
<1>2. PICK k : k = w.calls[c]
  OBVIOUS
<1>3. PICK row : row = [k EXCEPT !.pre = pre]
  OBVIOUS
<1>4. PICK calls : calls = [w.calls EXCEPT ![c] = row]
  OBVIOUS
<1>5. IsWork(w) /\ k \in Call /\ (k.buffer # <<>> => k.block >= 0)
  BY <1>2 DEF Sound, IsWork, Layout
<1>6. row \in Call /\ row.block = k.block /\ row.buffer = k.buffer /\ row.name = k.name /\ row.emitted = k.emitted /\ row.pre = pre
  BY <1>3, <1>5 DEF Call
<1>7. v = [sse |-> w.sse, calls |-> calls, client |-> w.client]
  BY <1>1, <1>2, <1>3, <1>4, <1>5, WithCalls DEF IsWork, WithPre
<1>8. IsWork(v) /\ v.sse = w.sse /\ v.client = w.client /\ RowPut(v.calls, w.calls, c, row)
  BY <1>4, <1>7 DEF IsWork, RowPut
<1>9. row \in Call /\ row.block = w.calls[c].block /\ (row.buffer # <<>> => row.block >= 0)
  BY <1>2, <1>5, <1>6
<1>10. Sound(v) /\ v.calls[c] = row /\ KeepsOthers(w, v, c)
  BY <1>8, <1>9, RowChanged
<1> QED BY <1>1, <1>2, <1>6, <1>8, <1>10

\* A call of which the first n fragments came: until its name is known they are kept
\* back, and from told on they are delivered.
CallSound(plan, w, c, n, began) ==
  /\ began = "none" <=> ~Started(w, c)
  /\ ~Started(w, c) => /\ w.calls[c].name = "none" /\ w.calls[c].pre = Sent(n)
                       /\ w.calls[c].emitted = FALSE
  /\ began = "full" => Delivered(plan, w, c, n)

\* A kept call stays sound.
LEMMA CallSoundKept ==
  ASSUME NEW plan, NEW w, NEW v, NEW c \in Calls, NEW n, NEW began, KeepsCall(w, v, c), CallSound(plan, w, c, n, began)
  PROVE  CallSound(plan, v, c, n, began)
BY DEF KeepsCall, CallSound, Started, Delivered

\* A block with nothing in it has delivered no fragment.
LEMMA NothingDelivered ==
  ASSUME NEW plan, PlanTyped(plan), NEW w, NEW c \in Calls, Started(w, c),
         w.calls[c].name = "full", w.calls[c].buffer = <<>>, w.calls[c].emitted = FALSE,
         w.client.input[w.calls[c].block + 1] = <<>>
  PROVE  Delivered(plan, w, c, 0)
<1>1. Sent(0) = <<>>
  BY DEF Sent
<1>2. Whole(plan, c, 0) = FALSE
  BY DEF Whole
<1> QED BY <1>1, <1>2 DEF Delivered, Started

\* start_tool_block and the arguments that came before it.
LEMMA StartToolSound ==
  ASSUME NEW plan, plan = oMode.plan, PlanTyped(plan), NEW w, Sound(w), NEW c \in Calls, ~Started(w, c),
         NEW n \in Nat, n <= plan[c].fragments, w.calls[c].pre = Sent(n), w.calls[c].emitted = FALSE
  PROVE  LET v == StartTool(w, c)
         IN  /\ Sound(v) /\ KeepsOthers(w, v, c) /\ Started(v, c) /\ v.calls[c].name = w.calls[c].name
             /\ w.calls[c].name = "full" => Delivered(plan, v, c, n)
<1>1. PICK s : s = StartToolBlock(w, c)
  OBVIOUS
<1>2. PICK v : v = StartTool(w, c)
  OBVIOUS
<1>3. PICK pre : pre = Sent(n)
  OBVIOUS
<1>4. v = EmitArgument(s, c, pre)
  BY <1>1, <1>2, <1>3 DEF StartTool
<1>5. /\ Sound(s) /\ KeepsOthers(w, s, c) /\ Started(s, c)
      /\ s.calls[c].name = w.calls[c].name /\ s.calls[c].buffer = <<>>
      /\ s.calls[c].emitted = FALSE
      /\ s.client.input[s.calls[c].block + 1] = <<>>
  BY <1>1, BlockOfCall
<1>6. pre = More(0, n) /\ pre \in Seq(Int)
  <2>1. pre = More(0, n)
    BY <1>3 DEF Sent, More
  <2> QED BY <2>1, SentGrows
<1>7. /\ Sound(v) /\ v.sse = s.sse /\ KeepsOthers(s, v, c)
      /\ v.calls[c].block = s.calls[c].block /\ v.calls[c].name = s.calls[c].name
  BY <1>4, <1>5, <1>6, EmitArgumentSound
<1>8. Started(v, c) /\ KeepsOthers(w, v, c)
  <2>1. KeepsOthers(w, v, c)
    BY <1>5, <1>7, KeepsOthersOn
  <2> QED BY <1>5, <1>7, <2>1 DEF Started
<1>9. ASSUME w.calls[c].name = "full" PROVE Delivered(plan, v, c, n)
  <2>1. Delivered(plan, s, c, 0)
    BY <1>5, <1>9, NothingDelivered
  <2>2. 0 + n = n /\ 0 \in Nat /\ 0 + n <= plan[c].fragments
    OBVIOUS
  <2>3. Delivered(plan, v, c, 0 + n)
    BY <1>4, <1>5, <1>6, <2>1, <2>2, EmitArgumentDelivers
  <2> QED BY <2>2, <2>3
<1> QED BY <1>2, <1>5, <1>7, <1>8, <1>9

\* The name a call is announced by, once it is.
Announced(w, c, began) == IF Started(w, c) /\ began = "none" THEN w.calls[c].name ELSE began

\* _process_tool_call
LEMMA ProcessToolCallSound ==
  ASSUME NEW plan, plan = oMode.plan, PlanTyped(plan), NEW w, Sound(w), NEW c \in Calls,
         NEW a \in Nat, NEW n \in Nat, a + n <= plan[c].fragments, NEW more, more = More(a, n),
         NEW began, CallSound(plan, w, c, a, began), NEW word, Merged(w.calls[c].name, word) \in CallNames,
         NEW told, told = Announced(ProcessToolCall(w, c, word, more), c, began)
  PROVE  LET v == ProcessToolCall(w, c, word, more)
         IN  Sound(v) /\ KeepsOthers(w, v, c) /\ CallSound(plan, v, c, a + n, told)
<1>1. PICK v : v = ProcessToolCall(w, c, word, more)
  OBVIOUS
<1>2. PICK known : known = Merged(w.calls[c].name, word)
  OBVIOUS
<1>3. PICK named : named = WithName(w, c, known)
  OBVIOUS
<1>4. /\ Sound(named) /\ named.sse = w.sse /\ named.client = w.client /\ KeepsOthers(w, named, c)
      /\ named.calls[c].buffer = w.calls[c].buffer /\ named.calls[c].name = known
      /\ named.calls[c].block = w.calls[c].block /\ named.calls[c].emitted = w.calls[c].emitted
      /\ named.calls[c].pre = w.calls[c].pre
  <2>1. Sound(w) /\ known \in CallNames
    BY <1>2
  <2> QED BY <1>3, <2>1, NameSet
<1>5. /\ more \in Seq(Int) /\ Sent(a) \in Seq(Int) /\ Sent(a + n) \in Seq(Int) /\ a + n \in Nat
      /\ Sent(a) \o more = Sent(a + n)
  BY SentGrows
<1>6. PICK ready : ready = IF ~Started(named, c) /\ known # "none" THEN StartTool(named, c) ELSE named
  OBVIOUS
<1>7. v = IF Started(ready, c) THEN EmitArgument(ready, c, more)
          ELSE WithPre(ready, c, ready.calls[c].pre \o more)
  <2>1. named = RegisterToolName(w, c, word)
    BY <1>2, <1>3 DEF WithName, RegisterToolName
  <2>2. ready = IF ~Started(named, c) /\ named.calls[c].name # "none" THEN StartTool(named, c) ELSE named
    BY <1>4, <1>6
  <2>3. KeepBack(ready, c, more) = WithPre(ready, c, ready.calls[c].pre \o more)
    BY DEF WithPre, KeepBack
  <2>4. v = IF Started(ready, c) THEN EmitArgument(ready, c, more) ELSE KeepBack(ready, c, more)
    BY <1>1, <2>1, <2>2 DEF ProcessToolCall
  <2> QED BY <2>3, <2>4
<1>8. Started(named, c) <=> Started(w, c)
  BY <1>4 DEF Started
<1>9. ASSUME Sound(ready), KeepsOthers(w, ready, c), Started(ready, c), ready.calls[c].name = known,
             told = "full" => Delivered(plan, ready, c, a), v.calls[c].name = known => told # "none"
      PROVE  Sound(v) /\ KeepsOthers(w, v, c) /\ CallSound(plan, v, c, a + n, told)
  <2>1. v = EmitArgument(ready, c, more)
    BY <1>7, <1>9
  <2>2. /\ Sound(v) /\ KeepsOthers(ready, v, c)
        /\ v.calls[c].block = ready.calls[c].block /\ v.calls[c].name = ready.calls[c].name
    BY <1>5, <1>9, <2>1, EmitArgumentSound
  <2>3. KeepsOthers(w, v, c)
    BY <1>9, <2>2, KeepsOthersOn
  <2>4. Started(v, c)
    BY <1>9, <2>2 DEF Started
  <2>5. ASSUME told = "full" PROVE Delivered(plan, v, c, a + n)
    BY <1>9, <2>1, <2>5, EmitArgumentDelivers
  <2> QED BY <1>9, <2>2, <2>3, <2>4, <2>5 DEF CallSound
<1>10. CASE Started(w, c)
  <2>1. ready = named /\ Started(ready, c) /\ began # "none"
    BY <1>6, <1>8, <1>10 DEF CallSound
  <2>2. told = began
    BY <2>1 DEF Announced
  <2>3. ASSUME began = "full" PROVE Delivered(plan, named, c, a)
    <3>1. Delivered(plan, w, c, a)
      BY <2>3 DEF CallSound
    <3>2. w.calls[c].name = "full"
      BY <3>1 DEF Delivered
    <3>3. known = "full"
      BY <1>2, <3>2 DEF Merged
    <3> QED BY <1>4, <3>1, <3>3 DEF Delivered
  <2> QED BY <1>1, <1>4, <1>9, <2>1, <2>2, <2>3
<1>11. CASE ~Started(w, c) /\ known # "none"
  <2>1. ready = StartTool(named, c) /\ ~Started(named, c) /\ began = "none"
    BY <1>6, <1>8, <1>11 DEF CallSound
  <2>2. named.calls[c].pre = Sent(a) /\ named.calls[c].emitted = FALSE
    BY <1>4, <1>11 DEF CallSound
  <2>3. a <= plan[c].fragments
    <3>1. PICK all : all = plan[c].fragments
      OBVIOUS
    <3>2. all \in Nat
      BY <3>1 DEF PlanTyped
    <3>3. a \in Nat /\ n \in Nat /\ a + n <= all
      BY <3>1
    <3>4. a <= all
      BY <3>2, <3>3
    <3> QED BY <3>1, <3>4
  <2>4. /\ Sound(ready) /\ KeepsOthers(named, ready, c) /\ Started(ready, c) /\ ready.calls[c].name = known
        /\ known = "full" => Delivered(plan, ready, c, a)
    BY <1>4, <2>1, <2>2, <2>3, StartToolSound
  <2>5. KeepsOthers(w, ready, c)
    BY <1>4, <2>4, KeepsOthersOn
  <2>6. v = EmitArgument(ready, c, more)
    BY <1>7, <2>4
  <2>7. v.calls[c].block = ready.calls[c].block /\ v.calls[c].name = known
    BY <1>5, <2>4, <2>6, EmitArgumentSound
  <2>8. told = known
    <3>1. Started(v, c)
      BY <2>4, <2>7 DEF Started
    <3> QED BY <1>1, <2>1, <2>7, <3>1 DEF Announced
  <2> QED BY <1>1, <1>9, <1>11, <2>4, <2>5, <2>8
<1>12. CASE ~Started(w, c) /\ known = "none"
  <2>1. ready = named /\ ~Started(ready, c)
    BY <1>6, <1>8, <1>12
  <2>2. PICK pre : pre = named.calls[c].pre \o more
    OBVIOUS
  <2>3. v = WithPre(named, c, pre)
    BY <1>7, <2>1, <2>2
  <2>4. named.calls[c].pre = Sent(a) /\ named.calls[c].emitted = FALSE /\ began = "none"
    BY <1>4, <1>12 DEF CallSound
  <2>5. pre = Sent(a + n) /\ pre \in Seq(Int)
    BY <1>5, <2>2, <2>4
  <2>6. /\ Sound(v) /\ KeepsOthers(named, v, c)
        /\ v.calls[c].name = known /\ v.calls[c].emitted = FALSE
        /\ v.calls[c].block = named.calls[c].block /\ v.calls[c].pre = pre
    <3>1. Sound(named) /\ pre \in Seq(Int)
      BY <1>4, <2>5
    <3>2. /\ Sound(v) /\ KeepsOthers(named, v, c)
          /\ v.calls[c].name = named.calls[c].name /\ v.calls[c].emitted = named.calls[c].emitted
          /\ v.calls[c].block = named.calls[c].block /\ v.calls[c].pre = pre
      BY <2>3, <3>1, PreSet
    <3> QED BY <1>4, <2>4, <3>2
  <2>7. KeepsOthers(w, v, c)
    BY <1>4, <2>6, KeepsOthersOn
  <2>8. ~Started(v, c)
    BY <2>1, <2>6 DEF Started
  <2>9. told = "none"
    BY <1>1, <2>4, <2>8 DEF Announced
  <2> QED BY <1>1, <1>12, <2>5, <2>6, <2>7, <2>8, <2>9 DEF CallSound
<1> QED BY <1>10, <1>11, <1>12

-----------------------------------------------------------------------------
(***************************************************************************)
(* The end of the stream.                                                  *)
(***************************************************************************)
\* What the client must have in the end for a call announced by its full name.
FinalInput(plan, c, n) ==
  IF plan[c].tool = "plain" \/ n = 0 THEN Sent(n)
  ELSE IF plan[c].tool = "Task" THEN IF Whole(plan, c, n) THEN NormalizedJson ELSE EmptyObject
  ELSE IF Whole(plan, c, n) THEN RestoredJson ELSE Sent(n)

Arrived(plan, w, c, n) == w.client.input[w.calls[c].block + 1] = FinalInput(plan, c, n)

\* flush_task_arg_buffers, for one call
LEMMA FlushCallSound ==
  ASSUME NEW plan, plan = oMode.plan, PlanTyped(plan), NEW w, Sound(w), NEW c \in Calls
  PROVE  LET v == FlushCall(w, c)
         IN  /\ Sound(v) /\ v.sse = w.sse /\ KeepsOthers(w, v, c)
             /\ v.calls[c].block = w.calls[c].block
             /\ \A n \in Nat : Delivered(plan, w, c, n) => Arrived(plan, v, c, n)
<1>1. PICK v : v = FlushCall(w, c)
  OBVIOUS
<1>2. PICK tool : tool = plan[c].tool
  OBVIOUS
<1>3. tool \in {"plain", "Task", "aliased"}
  BY <1>2 DEF PlanTyped
<1>4. CASE w.calls[c].buffer = <<>>
  <2>1. v = w
    BY <1>1, <1>4 DEF FlushCall
  <2>2. KeepsOthers(w, w, c)
    BY DEF KeepsOthers, KeepsCall
  <2>3. ASSUME NEW n \in Nat, Delivered(plan, w, c, n) PROVE Arrived(plan, w, c, n)
    <3>1. PICK sent : sent = Sent(n)
      OBVIOUS
    <3>2. Len(sent) = n
      BY <3>1 DEF Sent
    <3>3. CASE tool = "plain"
      BY <1>2, <2>3, <3>3 DEF Delivered, Arrived, FinalInput
    <3>4. CASE tool # "plain" /\ Whole(plan, c, n)
      BY <1>2, <1>3, <2>3, <3>4 DEF Delivered, Arrived, FinalInput, Whole
    <3>5. CASE tool # "plain" /\ ~Whole(plan, c, n)
      <4>1. sent = <<>> /\ w.client.input[w.calls[c].block + 1] = <<>>
        BY <1>2, <1>4, <2>3, <3>1, <3>5 DEF Delivered
      <4>2. n = 0
        BY <3>2, <4>1
      <4> QED BY <3>1, <4>1, <4>2 DEF Arrived, FinalInput
    <3> QED BY <3>3, <3>4, <3>5
  <2> QED BY <1>1, <2>1, <2>2, <2>3
<1>5. CASE w.calls[c].buffer # <<>>
  <2>1. PICK b : b = w.calls[c].buffer
    OBVIOUS
  <2>2. b \in Seq(Int) /\ <<>> \in Seq(Int) /\ Started(w, c)
    BY <1>5, <2>1 DEF Sound, Layout, Call, Started
  <2>3. PICK taken : taken = WithBuffer(w, c, <<>>)
    OBVIOUS
  <2>4. /\ Sound(taken) /\ taken.sse = w.sse /\ taken.client = w.client /\ KeepsOthers(w, taken, c)
        /\ taken.calls[c].name = w.calls[c].name /\ taken.calls[c].block = w.calls[c].block
    <3>1. PICK nothing : nothing = <<>>
      OBVIOUS
    <3>2. taken = WithBuffer(w, c, nothing) /\ nothing \in Seq(Int)
      BY <2>2, <2>3, <3>1
    <3> QED BY <2>2, <3>2, BufferSet
  <2>5. Started(taken, c)
    BY <2>2, <2>4 DEF Started
  <2>6. PICK told : told = [taken EXCEPT !.calls[c].emitted = TRUE]
    OBVIOUS
  <2>7. /\ Sound(told) /\ told.sse = taken.sse /\ told.client = taken.client /\ KeepsOthers(taken, told, c)
        /\ told.calls[c].name = taken.calls[c].name /\ told.calls[c].block = taken.calls[c].block
    BY <2>4, <2>5, <2>6, EmittedSet
  <2>8. Started(told, c)
    BY <2>5, <2>7 DEF Started
  <2>9. PICK data : data = IF ToolOf(w, c) = "Task" THEN EmptyObject ELSE b
    OBVIOUS
  <2>10. data \in Seq(Int)
    BY <2>2, <2>9, RewrittenIsData
  <2>11. v = ToolInput(told, c, data)
    BY <1>1, <1>5, <2>1, <2>3, <2>6, <2>9 DEF FlushCall, WithBuffer
  <2>12. /\ Sound(v) /\ v.sse = told.sse /\ v.calls = told.calls /\ KeepsOthers(told, v, c)
         /\ v.client.input[told.calls[c].block + 1] = told.client.input[told.calls[c].block + 1] \o data
    BY <2>7, <2>8, <2>10, <2>11, ToolInputSound
  <2>13. KeepsOthers(w, v, c)
    <3>1. KeepsOthers(w, told, c)
      BY <2>4, <2>7, KeepsOthersOn
    <3> QED BY <2>12, <3>1, KeepsOthersOn
  <2>14. PICK read : read = w.client.input[w.calls[c].block + 1]
    OBVIOUS
  <2>15. v.calls[c].block = w.calls[c].block /\ v.client.input[v.calls[c].block + 1] = read \o data
    BY <2>4, <2>7, <2>12, <2>14
  <2>16. ASSUME NEW n \in Nat, Delivered(plan, w, c, n) PROVE Arrived(plan, v, c, n)
    <3>1. tool # "plain" /\ ~Whole(plan, c, n) /\ b = Sent(n) /\ read = <<>> /\ w.calls[c].name = "full"
      BY <1>2, <1>5, <2>1, <2>14, <2>16 DEF Delivered
    <3>2. n # 0
      <4>1. Sent(0) = <<>>
        BY DEF Sent
      <4> QED BY <1>5, <2>1, <3>1, <4>1
    <3>3. data = IF tool = "Task" THEN EmptyObject ELSE b
      BY <1>2, <2>9, <3>1 DEF ToolOf
    <3>4. read \o data = data
      BY <2>10, <3>1, NothingBefore
    <3>5. FinalInput(plan, c, n) = data
      BY <1>2, <3>1, <3>2, <3>3 DEF FinalInput
    <3> QED BY <2>15, <3>4, <3>5 DEF Arrived
  <2> QED BY <1>1, <2>4, <2>7, <2>12, <2>13, <2>15, <2>16
<1> QED BY <1>4, <1>5

\* A set of naturals that is not empty has a least one.
LEMMA LeastIndex == ASSUME NEW T, T \subseteq Nat, T # {} PROVE \E x \in T : \A y \in T : x <= y
<1>1. PICK x \in T : \A y \in T : ~(<<y, x>> \in OpToRel(<, Nat))
  BY NatLessThanWellFounded, WFMin
<1>2. ASSUME NEW y \in T PROVE x <= y
  <2>1. <<y, x>> \in Nat \X Nat /\ ~(y < x)
    BY <1>1 DEF OpToRel
  <2> QED BY <2>1
<1> QED BY <1>2

\* The recursion of FlushCalls is a function on 0..NCalls.
FlushedUpTo(f, w, m) == f = [n \in 0..m |-> IF n = 0 THEN w ELSE FlushCall(f[n - 1], n - 1)]

LEMMA FlushedExists == ASSUME NEW w, NEW all \in Nat PROVE \E f : FlushedUpTo(f, w, all)
<1>1. PICK T : T = {m \in Nat : ~\E f : FlushedUpTo(f, w, m)}
  OBVIOUS
<1>2. SUFFICES ASSUME T # {} PROVE FALSE
  BY <1>1
<1>3. PICK m \in T : \A y \in T : m <= y
  BY <1>1, <1>2, LeastIndex
<1>4. CASE m = 0
  <2>1. PICK f : f = [n \in 0..0 |-> w]
    OBVIOUS
  <2>2. f = [n \in 0..0 |-> IF n = 0 THEN w ELSE FlushCall(f[n - 1], n - 1)]
    BY <2>1
  <2>3. FlushedUpTo(f, w, 0)
    BY <2>2 DEF FlushedUpTo
  <2> QED BY <1>1, <1>4, <2>3
<1>5. CASE m # 0
  <2>1. m \in Nat /\ m - 1 \in Nat /\ m - 1 \notin T
    BY <1>1, <1>3, <1>5
  <2>2. PICK g : FlushedUpTo(g, w, m - 1)
    BY <1>1, <2>1
  <2>3. PICK last : last = FlushCall(g[m - 1], m - 1)
    OBVIOUS
  <2>4. PICK f : f = [n \in 0..m |-> IF n = m THEN last ELSE g[n]]
    OBVIOUS
  <2>5. \A n \in 0..(m - 1) : g[n] = IF n = 0 THEN w ELSE FlushCall(g[n - 1], n - 1)
    BY <2>2 DEF FlushedUpTo
  <2>6. f[m] = last /\ \A n \in 0..(m - 1) : f[n] = g[n]
    BY <2>1, <2>4
  <2>7. ASSUME NEW n \in 0..m PROVE f[n] = IF n = 0 THEN w ELSE FlushCall(f[n - 1], n - 1)
    <3>1. n = m \/ n \in 0..(m - 1)
      BY <2>1
    <3>2. CASE n = 0
      BY <1>5, <2>5, <2>6, <3>1, <3>2
    <3>3. CASE n # 0
      <4>1. n - 1 \in 0..(m - 1)
        BY <2>1, <3>3
      <4>2. f[n - 1] = g[n - 1]
        BY <2>6, <4>1
      <4>3. CASE n = m
        BY <2>3, <2>6, <3>3, <4>2, <4>3
      <4>4. CASE n \in 0..(m - 1)
        BY <2>5, <2>6, <3>3, <4>2, <4>4
      <4> QED BY <3>1, <4>3, <4>4
    <3> QED BY <3>2, <3>3
  <2>8. f = [n \in 0..m |-> f[n]]
    BY <2>4
  <2>9. FlushedUpTo(f, w, m)
    BY <2>7, <2>8 DEF FlushedUpTo
  <2> QED BY <1>1, <1>3, <2>9
<1> QED BY <1>4, <1>5

\* After the calls before n were flushed: theirs have arrived, the others are as they were.
Flushed(plan, w, v, n, sent, began) ==
  /\ Sound(v) /\ v.sse = w.sse
  /\ \A c \in Calls : v.calls[c].block = w.calls[c].block
  /\ \A c \in Calls : c >= n => KeepsCall(w, v, c)
  /\ \A c \in Calls : c < n /\ began[c] = "full" => Arrived(plan, v, c, sent[c])

LEMMA FlushedStep ==
  ASSUME NEW plan, plan = oMode.plan, PlanTyped(plan), NEW w, NEW v, NEW n \in Calls,
         NEW sent \in [Calls -> Nat], NEW began, Flushed(plan, w, v, n, sent, began),
         \A c \in Calls : CallSound(plan, w, c, sent[c], began[c])
  PROVE  Flushed(plan, w, FlushCall(v, n), n + 1, sent, began)
<1>1. PICK u : u = FlushCall(v, n)
  OBVIOUS
<1>2. Sound(v) /\ v.sse = w.sse
  BY DEF Flushed
<1>3. /\ Sound(u) /\ u.sse = v.sse /\ KeepsOthers(v, u, n) /\ u.calls[n].block = v.calls[n].block
      /\ \A k \in Nat : Delivered(plan, v, n, k) => Arrived(plan, u, n, k)
  BY <1>1, <1>2, FlushCallSound
<1>4. \A c \in Calls : c \in Nat
  BY CallsAssumption
<1>5. ASSUME NEW c \in Calls PROVE u.calls[c].block = w.calls[c].block
  <2>1. v.calls[c].block = w.calls[c].block
    BY DEF Flushed
  <2>2. c # n => u.calls[c].block = v.calls[c].block
    BY <1>3 DEF KeepsOthers, KeepsCall
  <2> QED BY <1>3, <2>1, <2>2
<1>6. ASSUME NEW c \in Calls, c >= n + 1 PROVE KeepsCall(w, u, c)
  <2>1. c >= n /\ c # n
    BY <1>4, <1>6
  <2>2. KeepsCall(w, v, c)
    BY <2>1 DEF Flushed
  <2>3. KeepsCall(v, u, c)
    BY <1>3, <2>1 DEF KeepsOthers
  <2> QED BY <2>2, <2>3 DEF KeepsCall
<1>7. ASSUME NEW c \in Calls, c < n + 1, began[c] = "full" PROVE Arrived(plan, u, c, sent[c])
  <2>1. CASE c = n
    <3>1. KeepsCall(w, v, c)
      BY <1>4, <2>1 DEF Flushed
    <3>2. CallSound(plan, v, c, sent[c], began[c])
      BY <3>1, CallSoundKept
    <3>3. Delivered(plan, v, c, sent[c])
      BY <1>7, <3>2 DEF CallSound
    <3> QED BY <1>3, <2>1, <3>3
  <2>2. CASE c # n
    <3>1. c < n
      BY <1>4, <1>7, <2>2
    <3>2. Arrived(plan, v, c, sent[c])
      BY <1>7, <3>1 DEF Flushed
    <3>3. KeepsCall(v, u, c)
      BY <1>3, <2>2 DEF KeepsOthers
    <3>4. v.calls[c].block >= 0
      <4>1. w.calls[c].block >= 0
        BY <1>7 DEF CallSound, Delivered
      <4> QED BY <4>1 DEF Flushed
    <3> QED BY <3>2, <3>3, <3>4 DEF KeepsCall, Arrived
  <2> QED BY <2>1, <2>2
<1>8. Flushed(plan, w, u, n + 1, sent, began)
  BY <1>2, <1>3, <1>5, <1>6, <1>7 DEF Flushed
<1> QED BY <1>1, <1>8

LEMMA FlushCallsSound ==
  ASSUME NEW plan, plan = oMode.plan, PlanTyped(plan), NEW w, Sound(w),
         NEW sent \in [Calls -> Nat], NEW began,
         \A c \in Calls : CallSound(plan, w, c, sent[c], began[c])
  PROVE  LET v == FlushCalls(w)
         IN  /\ Sound(v) /\ v.sse = w.sse
             /\ \A c \in Calls : began[c] = "full" => v.calls[c].block >= 0 /\ Arrived(plan, v, c, sent[c])
<1>1. NCalls \in Nat /\ Calls = 0..(NCalls - 1)
  BY CallsAssumption
<1>2. PICK f : f = CHOOSE g : FlushedUpTo(g, w, NCalls)
  OBVIOUS
<1>3. FlushedUpTo(f, w, NCalls)
  BY <1>1, <1>2, FlushedExists
<1>4. FlushCalls(w) = f[NCalls]
  BY <1>2 DEF FlushCalls, FlushedUpTo
<1>5. \A n \in 0..NCalls : f[n] = IF n = 0 THEN w ELSE FlushCall(f[n - 1], n - 1)
  BY <1>3 DEF FlushedUpTo
<1>6. PICK T : T = {n \in 0..NCalls : ~Flushed(plan, w, f[n], n, sent, began)}
  OBVIOUS
<1>7. T = {}
  <2> SUFFICES ASSUME T # {} PROVE FALSE
    OBVIOUS
  <2>1. T \subseteq Nat
    BY <1>6
  <2>2. PICK m \in T : \A y \in T : m <= y
    BY <2>1, LeastIndex
  <2>3. m \in 0..NCalls /\ ~Flushed(plan, w, f[m], m, sent, began)
    BY <1>6
  <2>4. CASE m = 0
    <3>1. f[0] = w
      BY <1>1, <1>5
    <3>2. \A c \in Calls : c \in Nat
      BY <1>1
    <3>3. Flushed(plan, w, w, 0, sent, began)
      BY <3>2 DEF Flushed, KeepsCall
    <3> QED BY <2>3, <2>4, <3>1, <3>3
  <2>5. CASE m # 0
    <3>1. m - 1 \in 0..NCalls /\ m - 1 \in Calls /\ m - 1 \notin T /\ (m - 1) + 1 = m
      BY <1>1, <2>2, <2>3, <2>5
    <3>2. Flushed(plan, w, f[m - 1], m - 1, sent, began)
      BY <1>6, <3>1
    <3>3. f[m] = FlushCall(f[m - 1], m - 1)
      BY <1>5, <2>3, <2>5
    <3>4. Flushed(plan, w, FlushCall(f[m - 1], m - 1), (m - 1) + 1, sent, began)
      BY <3>1, <3>2, FlushedStep
    <3> QED BY <2>3, <3>1, <3>3, <3>4
  <2> QED BY <2>4, <2>5
<1>8. PICK v : v = f[NCalls]
  OBVIOUS
<1>9. Flushed(plan, w, v, NCalls, sent, began)
  <2>1. NCalls \in 0..NCalls
    BY <1>1
  <2> QED BY <1>6, <1>7, <1>8, <2>1
<1>10. ASSUME NEW c \in Calls, began[c] = "full" PROVE v.calls[c].block >= 0 /\ Arrived(plan, v, c, sent[c])
  <2>1. c < NCalls
    BY <1>1
  <2>2. w.calls[c].block >= 0
    BY <1>10 DEF CallSound, Delivered
  <2> QED BY <1>9, <1>10, <2>1, <2>2 DEF Flushed
<1>11. Sound(v) /\ v.sse = w.sse
  BY <1>9 DEF Flushed
<1> QED BY <1>4, <1>8, <1>10, <1>11

\* The recursion of CloseAll is a function on 0..NCalls.
ClosedUpTo(f, w, m) == f = [n \in 0..m |-> IF n = 0 THEN CloseContent(w) ELSE StopTool(f[n - 1], n - 1)]

LEMMA ClosedExists == ASSUME NEW w, NEW all \in Nat PROVE \E f : ClosedUpTo(f, w, all)
<1>1. PICK T : T = {m \in Nat : ~\E f : ClosedUpTo(f, w, m)}
  OBVIOUS
<1>2. SUFFICES ASSUME T # {} PROVE FALSE
  BY <1>1
<1>3. PICK m \in T : \A y \in T : m <= y
  BY <1>1, <1>2, LeastIndex
<1>4. CASE m = 0
  <2>1. PICK f : f = [n \in 0..0 |-> CloseContent(w)]
    OBVIOUS
  <2>2. f = [n \in 0..0 |-> IF n = 0 THEN CloseContent(w) ELSE StopTool(f[n - 1], n - 1)]
    BY <2>1
  <2>3. ClosedUpTo(f, w, 0)
    BY <2>2 DEF ClosedUpTo
  <2> QED BY <1>1, <1>4, <2>3
<1>5. CASE m # 0
  <2>1. m \in Nat /\ m - 1 \in Nat /\ m - 1 \notin T
    BY <1>1, <1>3, <1>5
  <2>2. PICK g : ClosedUpTo(g, w, m - 1)
    BY <1>1, <2>1
  <2>3. PICK last : last = StopTool(g[m - 1], m - 1)
    OBVIOUS
  <2>4. PICK f : f = [n \in 0..m |-> IF n = m THEN last ELSE g[n]]
    OBVIOUS
  <2>5. \A n \in 0..(m - 1) : g[n] = IF n = 0 THEN CloseContent(w) ELSE StopTool(g[n - 1], n - 1)
    BY <2>2 DEF ClosedUpTo
  <2>6. f[m] = last /\ \A n \in 0..(m - 1) : f[n] = g[n]
    BY <2>1, <2>4
  <2>7. ASSUME NEW n \in 0..m PROVE f[n] = IF n = 0 THEN CloseContent(w) ELSE StopTool(f[n - 1], n - 1)
    <3>1. n = m \/ n \in 0..(m - 1)
      BY <2>1
    <3>2. CASE n = 0
      BY <1>5, <2>5, <2>6, <3>1, <3>2
    <3>3. CASE n # 0
      <4>1. n - 1 \in 0..(m - 1)
        BY <2>1, <3>3
      <4>2. f[n - 1] = g[n - 1]
        BY <2>6, <4>1
      <4>3. CASE n = m
        BY <2>3, <2>6, <3>3, <4>2, <4>3
      <4>4. CASE n \in 0..(m - 1)
        BY <2>5, <2>6, <3>3, <4>2, <4>4
      <4> QED BY <3>1, <4>3, <4>4
    <3> QED BY <3>2, <3>3
  <2>8. f = [n \in 0..m |-> f[n]]
    BY <2>4
  <2>9. ClosedUpTo(f, w, m)
    BY <2>7, <2>8 DEF ClosedUpTo
  <2> QED BY <1>1, <1>3, <2>9
<1> QED BY <1>4, <1>5

\* The blocks of the calls from n on.
ToolBlocksFrom(calls, n) == {<<calls[c].block, "tool_use">> : c \in {d \in Calls : d >= n /\ calls[d].block >= 0}}

\* After the content blocks and the calls before n were closed.
ClosedBefore(w, v, n) ==
  /\ IsWork(v) /\ v.sse = w.sse /\ v.calls = w.calls /\ v.client.input = w.client.input
  /\ Reads(v.client, w.sse.next, ToolBlocksFrom(w.calls, n))

LEMMA ClosedStep ==
  ASSUME NEW w, Sound(w), NEW v, NEW n \in Calls, ClosedBefore(w, v, n)
  PROVE  ClosedBefore(w, StopTool(v, n), n + 1)
<1>1. PICK u : u = StopTool(v, n)
  OBVIOUS
<1>2. /\ IsWork(v) /\ v.sse = w.sse /\ v.calls = w.calls /\ v.client.input = w.client.input
      /\ Reads(v.client, w.sse.next, ToolBlocksFrom(w.calls, n))
  BY DEF ClosedBefore
<1>3. \A c \in Calls : c \in Nat
  BY CallsAssumption
<1>4. PICK i : i = w.calls[n].block
  OBVIOUS
<1>5. CASE i >= 0
  <2>1. u = Emit(v, BlockStop(i))
    BY <1>1, <1>2, <1>4, <1>5 DEF StopTool, Started
  <2>2. IsWork(u) /\ u.sse = v.sse /\ u.calls = v.calls /\ u.client = Accept(v.client, BlockStop(i))
    BY <1>2, <2>1, EmittedOn
  <2>3. PICK open : open = ToolBlocksFrom(w.calls, n)
    OBVIOUS
  <2>4. <<i, "tool_use">> \in open
    BY <1>3, <1>4, <1>5, <2>3 DEF ToolBlocksFrom
  <2>5. Reads(u.client, w.sse.next, open \ {<<i, "tool_use">>}) /\ u.client.input = v.client.input
    BY <1>2, <2>2, <2>3, <2>4, ReadStop
  <2>6. open \ {<<i, "tool_use">>} = ToolBlocksFrom(w.calls, n + 1)
    <3>1. \A c \in Calls : c >= n <=> c = n \/ c >= n + 1
      BY <1>3
    <3>2. \A c \in Calls : c >= n + 1 => c # n
      BY <1>3
    <3>3. \A c \in Calls : w.calls[c].block >= 0 /\ c # n => w.calls[c].block # i
      BY <1>4 DEF Sound, Layout
    <3>4. \A c \in Calls : <<w.calls[c].block, "tool_use">> = <<i, "tool_use">> => w.calls[c].block = i
      OBVIOUS
    <3> QED BY <1>4, <1>5, <2>3, <3>1, <3>2, <3>3, <3>4 DEF ToolBlocksFrom
  <2> QED BY <1>1, <1>2, <2>2, <2>5, <2>6 DEF ClosedBefore
<1>6. CASE ~(i >= 0)
  <2>1. u = v
    BY <1>1, <1>2, <1>4, <1>6 DEF StopTool, Started
  <2>2. ToolBlocksFrom(w.calls, n) = ToolBlocksFrom(w.calls, n + 1)
    <3>1. \A c \in Calls : w.calls[c].block >= 0 => (c >= n <=> c >= n + 1)
      BY <1>3, <1>4, <1>6
    <3>2. {d \in Calls : d >= n /\ w.calls[d].block >= 0} = {d \in Calls : d >= n + 1 /\ w.calls[d].block >= 0}
      BY <3>1
    <3> QED BY <3>2 DEF ToolBlocksFrom
  <2> QED BY <1>1, <1>2, <2>1, <2>2 DEF ClosedBefore
<1> QED BY <1>5, <1>6

\* Nothing is open, and the message may end.
Closed(w) == IsWork(w) /\ w.sse \in Sse /\ Reads(w.client, w.sse.next, {})

\* close_all_blocks
LEMMA CloseAllSound ==
  ASSUME NEW w, Sound(w)
  PROVE  LET v == CloseAll(w)
         IN  Closed(v) /\ v.sse.next = w.sse.next /\ v.calls = w.calls /\ InputKept(w, v)
<1>1. NCalls \in Nat /\ Calls = 0..(NCalls - 1)
  BY CallsAssumption
<1>2. PICK f : f = CHOOSE g : ClosedUpTo(g, w, NCalls)
  OBVIOUS
<1>3. ClosedUpTo(f, w, NCalls)
  BY <1>1, <1>2, ClosedExists
<1>4. CloseAll(w) = f[NCalls]
  BY <1>2 DEF CloseAll, ClosedUpTo
<1>5. \A n \in 0..NCalls : f[n] = IF n = 0 THEN CloseContent(w) ELSE StopTool(f[n - 1], n - 1)
  BY <1>3 DEF ClosedUpTo
<1>6. PICK u : u = CloseContent(w)
  OBVIOUS
<1>7. /\ Sound(u) /\ Keeps(w, u) /\ u.sse.next = w.sse.next
      /\ u.sse.thinkingOpen = FALSE /\ u.sse.textOpen = FALSE
  BY <1>6, CloseContentSound DEF Grows
<1>8. PICK T : T = {n \in 0..NCalls : ~ClosedBefore(u, f[n], n)}
  OBVIOUS
<1>9. T = {}
  <2> SUFFICES ASSUME T # {} PROVE FALSE
    OBVIOUS
  <2>1. T \subseteq Nat
    BY <1>8
  <2>2. PICK m \in T : \A y \in T : m <= y
    BY <2>1, LeastIndex
  <2>3. m \in 0..NCalls /\ ~ClosedBefore(u, f[m], m)
    BY <1>8
  <2>4. CASE m = 0
    <3>1. f[0] = u
      BY <1>1, <1>5, <1>6
    <3>2. {d \in Calls : d >= 0 /\ u.calls[d].block >= 0} = {d \in Calls : u.calls[d].block >= 0}
      BY <1>1
    <3>3. OpenOf(u.sse, u.calls) = ToolBlocksFrom(u.calls, 0)
      BY <1>7, <3>2 DEF OpenOf, ThinkingBlock, TextBlock, ToolBlocks, ToolBlocksFrom
    <3>4. ClosedBefore(u, u, 0)
      BY <1>7, <3>3 DEF ClosedBefore, Sound, IsWork
    <3> QED BY <2>3, <2>4, <3>1, <3>4
  <2>5. CASE m # 0
    <3>1. m - 1 \in 0..NCalls /\ m - 1 \in Calls /\ m - 1 \notin T /\ (m - 1) + 1 = m
      BY <1>1, <2>2, <2>3, <2>5
    <3>2. ClosedBefore(u, f[m - 1], m - 1)
      BY <1>8, <3>1
    <3>3. f[m] = StopTool(f[m - 1], m - 1)
      BY <1>5, <2>3, <2>5
    <3>4. ClosedBefore(u, StopTool(f[m - 1], m - 1), (m - 1) + 1)
      BY <1>7, <3>1, <3>2, ClosedStep
    <3> QED BY <2>3, <3>1, <3>3, <3>4
  <2> QED BY <2>4, <2>5
<1>10. PICK v : v = f[NCalls]
  OBVIOUS
<1>11. ClosedBefore(u, v, NCalls)
  <2>1. NCalls \in 0..NCalls
    BY <1>1
  <2> QED BY <1>8, <1>9, <1>10, <2>1
<1>12. ToolBlocksFrom(u.calls, NCalls) = {}
  <2>1. \A d \in Calls : ~(d >= NCalls)
    BY <1>1
  <2> QED BY <2>1 DEF ToolBlocksFrom
<1>13. Closed(v) /\ v.sse.next = w.sse.next
  <2>1. u.sse \in Sse
    BY <1>7 DEF Sound, Layout
  <2> QED BY <1>7, <1>11, <1>12, <2>1 DEF ClosedBefore, Closed
<1>14. v.calls = w.calls /\ InputKept(w, v)
  BY <1>7, <1>11 DEF ClosedBefore, Keeps, InputKept
<1> QED BY <1>4, <1>10, <1>13, <1>14

\* emit_error: a text block of its own.
LEMMA ErrorTextSound ==
  ASSUME NEW w, Closed(w)
  PROVE  Closed(ErrorText(w)) /\ ErrorText(w).sse.next > 0
<1>1. PICK v : v = ErrorText(w)
  OBVIOUS
<1>2. IsWork(w) /\ w.sse \in Sse /\ w.sse.next \in Nat /\ Reads(w.client, w.sse.next, {})
  BY DEF Closed, Sse
<1>3. PICK sse : sse = w.sse
  OBVIOUS
<1>4. PICK new : new = [sse EXCEPT !.next = sse.next + 1]
  OBVIOUS
<1>5. PICK n : n = w.sse.next
  OBVIOUS
<1>6. PICK a : a = [w EXCEPT !.sse.next = @ + 1]
  OBVIOUS
<1>7. a = [sse |-> new, calls |-> w.calls, client |-> w.client]
  BY <1>2, <1>3, <1>4, <1>6, WithSse
<1>8. IsWork(a) /\ a.sse = new /\ a.client = w.client
  BY <1>7 DEF IsWork
<1>9. PICK b : b = Emit(a, BlockStart(n, "text"))
  OBVIOUS
<1>10. PICK d : d = Emit(b, BlockDelta(n, "text", <<>>))
  OBVIOUS
<1>11. v = Emit(d, BlockStop(n))
  BY <1>1, <1>5, <1>6, <1>9, <1>10 DEF ErrorText
<1>12. IsWork(b) /\ b.sse = new /\ b.client = Accept(w.client, BlockStart(n, "text"))
  BY <1>8, <1>9, EmittedOn
<1>13. IsWork(d) /\ d.sse = new /\ d.client = Accept(b.client, BlockDelta(n, "text", <<>>))
  BY <1>10, <1>12, EmittedOn
<1>14. IsWork(v) /\ v.sse = new /\ v.client = Accept(d.client, BlockStop(n))
  BY <1>11, <1>13, EmittedOn
<1>15. Reads(v.client, n + 1, {})
  <2>1. Reads(w.client, n, {}) /\ "text" \in Kinds
    BY <1>2, <1>5 DEF Kinds
  <2>2. v.client = Accept(Accept(Accept(w.client, BlockStart(n, "text")), BlockDelta(n, "text", <<>>)), BlockStop(n))
    BY <1>12, <1>13, <1>14
  <2> QED BY <2>1, <2>2, ReadWhole
<1>16. new \in Sse /\ new.next = n + 1 /\ n + 1 > 0
  BY <1>2, <1>3, <1>4, <1>5 DEF Sse
<1> QED BY <1>1, <1>14, <1>15, <1>16 DEF Closed

\* message_delta and message_stop
LEMMA FinishSound ==
  ASSUME NEW w, Closed(w), w.sse.next > 0
  PROVE  LET v == Finish(w)
         IN  /\ IsWork(v) /\ v.calls = w.calls /\ v.client.input = w.client.input
             /\ Complete(v.client)
<1>1. PICK u : u = Emit(w, MessageEvent("message_delta"))
  OBVIOUS
<1>2. PICK v : v = Emit(u, MessageEvent("message_stop"))
  OBVIOUS
<1>3. v = Finish(w)
  BY <1>1, <1>2 DEF Finish
<1>4. IsWork(w) /\ Reads(w.client, w.sse.next, {})
  BY DEF Closed
<1>5. IsWork(u) /\ u.calls = w.calls /\ u.client = Accept(w.client, MessageEvent("message_delta"))
  BY <1>1, <1>4, EmittedOn
<1>6. IsWork(v) /\ v.calls = u.calls /\ v.client = Accept(u.client, MessageEvent("message_stop"))
  BY <1>2, <1>5, EmittedOn
<1>7. PICK type : type = "message_delta"
  OBVIOUS
<1>8. Reads(u.client, w.sse.next, {}) /\ u.client.input = w.client.input
  <2>1. type \in {"message_delta", "error"} /\ u.client = Accept(w.client, MessageEvent(type))
    BY <1>5, <1>7
  <2> QED BY <1>4, <2>1, ReadMessage
<1>9. Complete(v.client) /\ v.client.input = u.client.input
  BY <1>6, <1>8, ReadEnd
<1> QED BY <1>3, <1>5, <1>6, <1>8, <1>9

\* A call that is sound stays so while its row and what came of it are kept.
CallsSound(plan, w, sent) ==
  \A c \in Calls : CallSound(plan, w, c, sent.fragments[c], sent.startedAs[c])

LEMMA CallsKept ==
  ASSUME NEW plan, NEW w, NEW v, NEW sent, CallsSound(plan, w, sent), Grows(w, v)
  PROVE  CallsSound(plan, v, sent)
<1> SUFFICES ASSUME NEW c \in Calls PROVE CallSound(plan, v, c, sent.fragments[c], sent.startedAs[c])
  BY DEF CallsSound
<1>1. KeepsCall(w, v, c)
  BY KeepsAll DEF Grows
<1>2. CallSound(plan, w, c, sent.fragments[c], sent.startedAs[c])
  BY DEF CallsSound
<1> QED BY <1>1, <1>2, CallSoundKept

\* What the tool parser held back.
LEMMA TextCallWhen ==
  ASSUME NEW w, Sound(w), NEW call, NEW v, v = IF call THEN TextCall(w) ELSE w
  PROVE  Grows(w, v)
<1>1. CASE call
  BY <1>1, TextCallSound
<1>2. CASE ~call
  BY <1>2, SoundGrows
<1> QED BY <1>1, <1>2

-----------------------------------------------------------------------------
(***************************************************************************)
(* The specification.                                                      *)
(***************************************************************************)
SentFields ==
  [pieces: Nat, fragments: [Calls -> Nat], startedAs: [Calls -> CallNames]]

Modes == [pc: {"stream", "done", "failed", "cancelled"}, thinking: BOOLEAN, plan: CallPlans]

\* While the answer streams, the builder and the client agree and every call
\* has had what was sent for it; in the end the message is complete.
StreamInv ==
  /\ oMode \in Modes /\ oSent \in SentFields
  /\ oMode.pc = "stream" => Sound(Work) /\ CallsSound(oMode.plan, Work, oSent)
  /\ StreamContract
  /\ ArgumentsDelivered

LEMMA PlanIsTyped == ASSUME oMode \in Modes PROVE PlanTyped(oMode.plan)
BY CallsAssumption DEF Modes, PlanTyped

LEMMA SoundIsOk == ASSUME NEW w, Sound(w) PROVE w.client.ok
BY DEF Sound, Reads

LEMMA WorkIs == IsWork(Work) /\ Work.sse = oSse /\ Work.calls = oCalls /\ Work.client = oClient
BY DEF Work, IsWork

LEMMA Published ==
  ASSUME NEW v, IsWork(v), Publish(v)
  PROVE  Work' = v /\ oClient' = v.client /\ oCalls' = v.calls
BY DEF Publish, Work, IsWork

\* An action that goes on streaming.
LEMMA StreamsOn ==
  ASSUME StreamInv, NEW v, Publish(v), Sound(v), oMode' = oMode, oMode.pc = "stream",
         oSent' \in SentFields, CallsSound(oMode.plan, v, oSent')
  PROVE  StreamInv'
<1>1. Work' = v /\ oClient' = v.client
  BY Published DEF Sound, IsWork
<1>2. v.client.ok
  BY SoundIsOk
<1>3. StreamContract'
  BY <1>1, <1>2 DEF StreamContract
<1>4. ArgumentsDelivered'
  BY DEF ArgumentsDelivered
<1>5. oMode' \in Modes
  BY DEF StreamInv
<1>6. Sound(Work') /\ CallsSound(oMode'.plan, Work', oSent')
  BY <1>1
<1> QED BY <1>3, <1>4, <1>5, <1>6 DEF StreamInv, Work

LEMMA StreamInit == OInit => StreamInv
<1> SUFFICES ASSUME OInit PROVE StreamInv
  OBVIOUS
<1>1. oMode \in Modes /\ oMode.pc = "stream"
  BY DEF OInit, Modes
<1>2. oSent \in SentFields
  BY DEF OInit, SentFields, CallNames
<1>3. PICK ev : ev = MessageEvent("message_start")
  OBVIOUS
<1>4. ev.type = "message_start"
  BY <1>3 DEF MessageEvent
<1>5. PICK start : start = NewClient
  OBVIOUS
<1>6. start = [starts |-> 0, stops |-> 0, open |-> {}, seen |-> {}, input |-> <<>>, ok |-> TRUE]
  BY <1>5 DEF NewClient
<1>7. (start.ok /\ Expected(start, ev)) = TRUE
  BY <1>4, <1>6 DEF Expected
<1>8. oClient = [starts |-> 1, stops |-> 0, open |-> {}, seen |-> {}, input |-> <<>>, ok |-> TRUE]
  <2>1. oClient = Accept(start, ev)
    BY <1>3, <1>5 DEF OInit
  <2>2. start.starts + 1 = 1 /\ start.stops = 0 /\ start.open = {} /\ start.seen = {} /\ start.input = <<>>
    BY <1>6
  <2>3. oClient = [starts |-> start.starts + 1, stops |-> start.stops, open |-> start.open, seen |-> start.seen,
                   input |-> start.input, ok |-> start.ok /\ Expected(start, ev)]
    BY <1>4, <2>1 DEF Accept
  <2> QED BY <1>7, <2>2, <2>3
<1>9. Reads(oClient, 0, {})
  <2>1. oClient \in Client
    <3>1. <<>> \in Seq(Seq(Int))
      OBVIOUS
    <3> QED BY <1>8, <3>1 DEF Client
  <2>2. /\ oClient.starts = 1 /\ oClient.stops = 0 /\ oClient.ok /\ oClient.seen = 0..(0 - 1)
        /\ Len(oClient.input) = 0 /\ oClient.open = {}
    <3>1. 0..(0 - 1) = {} /\ Len(<<>>) = 0
      OBVIOUS
    <3> QED BY <1>8, <3>1
  <2> QED BY <2>1, <2>2 DEF Reads
<1>10. PICK row : row = [name |-> "none", block |-> -1, pre |-> <<>>, buffer |-> <<>>, emitted |-> FALSE]
  OBVIOUS
<1>11. /\ row \in Call /\ row.block = -1 /\ row.buffer = <<>> /\ row.name = "none" /\ row.pre = <<>>
       /\ row.emitted = FALSE
  <2>1. <<>> \in Seq(Int) /\ -1 \in Int
    OBVIOUS
  <2> QED BY <1>10, <2>1 DEF Call, CallNames
<1>12. oCalls \in [Calls -> Call] /\ \A c \in Calls : oCalls[c] = row
  BY <1>10, <1>11 DEF OInit
<1>13. /\ oSse \in Sse /\ oSse.next = 0 /\ oSse.thinking = -1 /\ oSse.text = -1
       /\ oSse.thinkingOpen = FALSE /\ oSse.textOpen = FALSE
  BY DEF OInit, Sse
<1>14. OpenOf(oSse, oCalls) = {}
  <2>1. \A c \in Calls : ~(oCalls[c].block >= 0)
    BY <1>11, <1>12
  <2> QED BY <1>13, <2>1 DEF OpenOf, ThinkingBlock, TextBlock, ToolBlocks
<1>15. Layout(oSse, oCalls)
  BY <1>11, <1>12, <1>13 DEF Layout
<1>16. Sound(Work)
  BY <1>9, <1>13, <1>14, <1>15, WorkIs DEF Sound, IsWork
<1>17. CallsSound(oMode.plan, Work, oSent)
  <2> SUFFICES ASSUME NEW c \in Calls
               PROVE  CallSound(oMode.plan, Work, c, oSent.fragments[c], oSent.startedAs[c])
    BY DEF CallsSound
  <2>1. oSent.fragments[c] = 0 /\ oSent.startedAs[c] = "none"
    BY DEF OInit
  <2>2. Sent(0) = <<>>
    BY DEF Sent
  <2>3. ~Started(Work, c)
    BY <1>11, <1>12, WorkIs DEF Started
  <2> QED BY <1>11, <1>12, <2>1, <2>2, <2>3, WorkIs DEF CallSound
<1>18. StreamContract /\ ArgumentsDelivered
  BY <1>1, <1>8 DEF StreamContract, ArgumentsDelivered
<1> QED BY <1>1, <1>2, <1>16, <1>17, <1>18 DEF StreamInv

LEMMA PieceCounted ==
  ASSUME oSent \in SentFields, oSent' = [oSent EXCEPT !.pieces = @ + 1]
  PROVE  oSent' \in SentFields /\ oSent'.fragments = oSent.fragments /\ oSent'.startedAs = oSent.startedAs
BY DEF SentFields

LEMMA PieceKeeps ==
  ASSUME StreamInv, oMode.pc = "stream", NEW v, Grows(Work, v), Publish(v), UNCHANGED oMode,
         oSent' = [oSent EXCEPT !.pieces = @ + 1]
  PROVE  StreamInv'
<1>1. /\ oSent' \in SentFields /\ oSent'.fragments = oSent.fragments /\ oSent'.startedAs = oSent.startedAs
  BY PieceCounted DEF StreamInv
<1>2. CallsSound(oMode.plan, v, oSent)
  BY CallsKept DEF StreamInv
<1>3. CallsSound(oMode.plan, v, oSent')
  BY <1>1, <1>2 DEF CallsSound
<1>4. Sound(v)
  BY DEF Grows
<1> QED BY <1>1, <1>3, <1>4, StreamsOn

LEMMA ThinkingPieceKeeps ==
  ASSUME StreamInv, NEW blank \in BOOLEAN, ThinkingPiece(blank)
  PROVE  StreamInv'
<1>1. PICK v : v = ThinkingDelta(Work, blank)
  OBVIOUS
<1>2. /\ oMode.pc = "stream" /\ Publish(v) /\ UNCHANGED oMode /\ oSent' = [oSent EXCEPT !.pieces = @ + 1]
  BY <1>1 DEF ThinkingPiece
<1>3. Sound(Work)
  BY <1>2 DEF StreamInv
<1>4. Grows(Work, v)
  BY <1>1, <1>3, ThinkingDeltaSound
<1> QED BY <1>2, <1>4, PieceKeeps

LEMMA TextPieceKeeps ==
  ASSUME StreamInv, NEW shown \in BOOLEAN, NEW blank \in BOOLEAN, NEW call \in BOOLEAN, NEW begun \in BOOLEAN,
         TextPiece(shown, blank, call, begun)
  PROVE  StreamInv'
<1>1. PICK w : w = IF shown THEN TextDelta(Work, blank) ELSE Work
  OBVIOUS
<1>2. PICK v : v = IF call THEN TextCall(w) ELSE w
  OBVIOUS
<1>3. PICK u : u = [v EXCEPT !.sse.textCall = begun]
  OBVIOUS
<1>4. /\ oMode.pc = "stream" /\ Publish(u) /\ UNCHANGED oMode /\ oSent' = [oSent EXCEPT !.pieces = @ + 1]
  BY <1>1, <1>2, <1>3 DEF TextPiece
<1>5. Sound(Work)
  BY <1>4 DEF StreamInv
<1>6. Grows(Work, w)
  <2>1. CASE shown
    BY <1>1, <1>5, <2>1, TextDeltaSound
  <2>2. CASE ~shown
    BY <1>1, <1>5, <2>2, SoundGrows
  <2> QED BY <2>1, <2>2
<1>7. Sound(w)
  BY <1>6 DEF Grows
<1>8. Grows(w, v)
  BY <1>2, <1>7, TextCallWhen
<1>9. Sound(v)
  BY <1>8 DEF Grows
<1>10. Grows(v, u)
  BY <1>3, <1>9, TextCallBegun
<1>11. Grows(Work, v)
  BY <1>5, <1>6, <1>8, GrowsOn
<1>12. Grows(Work, u)
  BY <1>5, <1>10, <1>11, GrowsOn
<1> QED BY <1>4, <1>12, PieceKeeps

LEMMA ToolDeltaKeeps ==
  ASSUME StreamInv, NEW c \in Calls, NEW name \in {"none", "part", "rest", "full"}, NEW n \in 0..2,
         ToolDelta(c, name, n)
  PROVE  StreamInv'
<1>1. PICK plan : plan = oMode.plan
  OBVIOUS
<1>2. PICK a : a = oSent.fragments[c]
  OBVIOUS
<1>3. PICK began : began = oSent.startedAs[c]
  OBVIOUS
<1>4. PICK more : more = More(a, n)
  OBVIOUS
<1>5. PICK u : u = CloseContent(Work)
  OBVIOUS
<1>6. PICK v : v = ProcessToolCall(u, c, name, more)
  OBVIOUS
<1>7. PICK told : told = Announced(v, c, began)
  OBVIOUS
<1>8. /\ oMode.pc = "stream" /\ UNCHANGED oMode /\ Publish(v) /\ a + n <= plan[c].fragments
      /\ (name = "rest" => oCalls[c].name = "part") /\ (name = "part" => oCalls[c].name = "none")
      /\ oSent' = [oSent EXCEPT !.fragments[c] = a + n, !.startedAs[c] = told]
  <2>1. more = [i \in 1..n |-> a + i]
    BY <1>4 DEF More
  <2> QED BY <1>1, <1>2, <1>3, <1>5, <1>6, <1>7, <2>1 DEF ToolDelta, Announced
<1>9. /\ oSent \in SentFields /\ Sound(Work) /\ CallsSound(plan, Work, oSent)
      /\ n \in Nat /\ a \in Nat /\ began \in CallNames
  BY <1>1, <1>2, <1>3, <1>8 DEF StreamInv, SentFields
<1>10. PlanTyped(plan)
  BY <1>1, PlanIsTyped DEF StreamInv
<1>11. Grows(Work, u) /\ Sound(u) /\ Keeps(Work, u)
  BY <1>5, <1>9, CloseContentSound DEF Grows
<1>12. CallsSound(plan, u, oSent)
  BY <1>9, <1>11, CallsKept
<1>13. CallSound(plan, u, c, a, began)
  BY <1>2, <1>3, <1>12 DEF CallsSound
<1>14. Merged(u.calls[c].name, name) \in CallNames
  <2>1. u.calls[c].name = oCalls[c].name
    BY <1>11, WorkIs DEF Keeps
  <2>2. u.calls[c].name \in CallNames
    BY <1>11 DEF Sound, Layout, Call
  <2> QED BY <1>8, <2>1, <2>2 DEF Merged, CallNames
<1>15. Sound(v) /\ KeepsOthers(u, v, c) /\ CallSound(plan, v, c, a + n, told)
  BY <1>1, <1>4, <1>6, <1>7, <1>8, <1>9, <1>10, <1>11, <1>13, <1>14, ProcessToolCallSound
<1>16. told \in CallNames
  <2>1. v.calls[c].name \in CallNames
    BY <1>15 DEF Sound, Layout, Call
  <2> QED BY <1>7, <1>9, <2>1 DEF Announced
<1>17. /\ oSent' \in SentFields /\ oSent'.fragments[c] = a + n /\ oSent'.startedAs[c] = told
       /\ \A d \in Calls : d # c => /\ oSent'.fragments[d] = oSent.fragments[d]
                                    /\ oSent'.startedAs[d] = oSent.startedAs[d]
  <2>1. PICK fs : fs = [oSent.fragments EXCEPT ![c] = a + n]
    OBVIOUS
  <2>2. PICK as : as = [oSent.startedAs EXCEPT ![c] = told]
    OBVIOUS
  <2>3. oSent' = [oSent EXCEPT !.fragments = fs, !.startedAs = as]
    BY <1>8, <1>9, <2>1, <2>2 DEF SentFields
  <2>4. fs \in [Calls -> Nat] /\ fs[c] = a + n /\ \A d \in Calls : d # c => fs[d] = oSent.fragments[d]
    BY <1>9, <2>1 DEF SentFields
  <2>5. as \in [Calls -> CallNames] /\ as[c] = told /\ \A d \in Calls : d # c => as[d] = oSent.startedAs[d]
    BY <1>9, <1>16, <2>2 DEF SentFields
  <2>6. oSent' \in SentFields /\ oSent'.fragments = fs /\ oSent'.startedAs = as
    BY <1>9, <2>3, <2>4, <2>5 DEF SentFields
  <2> QED BY <2>4, <2>5, <2>6
<1>18. CallsSound(plan, v, oSent')
  <2> SUFFICES ASSUME NEW d \in Calls
               PROVE  CallSound(plan, v, d, oSent'.fragments[d], oSent'.startedAs[d])
    BY DEF CallsSound
  <2>1. CASE d = c
    BY <1>15, <1>17, <2>1
  <2>2. CASE d # c
    <3>1. KeepsCall(u, v, d)
      BY <1>15, <2>2 DEF KeepsOthers
    <3>2. CallSound(plan, u, d, oSent.fragments[d], oSent.startedAs[d])
      BY <1>12 DEF CallsSound
    <3>3. CallSound(plan, v, d, oSent.fragments[d], oSent.startedAs[d])
      BY <3>1, <3>2, CallSoundKept
    <3> QED BY <1>17, <2>2, <3>3
  <2> QED BY <2>1, <2>2
<1> QED BY <1>1, <1>8, <1>15, <1>17, <1>18, StreamsOn

\* An action that ends the message.
LEMMA StreamEnds ==
  ASSUME StreamInv, NEW v, IsWork(v), Complete(v.client), Publish(v), NEW pc \in {"done", "failed"}, OEnd(pc),
         UNCHANGED oSent, ArgumentsDelivered'
  PROVE  StreamInv'
<1>1. oClient' = v.client
  BY Published
<1>2. oMode \in Modes
  BY DEF StreamInv
<1>3. oMode' \in Modes /\ oMode'.pc = pc
  BY <1>2 DEF OEnd, Modes
<1>4. StreamContract'
  BY <1>1 DEF StreamContract, Complete
<1>5. oSent' \in SentFields
  BY DEF StreamInv
<1>6. oMode'.pc # "stream"
  BY <1>3
<1> QED BY <1>3, <1>4, <1>5, <1>6 DEF StreamInv, Work

LEMMA UpstreamErrorKeeps == ASSUME StreamInv, UpstreamError PROVE StreamInv'
<1>1. PICK w : w = CloseAll(Work)
  OBVIOUS
<1>2. PICK told : told = IF \E c \in Calls : Started(w, c) THEN Emit(w, MessageEvent("error")) ELSE ErrorText(w)
  OBVIOUS
<1>3. PICK v : v = Finish(told)
  OBVIOUS
<1>4. oMode.pc = "stream" /\ OEnd("failed") /\ Publish(v) /\ UNCHANGED oSent
  BY <1>1, <1>2, <1>3 DEF UpstreamError
<1>5. Sound(Work)
  BY <1>4 DEF StreamInv
<1>6. Closed(w) /\ w.sse.next = Work.sse.next /\ w.calls = Work.calls
  BY <1>1, <1>5, CloseAllSound
<1>7. Closed(told) /\ told.sse.next > 0
  <2>1. CASE \E c \in Calls : Started(w, c)
    <3>1. PICK c \in Calls : Started(w, c)
      BY <2>1
    <3>2. Work.calls[c].block >= 0
      BY <1>6, <3>1 DEF Started
    <3>3. Work.calls[c].block \in 0..(Work.sse.next - 1) /\ Work.sse.next \in Nat
      BY <1>5, <3>2, ToolBlockRead
    <3>4. w.sse.next > 0
      BY <1>6, <3>3
    <3>5. told = Emit(w, MessageEvent("error")) /\ IsWork(w) /\ w.sse \in Sse /\ Reads(w.client, w.sse.next, {})
      BY <1>2, <1>6, <2>1 DEF Closed
    <3>6. IsWork(told) /\ told.sse = w.sse /\ told.client = Accept(w.client, MessageEvent("error"))
      BY <3>5, EmittedOn
    <3>7. PICK type : type = "error"
      OBVIOUS
    <3>8. Reads(told.client, w.sse.next, {})
      <4>1. type \in {"message_delta", "error"} /\ told.client = Accept(w.client, MessageEvent(type))
        BY <3>6, <3>7
      <4> QED BY <3>5, <4>1, ReadMessage
    <3> QED BY <3>4, <3>5, <3>6, <3>8 DEF Closed
  <2>2. CASE ~\E c \in Calls : Started(w, c)
    BY <1>2, <1>6, <2>2, ErrorTextSound
  <2> QED BY <2>1, <2>2
<1>8. IsWork(v) /\ Complete(v.client)
  BY <1>3, <1>7, FinishSound
<1>9. ArgumentsDelivered'
  <2>1. oMode'.pc = "failed"
    BY <1>4 DEF OEnd, StreamInv, Modes
  <2> QED BY <2>1 DEF ArgumentsDelivered
<1> QED BY <1>4, <1>8, <1>9, StreamEnds

LEMMA ClientLeavesKeeps == ASSUME StreamInv, ClientLeaves PROVE StreamInv'
<1>1. oMode' = [oMode EXCEPT !.pc = "cancelled"] /\ UNCHANGED <<oSse, oCalls, oSent, oClient>>
  BY DEF ClientLeaves, OEnd
<1>2. oMode' \in Modes /\ oMode'.pc = "cancelled"
  BY <1>1 DEF StreamInv, Modes
<1>3. StreamContract' /\ ArgumentsDelivered' /\ oSent' \in SentFields
  BY <1>1, <1>2 DEF StreamInv, StreamContract, ArgumentsDelivered
<1> QED BY <1>2, <1>3 DEF StreamInv, Work

\* What stays of the stream when it is over is text where nothing else is.
LEMMA CompletesSound ==
  ASSUME NEW plan, plan = oMode.plan, PlanTyped(plan), NEW h, Sound(h), NEW t, NEW empty, NEW silent,
         empty = (h.sse.text = -1 /\ h.sse.thinking = -1 /\ ~\E c \in Calls : Started(h, c)),
         t = IF empty \/ silent THEN TextDelta(h, TRUE) ELSE h
  PROVE  Grows(h, t) /\ t.sse.next > 0
<1>1. CASE empty \/ silent
  BY <1>1, TextDeltaSound
<1>2. CASE ~(empty \/ silent)
  <2>1. t = h
    BY <1>2
  <2>2. h.sse.next > 0
    <3>1. CASE h.sse.text # -1 \/ h.sse.thinking # -1
      BY <3>1 DEF Sound, Layout
    <3>2. CASE \E c \in Calls : Started(h, c)
      <4>1. PICK c \in Calls : Started(h, c)
        BY <3>2
      <4>2. h.calls[c].block \in 0..(h.sse.next - 1) /\ h.sse.next \in Nat
        BY <4>1, ToolBlockRead DEF Started
      <4> QED BY <4>2
    <3> QED BY <1>2, <3>1, <3>2
  <2> QED BY <2>1, <2>2, SoundGrows
<1> QED BY <1>1, <1>2

\* The same in the words of ArgumentsDelivered.
FinalOf(call, sent) ==
  LET whole == call.json /\ sent = [i \in 1..call.fragments |-> i]
  IN  CASE call.tool = "plain" \/ sent = <<>> -> sent
        [] call.tool = "Task" /\ sent # <<>> -> IF whole THEN NormalizedJson ELSE EmptyObject
        [] call.tool = "aliased" /\ sent # <<>> -> IF whole THEN RestoredJson ELSE sent

LEMMA FinalIs ==
  ASSUME NEW plan, PlanTyped(plan), NEW c \in Calls, NEW n \in Nat
  PROVE  FinalInput(plan, c, n) = FinalOf(plan[c], [i \in 1..n |-> i])
<1>1. PICK call : call = plan[c]
  OBVIOUS
<1>2. call.tool \in {"plain", "Task", "aliased"} /\ call.fragments \in Nat
  BY <1>1 DEF PlanTyped
<1>3. PICK sent : sent = [i \in 1..n |-> i]
  OBVIOUS
<1>4. PICK all : all = [i \in 1..call.fragments |-> i]
  OBVIOUS
<1>5. Len(sent) = n /\ Len(all) = call.fragments
  BY <1>2, <1>3, <1>4
<1>6. sent = all <=> n = call.fragments
  BY <1>3, <1>4, <1>5
<1>7. sent = <<>> <=> n = 0
  BY <1>3, <1>5
<1>8. n > 0 <=> n # 0
  OBVIOUS
<1>9. n # 0 => (Whole(plan, c, n) <=> call.json /\ sent = all)
  BY <1>1, <1>6, <1>8 DEF Whole
<1>10. Sent(n) = sent
  BY <1>3 DEF Sent
<1>11. FinalOf(call, sent) =
         CASE call.tool = "plain" \/ sent = <<>> -> sent
           [] call.tool = "Task" /\ sent # <<>> -> IF call.json /\ sent = all THEN NormalizedJson ELSE EmptyObject
           [] call.tool = "aliased" /\ sent # <<>> -> IF call.json /\ sent = all THEN RestoredJson ELSE sent
  BY <1>4 DEF FinalOf
<1>12. FinalInput(plan, c, n) = FinalOf(call, sent)
  BY <1>1, <1>2, <1>7, <1>9, <1>10, <1>11 DEF FinalInput
<1> QED BY <1>1, <1>3, <1>12

LEMMA CompletesKeeps ==
  ASSUME StreamInv, NEW remaining \in {"nothing", "text", "thinking"}, Completes(remaining)
  PROVE  StreamInv'
<1>1. PICK plan : plan = oMode.plan
  OBVIOUS
<1>2. PICK r : r = CASE remaining = "thinking" /\ oMode.thinking -> ThinkingDelta(Work, FALSE)
                     [] remaining = "text" -> TextDelta(Work, FALSE)
                     [] OTHER -> Work
  OBVIOUS
<1>3. PICK h : h = IF r.sse.textCall THEN TextCall(r) ELSE r
  OBVIOUS
<1>4. PICK tools : tools = \E c \in Calls : Started(h, c)
  OBVIOUS
<1>5. PICK empty : empty = (h.sse.text = -1 /\ h.sse.thinking = -1 /\ ~tools)
  OBVIOUS
<1>6. PICK silent : silent = (~tools /\ ~h.sse.hasText /\ h.sse.hasReasoning)
  OBVIOUS
<1>7. PICK t : t = IF empty \/ silent THEN TextDelta(h, TRUE) ELSE h
  OBVIOUS
<1>8. PICK f : f = FlushCalls(t)
  OBVIOUS
<1>9. PICK w : w = CloseAll(f)
  OBVIOUS
<1>10. PICK v : v = Finish(w)
  OBVIOUS
<1>11. oMode.pc = "stream" /\ OEnd("done") /\ Publish(v) /\ UNCHANGED oSent
  BY <1>2, <1>3, <1>4, <1>5, <1>6, <1>7, <1>8, <1>9, <1>10 DEF Completes
<1>12. Sound(Work) /\ CallsSound(plan, Work, oSent) /\ PlanTyped(plan) /\ oSent \in SentFields
  BY <1>1, <1>11, PlanIsTyped DEF StreamInv
<1>13. Grows(Work, r)
  <2>1. FALSE \in BOOLEAN
    OBVIOUS
  <2>2. Grows(Work, ThinkingDelta(Work, FALSE)) /\ Grows(Work, TextDelta(Work, FALSE)) /\ Grows(Work, Work)
    BY <1>12, <2>1, ThinkingDeltaSound, TextDeltaSound, SoundGrows
  <2>3. r = ThinkingDelta(Work, FALSE) \/ r = TextDelta(Work, FALSE) \/ r = Work
    BY <1>2
  <2> QED BY <2>2, <2>3
<1>14. Sound(r)
  BY <1>13 DEF Grows
<1>15. Grows(r, h)
  <2>1. PICK call : call = r.sse.textCall
    OBVIOUS
  <2>2. h = IF call THEN TextCall(r) ELSE r
    BY <1>3, <2>1
  <2> QED BY <1>14, <2>2, TextCallWhen
<1>16. Sound(h)
  BY <1>15 DEF Grows
<1>17. Grows(h, t) /\ t.sse.next > 0
  <2>1. empty = (h.sse.text = -1 /\ h.sse.thinking = -1 /\ ~\E c \in Calls : Started(h, c))
    BY <1>4, <1>5
  <2> QED BY <1>1, <1>7, <1>12, <1>16, <2>1, CompletesSound
<1>18. Sound(t) /\ CallsSound(plan, t, oSent)
  <2>1. Grows(Work, h)
    BY <1>12, <1>13, <1>15, GrowsOn
  <2>2. Grows(Work, t)
    BY <1>12, <1>17, <2>1, GrowsOn
  <2>3. Sound(t)
    BY <2>2 DEF Grows
  <2> QED BY <1>12, <2>2, <2>3, CallsKept
<1>19. PICK sent : sent = oSent.fragments
  OBVIOUS
<1>20. PICK began : began = oSent.startedAs
  OBVIOUS
<1>21. sent \in [Calls -> Nat] /\ \A c \in Calls : CallSound(plan, t, c, sent[c], began[c])
  BY <1>12, <1>18, <1>19, <1>20 DEF SentFields, CallsSound
<1>22. /\ Sound(f) /\ f.sse = t.sse
       /\ \A c \in Calls : began[c] = "full" => f.calls[c].block >= 0 /\ Arrived(plan, f, c, sent[c])
  BY <1>1, <1>8, <1>12, <1>18, <1>21, FlushCallsSound
<1>23. Closed(w) /\ w.sse.next = f.sse.next /\ w.calls = f.calls /\ InputKept(f, w)
  BY <1>9, <1>22, CloseAllSound
<1>24. IsWork(v) /\ v.calls = w.calls /\ v.client.input = w.client.input /\ Complete(v.client)
  <2>1. w.sse.next > 0
    BY <1>17, <1>22, <1>23
  <2> QED BY <1>10, <1>23, <2>1, FinishSound
<1>25. oMode \in Modes
  BY DEF StreamInv
<1>26. oMode'.plan = plan /\ oClient' = v.client /\ oCalls' = v.calls /\ oSent' = oSent
  <2>1. oMode'.plan = plan
    BY <1>1, <1>11, <1>25 DEF OEnd, Modes
  <2> QED BY <1>11, <1>24, <2>1, Published
<1>27. ASSUME NEW c \in Calls, began[c] = "full"
       PROVE  oClient'.input[oCalls'[c].block + 1] = FinalInput(plan, c, sent[c])
  <2>1. f.calls[c].block >= 0 /\ f.client.input[f.calls[c].block + 1] = FinalInput(plan, c, sent[c])
    BY <1>22, <1>27 DEF Arrived
  <2>2. w.client.input[f.calls[c].block + 1] = f.client.input[f.calls[c].block + 1]
    BY <1>23, <2>1 DEF InputKept
  <2> QED BY <1>23, <1>24, <1>26, <2>1, <2>2
<1>28. ArgumentsDelivered'
  <2> SUFFICES ASSUME NEW c \in Calls, began[c] = "full"
               PROVE  oClient'.input[oCalls'[c].block + 1] =
                        FinalOf(plan[c], [i \in 1..sent[c] |-> i])
    BY <1>19, <1>20, <1>26 DEF ArgumentsDelivered, IsJson, FinalOf
  <2>1. FinalInput(plan, c, sent[c]) = FinalOf(plan[c], [i \in 1..sent[c] |-> i])
    BY <1>12, <1>21, FinalIs
  <2> QED BY <1>27, <2>1
<1> QED BY <1>11, <1>24, <1>28, StreamEnds

LEMMA StreamStep == StreamInv /\ [ONext]_oVars => StreamInv'
<1> SUFFICES ASSUME StreamInv, [ONext]_oVars PROVE StreamInv'
  OBVIOUS
<1>1. CASE \E blank \in BOOLEAN : ThinkingPiece(blank)
  BY <1>1, ThinkingPieceKeeps
<1>2. CASE \E shown, blank, call, begun \in BOOLEAN : TextPiece(shown, blank, call, begun)
  <2>1. PICK shown \in BOOLEAN, blank \in BOOLEAN, call \in BOOLEAN, begun \in BOOLEAN :
          TextPiece(shown, blank, call, begun)
    BY <1>2
  <2> QED BY <2>1, TextPieceKeeps
<1>3. CASE \E c \in Calls, name \in {"none", "part", "rest", "full"}, n \in 0..2 : ToolDelta(c, name, n)
  <2>1. PICK c \in Calls, name \in {"none", "part", "rest", "full"}, n \in 0..2 : ToolDelta(c, name, n)
    BY <1>3
  <2> QED BY <2>1, ToolDeltaKeeps
<1>4. CASE UpstreamError
  BY <1>4, UpstreamErrorKeeps
<1>5. CASE ClientLeaves
  BY <1>5, ClientLeavesKeeps
<1>6. CASE \E remaining \in {"nothing", "text", "thinking"} : Completes(remaining)
  BY <1>6, CompletesKeeps
<1>7. CASE UNCHANGED oVars
  <2>1. UNCHANGED <<oMode, oSse, oCalls, oSent, oClient>>
    BY <1>7 DEF oVars
  <2>2. Work' = Work
    BY <2>1 DEF Work
  <2>3. oMode'.pc = "stream" => Sound(Work') /\ CallsSound(oMode'.plan, Work', oSent')
    BY <2>1, <2>2 DEF StreamInv
  <2>4. StreamContract'
    BY <2>1 DEF StreamInv, StreamContract
  <2>5. ArgumentsDelivered'
    BY <2>1 DEF StreamInv, ArgumentsDelivered, IsJson
  <2> QED BY <2>1, <2>3, <2>4, <2>5 DEF StreamInv, Work
<1> QED BY <1>1, <1>2, <1>3, <1>4, <1>5, <1>6, <1>7 DEF ONext

\* What the client of a stream reads is a message, and it ends with nothing open.
THEOREM StreamsAreMessages == OSpec => []StreamContract
<1>1. StreamInv => StreamContract
  BY DEF StreamInv
<1> QED BY <1>1, StreamInit, StreamStep, PTL DEF OSpec

\* The arguments of a call announced by its full name arrive whole.
THEOREM ArgumentsArrive == OSpec => []ArgumentsDelivered
<1>1. StreamInv => ArgumentsDelivered
  BY DEF StreamInv
<1> QED BY <1>1, StreamInit, StreamStep, PTL DEF OSpec

-----------------------------------------------------------------------------
(***************************************************************************)
(* The tracker of a native stream: its stack is the open blocks, each      *)
(* once, and its maximum is the last index that was given out.             *)
(***************************************************************************)
Tracks(t, n, open) ==
  /\ t = [stack |-> t.stack, max |-> t.max]
  /\ t.stack \in Seq(Int) /\ t.max = n - 1
  /\ \A j, k \in DOMAIN t.stack : t.stack[j] = t.stack[k] => j = k
  /\ \A k \in DOMAIN t.stack : \E b \in open : b[1] = t.stack[k]
  /\ \A b \in open : \E k \in DOMAIN t.stack : t.stack[k] = b[1]

\* Tracker and client agree on what is open.
Agree(t, c, n, open) == Reads(c, n, open) /\ Tracks(t, n, open)

LEMMA StackAppend ==
  ASSUME NEW s \in Seq(Int), NEW i \in Int
  PROVE  /\ Append(s, i) \in Seq(Int) /\ Len(Append(s, i)) = Len(s) + 1
         /\ DOMAIN Append(s, i) = 1..(Len(s) + 1) /\ DOMAIN s = 1..Len(s) /\ Len(s) \in Nat
         /\ Append(s, i)[Len(s) + 1] = i
         /\ \A k \in DOMAIN s : Append(s, i)[k] = s[k]
OBVIOUS

LEMMA TrackStart ==
  ASSUME NEW t, NEW c, NEW n, NEW open, Agree(t, c, n, open), NEW kind \in Kinds
  PROVE  Agree(Observe(t, BlockStart(n, kind)), Accept(c, BlockStart(n, kind)), n + 1, open \cup {<<n, kind>>})
<1>1. PICK ev : ev = BlockStart(n, kind)
  OBVIOUS
<1>2. ev.type = "start" /\ ev.index = n
  BY <1>1 DEF BlockStart
<1>3. n \in Nat /\ \A b \in open : b[1] \in 0..(n - 1)
  BY DEF Agree, Reads
<1>4. PICK s : s = t.stack
  OBVIOUS
<1>5. /\ s \in Seq(Int) /\ t.max = n - 1 /\ t = [stack |-> s, max |-> n - 1]
      /\ \A j, k \in DOMAIN s : s[j] = s[k] => j = k
      /\ \A k \in DOMAIN s : \E b \in open : b[1] = s[k]
      /\ \A b \in open : \E k \in DOMAIN s : s[k] = b[1]
  BY <1>4 DEF Agree, Tracks
<1>6. PICK r : r = Append(s, n)
  OBVIOUS
<1>7. PICK d : d = Observe(t, ev)
  OBVIOUS
<1>8. d = [stack |-> r, max |-> n]
  <2>1. n > t.max
    BY <1>3, <1>5
  <2> QED BY <1>2, <1>4, <1>6, <1>7, <2>1 DEF Observe
<1>9. d.stack = r /\ d.max = (n + 1) - 1 /\ d = [stack |-> d.stack, max |-> d.max]
  BY <1>3, <1>8
<1>10. PICK m : m = Len(s)
  OBVIOUS
<1>11. /\ r \in Seq(Int) /\ DOMAIN r = 1..(m + 1) /\ DOMAIN s = 1..m /\ m \in Nat
       /\ r[m + 1] = n /\ \A k \in DOMAIN s : r[k] = s[k]
  BY <1>3, <1>5, <1>6, <1>10, StackAppend
<1>12. \A k \in DOMAIN s : s[k] # n
  BY <1>3, <1>5
<1>13. \A k \in DOMAIN r : k \in DOMAIN s \/ k = m + 1
  BY <1>11
<1>14. PICK new : new = <<n, kind>>
  OBVIOUS
<1>15. new[1] = n
  BY <1>14
<1>16. PICK more : more = open \cup {new}
  OBVIOUS
<1>17. \A j, k \in DOMAIN r : r[j] = r[k] => j = k
  BY <1>5, <1>11, <1>12, <1>13
<1>18. ASSUME NEW k \in DOMAIN r PROVE \E b \in more : b[1] = r[k]
  <2>1. CASE k = m + 1
    <3>1. new \in more /\ new[1] = r[k]
      BY <1>11, <1>15, <1>16, <2>1
    <3> QED BY <3>1
  <2>2. CASE k \in DOMAIN s
    <3>1. PICK b \in open : b[1] = s[k]
      BY <1>5, <2>2
    <3>2. b \in more /\ r[k] = s[k]
      BY <1>11, <1>16, <2>2
    <3> QED BY <3>1, <3>2
  <2> QED BY <1>13, <2>1, <2>2
<1>19. \A b \in more : \E k \in DOMAIN r : r[k] = b[1]
  <2>1. m + 1 \in DOMAIN r /\ \A k \in DOMAIN s : k \in DOMAIN r
    BY <1>11
  <2> QED BY <1>5, <1>11, <1>15, <1>16, <2>1
<1>20. Tracks(d, n + 1, more)
  BY <1>9, <1>11, <1>17, <1>18, <1>19 DEF Tracks
<1>21. Reads(Accept(c, ev), n + 1, more)
  BY <1>1, <1>14, <1>16, ReadStart DEF Agree
<1> QED BY <1>1, <1>7, <1>14, <1>16, <1>20, <1>21 DEF Agree

\* What is left of a stack when one element of it is taken out.
LEMMA StackRemove ==
  ASSUME NEW s \in Seq(Int), NEW k \in DOMAIN s
  PROVE  /\ RemoveAt(s, k) \in Seq(Int) /\ Len(RemoveAt(s, k)) = Len(s) - 1
         /\ \A j \in 1..(Len(s) - 1) : RemoveAt(s, k)[j] = IF j < k THEN s[j] ELSE s[j + 1]
<1>1. k \in 1..Len(s) /\ Len(s) \in Nat
  OBVIOUS
<1>2. PICK a : a = SubSeq(s, 1, k - 1)
  OBVIOUS
<1>3. PICK b : b = SubSeq(s, k + 1, Len(s))
  OBVIOUS
<1>4. a \in Seq(Int) /\ Len(a) = k - 1 /\ \A j \in 1..(k - 1) : a[j] = s[j]
  <2>1. \A j \in 1..(k - 1) : s[j] \in Int
    BY <1>1
  <2> QED BY <1>1, <1>2, <2>1
<1>5. b \in Seq(Int) /\ Len(b) = Len(s) - k /\ \A j \in 1..(Len(s) - k) : b[j] = s[j + k]
  <2>1. \A j \in (k + 1)..Len(s) : s[j] \in Int
    BY <1>1
  <2> QED BY <1>1, <1>3, <2>1
<1>6. PICK r : r = a \o b
  OBVIOUS
<1>7. RemoveAt(s, k) = r
  BY <1>2, <1>3, <1>6 DEF RemoveAt
<1>8. r \in Seq(Int) /\ Len(r) = Len(s) - 1
  BY <1>1, <1>4, <1>5, <1>6
<1>9. ASSUME NEW j \in 1..(Len(s) - 1) PROVE r[j] = IF j < k THEN s[j] ELSE s[j + 1]
  <2>1. CASE j < k
    <3>1. j \in 1..Len(a)
      BY <1>1, <1>4, <2>1
    <3>2. r[j] = a[j]
      BY <1>4, <1>5, <1>6, <3>1
    <3> QED BY <1>4, <2>1, <3>1, <3>2
  <2>2. CASE ~(j < k)
    <3>1. PICK p : p = k - 1
      OBVIOUS
    <3>2. PICK m : m = Len(s)
      OBVIOUS
    <3>3. k \in 1..m /\ m \in Nat /\ j \in 1..(m - 1)
      BY <1>1, <3>2
    <3>4. p \in Nat /\ j - p \in 1..(m - k) /\ (j - p) + k = j + 1 /\ ~(j <= p) /\ j <= p + (m - k)
      <4>1. k \in Int /\ m \in Int /\ j \in Int /\ 1 <= k /\ k <= m /\ 1 <= j /\ j <= m - 1
        BY <3>3
      <4>2. j >= k
        BY <2>2, <4>1
      <4> HIDE <2>2
      <4>3. p \in Int /\ p >= 0 /\ j - p >= 1 /\ j - p <= m - k /\ (j - p) + k = j + 1 /\ ~(j <= p) /\ j <= p + (m - k)
        BY <3>1, <4>1, <4>2
      <4> QED BY <4>1, <4>3
    <3>5. Len(a) = p /\ Len(b) = m - k
      BY <1>4, <1>5, <3>1, <3>2
    <3>6. r[j] = b[j - p]
      <4>1. j \in 1..(Len(a) + Len(b))
        BY <3>3, <3>4, <3>5
      <4>2. (a \o b)[j] = IF j <= Len(a) THEN a[j] ELSE b[j - Len(a)]
        BY <1>4, <1>5, <4>1, ConcatProperties
      <4> QED BY <1>6, <3>4, <3>5, <4>2
    <3>7. b[j - p] = s[(j - p) + k]
      BY <1>5, <3>2, <3>4
    <3> QED BY <2>2, <3>4, <3>6, <3>7
  <2> QED BY <2>1, <2>2
<1> QED BY <1>7, <1>8, <1>9

LEMMA TrackStop ==
  ASSUME NEW t, NEW c, NEW n, NEW open, Agree(t, c, n, open), NEW i, NEW kind, <<i, kind>> \in open
  PROVE  Agree(Observe(t, BlockStop(i)), Accept(c, BlockStop(i)), n, open \ {<<i, kind>>})
<1>1. PICK ev : ev = BlockStop(i)
  OBVIOUS
<1>2. ev.type = "stop" /\ ev.index = i
  BY <1>1 DEF BlockStop
<1>3. \A b, d \in open : b[1] = d[1] => b = d
  BY DEF Agree, Reads
<1>4. PICK s : s = t.stack
  OBVIOUS
<1>5. /\ s \in Seq(Int) /\ t.max = n - 1
      /\ \A j, k \in DOMAIN s : s[j] = s[k] => j = k
      /\ \A k \in DOMAIN s : \E b \in open : b[1] = s[k]
      /\ \A b \in open : \E k \in DOMAIN s : s[k] = b[1]
  BY <1>4 DEF Agree, Tracks
<1>6. PICK gone : gone = <<i, kind>>
  OBVIOUS
<1>7. gone[1] = i /\ gone \in open
  BY <1>6
<1>8. \E k \in DOMAIN s : s[k] = i
  BY <1>5, <1>7
<1>9. PICK k : k = CHOOSE l \in DOMAIN s : s[l] = i
  OBVIOUS
<1>10. k \in DOMAIN s /\ s[k] = i
  BY <1>8, <1>9
<1>11. PICK r : r = RemoveAt(s, k)
  OBVIOUS
<1>12. PICK d : d = Observe(t, ev)
  OBVIOUS
<1>13. d = [stack |-> r, max |-> n - 1]
  <2>1. Without(s, i) = r
    BY <1>8, <1>9, <1>11 DEF Without
  <2> QED BY <1>2, <1>4, <1>5, <1>12, <2>1 DEF Observe
<1>14. d.stack = r /\ d.max = n - 1 /\ d = [stack |-> d.stack, max |-> d.max]
  BY <1>13
<1>15. PICK m : m = Len(s)
  OBVIOUS
<1>16. r \in Seq(Int) /\ Len(r) = m - 1 /\ \A j \in 1..(m - 1) : r[j] = IF j < k THEN s[j] ELSE s[j + 1]
  <2>1. /\ RemoveAt(s, k) \in Seq(Int) /\ Len(RemoveAt(s, k)) = Len(s) - 1
        /\ \A j \in 1..(Len(s) - 1) : RemoveAt(s, k)[j] = IF j < k THEN s[j] ELSE s[j + 1]
    BY <1>5, <1>10, StackRemove
  <2> QED BY <1>11, <1>15, <2>1
<1>17. DOMAIN r = 1..(m - 1) /\ DOMAIN s = 1..m /\ m \in Nat /\ k \in 1..m
  BY <1>5, <1>10, <1>15, <1>16
<1>18. PICK at : at = [j \in 1..(m - 1) |-> IF j < k THEN j ELSE j + 1]
  OBVIOUS
<1>19. \A j \in DOMAIN r : at[j] \in DOMAIN s /\ at[j] # k /\ r[j] = s[at[j]]
  BY <1>16, <1>17, <1>18
<1>20. \A j, l \in DOMAIN r : at[j] = at[l] => j = l
  BY <1>17, <1>18
<1>21. \A l \in DOMAIN s : l # k => \E j \in DOMAIN r : at[j] = l
  <2> SUFFICES ASSUME NEW l \in DOMAIN s, l # k PROVE \E j \in DOMAIN r : at[j] = l
    OBVIOUS
  <2>1. CASE l < k
    <3>1. l \in DOMAIN r /\ at[l] = l
      BY <1>17, <1>18, <2>1
    <3> QED BY <3>1
  <2>2. CASE ~(l < k)
    <3>1. l - 1 \in DOMAIN r /\ at[l - 1] = l
      BY <1>17, <1>18, <2>2
    <3> QED BY <3>1
  <2> QED BY <2>1, <2>2
<1>22. PICK left : left = open \ {gone}
  OBVIOUS
<1>23. \A j, l \in DOMAIN r : r[j] = r[l] => j = l
  <2> SUFFICES ASSUME NEW j \in DOMAIN r, NEW l \in DOMAIN r, r[j] = r[l] PROVE j = l
    OBVIOUS
  <2>1. /\ at[j] \in DOMAIN s /\ r[j] = s[at[j]]
        /\ at[l] \in DOMAIN s /\ r[l] = s[at[l]]
    BY <1>19
  <2>2. at[j] = at[l]
    BY <1>5, <2>1
  <2> QED BY <1>20, <2>2
<1>24. \A j \in DOMAIN r : \E b \in left : b[1] = r[j]
  <2> SUFFICES ASSUME NEW j \in DOMAIN r PROVE \E b \in left : b[1] = r[j]
    OBVIOUS
  <2>1. at[j] \in DOMAIN s /\ at[j] # k /\ r[j] = s[at[j]]
    BY <1>19
  <2>2. s[at[j]] # i
    BY <1>5, <1>10, <2>1
  <2>3. PICK b \in open : b[1] = s[at[j]]
    BY <1>5, <2>1
  <2> QED BY <1>7, <1>22, <2>1, <2>2, <2>3
<1>25. \A b \in left : \E j \in DOMAIN r : r[j] = b[1]
  <2> SUFFICES ASSUME NEW b \in left PROVE \E j \in DOMAIN r : r[j] = b[1]
    OBVIOUS
  <2>1. b \in open /\ b # gone
    BY <1>22
  <2>2. b[1] # i
    BY <1>3, <1>7, <2>1
  <2>3. PICK l \in DOMAIN s : s[l] = b[1]
    BY <1>5, <2>1
  <2>4. PICK j \in DOMAIN r : at[j] = l
    BY <1>10, <1>21, <2>2, <2>3
  <2> QED BY <1>19, <2>3, <2>4
<1>26. Tracks(d, n, left)
  BY <1>14, <1>16, <1>23, <1>24, <1>25 DEF Tracks
<1>27. Reads(Accept(c, ev), n, left)
  BY <1>1, <1>6, <1>22, ReadStop DEF Agree
<1> QED BY <1>1, <1>6, <1>12, <1>22, <1>26, <1>27 DEF Agree

LEMMA TrackDelta ==
  ASSUME NEW t, NEW c, NEW n, NEW open, Agree(t, c, n, open), NEW i, NEW kind, <<i, kind>> \in open
  PROVE  Agree(Observe(t, BlockDelta(i, kind, <<>>)), Accept(c, BlockDelta(i, kind, <<>>)), n, open)
<1>1. PICK nothing : nothing = <<>>
  OBVIOUS
<1>2. PICK ev : ev = BlockDelta(i, kind, nothing)
  OBVIOUS
<1>3. ev.type = "delta"
  BY <1>2 DEF BlockDelta
<1>4. Observe(t, ev) = t
  BY <1>3 DEF Observe
<1>5. nothing \in Seq(Int)
  BY <1>1
<1>6. Reads(Accept(c, ev), n, open)
  BY <1>2, <1>5, ReadDelta DEF Agree
<1> QED BY <1>1, <1>2, <1>4, <1>6 DEF Agree

\* The other events leave the tracker alone.
LEMMA TrackMessage ==
  ASSUME NEW t, NEW type \in {"message_start", "message_delta", "message_stop", "noise"}
  PROVE  Observe(t, MessageEvent(type)) = t
<1>1. PICK ev : ev = MessageEvent(type)
  OBVIOUS
<1>2. ev.type = type
  BY <1>1 DEF MessageEvent
<1>3. ev.type # "start" /\ ev.type # "stop"
  BY <1>2
<1>4. Observe(t, ev) = t
  BY <1>3 DEF Observe
<1> QED BY <1>1, <1>4

\* message_start begins a message without blocks.
LEMMA MessageBegins == Reads(Accept(NewClient, MessageEvent("message_start")), 0, {})
<1>1. PICK ev : ev = MessageEvent("message_start")
  OBVIOUS
<1>2. ev.type = "message_start"
  BY <1>1 DEF MessageEvent
<1>3. PICK start : start = NewClient
  OBVIOUS
<1>4. start = [starts |-> 0, stops |-> 0, open |-> {}, seen |-> {}, input |-> <<>>, ok |-> TRUE]
  BY <1>3 DEF NewClient
<1>5. (start.ok /\ Expected(start, ev)) = TRUE
  BY <1>2, <1>4 DEF Expected
<1>6. PICK d : d = Accept(start, ev)
  OBVIOUS
<1>7. d = [starts |-> 1, stops |-> 0, open |-> {}, seen |-> {}, input |-> <<>>, ok |-> TRUE]
  <2>1. start.starts + 1 = 1 /\ start.stops = 0 /\ start.open = {} /\ start.seen = {} /\ start.input = <<>>
    BY <1>4
  <2>2. d = [starts |-> start.starts + 1, stops |-> start.stops, open |-> start.open, seen |-> start.seen,
             input |-> start.input, ok |-> start.ok /\ Expected(start, ev)]
    BY <1>2, <1>6 DEF Accept
  <2> QED BY <1>5, <2>1, <2>2
<1>8. d \in Client
  <2>1. <<>> \in Seq(Seq(Int))
    OBVIOUS
  <2> QED BY <1>7, <2>1 DEF Client
<1>9. d.starts = 1 /\ d.stops = 0 /\ d.ok /\ d.seen = 0..(0 - 1) /\ Len(d.input) = 0 /\ d.open = {}
  <2>1. 0..(0 - 1) = {} /\ Len(<<>>) = 0
    OBVIOUS
  <2> QED BY <1>7, <2>1
<1>10. Reads(d, 0, {})
  BY <1>8, <1>9 DEF Reads
<1> QED BY <1>1, <1>3, <1>6, <1>10

\* The recursion of ReadAll is a function on 0..Len(events).
ReadUpTo(f, c, events, m) == f = [n \in 0..m |-> IF n = 0 THEN c ELSE Accept(f[n - 1], events[n])]

LEMMA ReadExists == ASSUME NEW c, NEW events, NEW all \in Nat PROVE \E f : ReadUpTo(f, c, events, all)
<1>1. PICK T : T = {m \in Nat : ~\E f : ReadUpTo(f, c, events, m)}
  OBVIOUS
<1>2. SUFFICES ASSUME T # {} PROVE FALSE
  BY <1>1
<1>3. PICK m \in T : \A y \in T : m <= y
  BY <1>1, <1>2, LeastIndex
<1>4. CASE m = 0
  <2>1. PICK f : f = [n \in 0..0 |-> c]
    OBVIOUS
  <2>2. f = [n \in 0..0 |-> IF n = 0 THEN c ELSE Accept(f[n - 1], events[n])]
    BY <2>1
  <2>3. ReadUpTo(f, c, events, 0)
    BY <2>2 DEF ReadUpTo
  <2> QED BY <1>1, <1>4, <2>3
<1>5. CASE m # 0
  <2>1. m \in Nat /\ m - 1 \in Nat /\ m - 1 \notin T
    BY <1>1, <1>3, <1>5
  <2>2. PICK g : ReadUpTo(g, c, events, m - 1)
    BY <1>1, <2>1
  <2>3. PICK last : last = Accept(g[m - 1], events[m])
    OBVIOUS
  <2>4. PICK f : f = [n \in 0..m |-> IF n = m THEN last ELSE g[n]]
    OBVIOUS
  <2>5. \A n \in 0..(m - 1) : g[n] = IF n = 0 THEN c ELSE Accept(g[n - 1], events[n])
    BY <2>2 DEF ReadUpTo
  <2>6. f[m] = last /\ \A n \in 0..(m - 1) : f[n] = g[n]
    BY <2>1, <2>4
  <2>7. ASSUME NEW n \in 0..m PROVE f[n] = IF n = 0 THEN c ELSE Accept(f[n - 1], events[n])
    <3>1. n = m \/ n \in 0..(m - 1)
      BY <2>1
    <3>2. CASE n = 0
      BY <1>5, <2>5, <2>6, <3>1, <3>2
    <3>3. CASE n # 0
      <4>1. n - 1 \in 0..(m - 1)
        BY <2>1, <3>3
      <4>2. f[n - 1] = g[n - 1]
        BY <2>6, <4>1
      <4>3. CASE n = m
        BY <2>3, <2>6, <3>3, <4>2, <4>3
      <4>4. CASE n \in 0..(m - 1)
        BY <2>5, <2>6, <3>3, <4>2, <4>4
      <4> QED BY <3>1, <4>3, <4>4
    <3> QED BY <3>2, <3>3
  <2>8. f = [n \in 0..m |-> f[n]]
    BY <2>4
  <2>9. f = [n \in 0..m |-> IF n = 0 THEN c ELSE Accept(f[n - 1], events[n])]
    BY <2>7, <2>8
  <2>10. ReadUpTo(f, c, events, m)
    BY <2>9 DEF ReadUpTo
  <2> QED BY <1>1, <1>3, <2>10
<1> QED BY <1>4, <1>5

\* ReadAll reads one event after the other.
\* f holds the reader before and after every event.
Reading(f, c, events, len) ==
  /\ f[0] = c /\ ReadAll(c, events) = f[len]
  /\ \A n \in 1..len : f[n] = Accept(f[n - 1], events[n])

LEMMA ReadAllSteps ==
  ASSUME NEW c, NEW events, NEW len \in Nat, Len(events) = len
  PROVE  \E f : Reading(f, c, events, len)
<1>2. PICK f : f = CHOOSE g : ReadUpTo(g, c, events, len)
  OBVIOUS
<1>3. ReadUpTo(f, c, events, len)
  BY <1>2, ReadExists
<1>4. ReadAll(c, events) = f[len]
  BY <1>2 DEF ReadAll, ReadUpTo
<1>5. \A n \in 0..len : f[n] = IF n = 0 THEN c ELSE Accept(f[n - 1], events[n])
  BY <1>3 DEF ReadUpTo
<1>6. 0 \in 0..len /\ \A n \in 1..len : n \in 0..len /\ n # 0
  OBVIOUS
<1>7. f[0] = c /\ \A n \in 1..len : f[n] = Accept(f[n - 1], events[n])
  BY <1>5, <1>6
<1> QED BY <1>4, <1>7 DEF Reading

\* A message whose blocks are closed ends well with the error's own block.
LEMMA ErrorTailEnds ==
  ASSUME NEW c, NEW n, Reads(c, n, {})
  PROVE  Complete(ReadAll(c, ErrorTail(n)))
<1>1. PICK kind : kind = "text"
  OBVIOUS
<1>2. PICK type : type = "message_delta"
  OBVIOUS
<1>3. PICK e1 : e1 = BlockStart(n, kind)
  OBVIOUS
<1>4. PICK e2 : e2 = BlockDelta(n, kind, <<>>)
  OBVIOUS
<1>5. PICK e3 : e3 = BlockStop(n)
  OBVIOUS
<1>6. PICK e4 : e4 = MessageEvent(type)
  OBVIOUS
<1>7. PICK e5 : e5 = MessageEvent("message_stop")
  OBVIOUS
<1>8. PICK events : events = <<e1, e2, e3, e4, e5>>
  OBVIOUS
<1>9. ErrorTail(n) = events
  BY <1>1, <1>2, <1>3, <1>4, <1>5, <1>6, <1>7, <1>8 DEF ErrorTail
<1>10. /\ Len(events) = 5 /\ events[1] = e1 /\ events[2] = e2 /\ events[3] = e3
       /\ events[4] = e4 /\ events[5] = e5
  BY <1>8
<1>11. PICK f : Reading(f, c, events, 5)
  <2>1. PICK five : five = 5
    OBVIOUS
  <2>2. five \in Nat /\ Len(events) = five
    BY <1>10, <2>1
  <2>3. \E f : Reading(f, c, events, five)
    BY <2>2, ReadAllSteps
  <2> QED BY <2>1, <2>3
<1>12. f[1] = Accept(c, e1) /\ f[2] = Accept(f[1], e2) /\ f[3] = Accept(f[2], e3)
  <2>1. 1 - 1 = 0 /\ 2 - 1 = 1 /\ 3 - 1 = 2 /\ 1 \in 1..5 /\ 2 \in 1..5 /\ 3 \in 1..5
    OBVIOUS
  <2> QED BY <1>10, <1>11, <2>1 DEF Reading
<1>13. f[4] = Accept(f[3], e4) /\ f[5] = Accept(f[4], e5)
  <2>1. 4 - 1 = 3 /\ 5 - 1 = 4 /\ 4 \in 1..5 /\ 5 \in 1..5
    OBVIOUS
  <2> QED BY <1>10, <1>11, <2>1 DEF Reading
<1>14. PICK s : s = f[3]
  OBVIOUS
<1>15. Reads(s, n + 1, {})
  <2>1. kind \in Kinds
    BY <1>1 DEF Kinds
  <2>2. s = Accept(Accept(Accept(c, BlockStart(n, kind)), BlockDelta(n, kind, <<>>)), BlockStop(n))
    BY <1>3, <1>4, <1>5, <1>12, <1>14
  <2> QED BY <2>1, <2>2, ReadWhole
<1>16. PICK d : d = f[4]
  OBVIOUS
<1>17. Reads(d, n + 1, {})
  <2>1. type \in {"message_delta", "error"} /\ d = Accept(s, MessageEvent(type))
    BY <1>2, <1>6, <1>13, <1>14, <1>16
  <2> QED BY <1>15, <2>1, ReadMessage
<1>18. PICK m : m = n + 1
  OBVIOUS
<1>19. m > 0
  BY <1>18 DEF Reads
<1>20. Complete(f[5])
  <2>1. f[5] = Accept(d, MessageEvent("message_stop"))
    BY <1>7, <1>13, <1>16
  <2> QED BY <1>17, <1>18, <1>19, <2>1, ReadEnd
<1> QED BY <1>9, <1>11, <1>20 DEF Reading

\* The blocks whose index is among the lowest m of the stack.
Beneath(open, stack, m) == {b \in open : \E k \in 1..m : stack[k] = b[1]}

\* iter_close_unclosed_blocks closes what is open.
LEMMA CloseUnclosedCloses ==
  ASSUME NEW t, NEW c, NEW n, NEW open, Agree(t, c, n, open)
  PROVE  Reads(ReadAll(c, CloseUnclosed(t.stack)), n, {})
<1>1. PICK s : s = t.stack
  OBVIOUS
<1>2. PICK len : len = Len(s)
  OBVIOUS
<1>3. /\ s \in Seq(Int) /\ len \in Nat /\ DOMAIN s = 1..len
      /\ \A j, k \in 1..len : s[j] = s[k] => j = k
      /\ \A k \in 1..len : \E b \in open : b[1] = s[k]
      /\ \A b \in open : \E k \in 1..len : s[k] = b[1]
  <2>1. s \in Seq(Int)
    BY <1>1 DEF Agree, Tracks
  <2>2. DOMAIN s = 1..len /\ len \in Nat
    BY <1>2, <2>1
  <2> QED BY <1>1, <2>1, <2>2 DEF Agree, Tracks
<1>4. /\ Reads(c, n, open) /\ open \subseteq Nat \X Kinds
      /\ \A b, d \in open : b[1] = d[1] => b = d
  BY DEF Agree, Reads, Client
<1>5. PICK events : events = CloseUnclosed(s)
  OBVIOUS
<1>6. Len(events) = len /\ \A m \in 1..len : events[m] = BlockStop(s[(len - m) + 1])
  <2>1. PICK back : back = Reverse(s)
    OBVIOUS
  <2>2. \A m \in 1..len : back[m] = s[(len - m) + 1]
    BY <1>2, <2>1 DEF Reverse
  <2>3. PICK stop : stop = [m \in 1..len |-> BlockStop(back[m])]
    OBVIOUS
  <2>4. events = stop
    BY <1>3, <1>5, <2>1, <2>3 DEF CloseUnclosed
  <2>5. Len(stop) = len
    BY <1>3, <2>3
  <2> QED BY <2>2, <2>3, <2>4, <2>5
<1>7. PICK f : /\ f[0] = c /\ ReadAll(c, events) = f[len]
               /\ \A m \in 1..len : f[m] = Accept(f[m - 1], events[m])
  <2>1. PICK f : Reading(f, c, events, len)
    BY <1>3, <1>6, ReadAllSteps
  <2> QED BY <2>1 DEF Reading
<1>8. \A m \in 1..len : f[m] = Accept(f[m - 1], BlockStop(s[(len - m) + 1]))
  BY <1>6, <1>7
<1>9. PICK T : T = {m \in 0..len : ~Reads(f[m], n, Beneath(open, s, len - m))}
  OBVIOUS
<1>10. T = {}
  <2> SUFFICES ASSUME T # {} PROVE FALSE
    OBVIOUS
  <2>1. T \subseteq Nat
    BY <1>9
  <2>2. PICK m \in T : \A y \in T : m <= y
    BY <2>1, LeastIndex
  <2>3. m \in 0..len /\ ~Reads(f[m], n, Beneath(open, s, len - m))
    BY <1>9
  <2>4. CASE m = 0
    <3>1. f[0] = c
      BY <1>7
    <3>2. len - 0 = len
      BY <1>3
    <3>3. Beneath(open, s, len) = open
      BY <1>3 DEF Beneath
    <3> QED BY <1>4, <2>3, <2>4, <3>1, <3>2, <3>3
  <2>5. CASE m # 0
    <3>1. m - 1 \in 0..len /\ m - 1 \notin T
      BY <1>3, <2>2, <2>3, <2>5
    <3>2. PICK before : before = Beneath(open, s, len - (m - 1))
      OBVIOUS
    <3>3. Reads(f[m - 1], n, before)
      BY <1>9, <3>1, <3>2
    <3>4. PICK k : k = (len - m) + 1
      OBVIOUS
    <3>5. k \in 1..len /\ len - (m - 1) = k /\ len - m = k - 1
      <4>1. len \in Nat /\ m \in 1..len
        BY <1>3, <2>3, <2>5
      <4> QED BY <3>4, <4>1
    <3>6. PICK b \in open : b[1] = s[k]
      BY <1>3, <3>5
    <3>7. PICK i : i = b[1]
      OBVIOUS
    <3>8. PICK kind : kind = b[2]
      OBVIOUS
    <3>9. b = <<i, kind>>
      BY <1>4, <3>6, <3>7, <3>8
    <3>10. b \in before
      BY <3>2, <3>5, <3>6 DEF Beneath
    <3>11. f[m] = Accept(f[m - 1], BlockStop(i))
      <4>1. m \in 1..len
        BY <1>3, <2>3, <2>5
      <4> QED BY <1>8, <3>4, <3>6, <3>7, <4>1
    <3>12. Reads(f[m], n, before \ {b})
      BY <3>3, <3>9, <3>10, <3>11, ReadStop
    <3>13. before \ {b} = Beneath(open, s, k - 1)
      <4>1. before = Beneath(open, s, k)
        BY <3>2, <3>5
      <4>2. ASSUME NEW d \in open, d # b, NEW l \in 1..k, s[l] = d[1] PROVE l \in 1..(k - 1)
        <5>1. s[l] # s[k]
          BY <1>4, <3>6, <4>2
        <5> QED BY <3>5, <5>1
      <4>3. ASSUME NEW l \in 1..(k - 1), s[l] = b[1] PROVE FALSE
        <5>1. s[l] = s[k]
          BY <3>6, <4>3
        <5>2. l \in 1..len /\ l # k
          BY <1>3, <3>5
        <5> QED BY <1>3, <3>5, <5>1, <5>2
      <4>4. 1..(k - 1) \subseteq 1..k
        BY <3>5
      <4> QED BY <4>1, <4>2, <4>3, <4>4 DEF Beneath
    <3> QED BY <2>3, <3>5, <3>12, <3>13
  <2> QED BY <2>4, <2>5
<1>11. Reads(f[len], n, Beneath(open, s, len - len))
  <2>1. len \in 0..len
    BY <1>3
  <2> QED BY <1>9, <1>10, <2>1
<1>12. Beneath(open, s, len - len) = {}
  <2>1. 1..(len - len) = {}
    BY <1>3
  <2> QED BY <2>1 DEF Beneath
<1> QED BY <1>1, <1>5, <1>7, <1>11, <1>12

-----------------------------------------------------------------------------
(***************************************************************************)
(* The policy: its open segments are what tracker and client have open.    *)
(***************************************************************************)
Policy ==
  [next: Nat, down: [Upstream -> Int], open: SUBSET Upstream, dropped: SUBSET Upstream,
   suppressed: SUBSET Upstream, stopped: BOOLEAN]

PolicyOf(next, down, open, dropped, suppressed, stopped) ==
  [next |-> next, down |-> down, open |-> open, dropped |-> dropped, suppressed |-> suppressed, stopped |-> stopped]

\* The blocks that are open for the reader.
Segments(p, kind) == {<<p.down[u], kind[u]>> : u \in p.open}

\* Open segments have indexes of their own, and their stops are not ignored.
Laid(p) ==
  /\ p \in Policy /\ p.stopped = FALSE
  /\ \A u \in p.open : p.down[u] \in 0..(p.next - 1)
  /\ \A u, v \in p.open : p.down[u] = p.down[v] => u = v
  /\ p.suppressed \cap p.open = {}

IsSending(w) == w = [p |-> w.p, t |-> w.t, c |-> w.c]

\* Policy, tracker and reader agree.
Passing(w, kind) == IsSending(w) /\ Laid(w.p) /\ Agree(w.t, w.c, w.p.next, Segments(w.p, kind))

WithPolicy(w, p) == [p |-> p, t |-> w.t, c |-> w.c]

LEMMA PolicyMade ==
  ASSUME NEW next \in Nat, NEW down \in [Upstream -> Int], NEW open \in SUBSET Upstream,
         NEW dropped \in SUBSET Upstream, NEW suppressed \in SUBSET Upstream, NEW stopped \in BOOLEAN,
         NEW q, q = PolicyOf(next, down, open, dropped, suppressed, stopped)
  PROVE  /\ q \in Policy /\ q.next = next /\ q.down = down /\ q.open = open
         /\ q.dropped = dropped /\ q.suppressed = suppressed /\ q.stopped = stopped
BY DEF PolicyOf, Policy

LEMMA PolicyIs ==
  ASSUME NEW p \in Policy
  PROVE  /\ p = PolicyOf(p.next, p.down, p.open, p.dropped, p.suppressed, p.stopped)
         /\ p.next \in Nat /\ p.down \in [Upstream -> Int] /\ p.open \in SUBSET Upstream
         /\ p.dropped \in SUBSET Upstream /\ p.suppressed \in SUBSET Upstream /\ p.stopped \in BOOLEAN
BY DEF PolicyOf, Policy

LEMMA SendIs ==
  ASSUME NEW w, NEW ev, NEW v, v = Send(w, ev)
  PROVE  IsSending(v) /\ v.p = w.p /\ v.t = Observe(w.t, ev) /\ v.c = Accept(w.c, ev)
<1>1. PICK t : t = Observe(w.t, ev)
  OBVIOUS
<1>2. PICK c : c = Accept(w.c, ev)
  OBVIOUS
<1>3. v = [p |-> w.p, t |-> t, c |-> c]
  BY <1>1, <1>2 DEF Send
<1>4. v.p = w.p /\ v.t = t /\ v.c = c /\ v = [p |-> v.p, t |-> v.t, c |-> v.c]
  BY <1>3
<1> QED BY <1>1, <1>2, <1>4 DEF IsSending

LEMMA PolicyPut ==
  ASSUME NEW w, IsSending(w), NEW q
  PROVE  /\ [w EXCEPT !.p = q] = WithPolicy(w, q)
         /\ IsSending(WithPolicy(w, q)) /\ WithPolicy(w, q).p = q
         /\ WithPolicy(w, q).t = w.t /\ WithPolicy(w, q).c = w.c
BY DEF IsSending, WithPolicy

\* The client's kinds are the provider's.
LEMMA KindOf == ASSUME NEW kind \in BlockKinds, NEW u \in Upstream PROVE kind[u] \in Kinds
BY UpstreamAssumption DEF Kinds

\* A delta of an open segment.
LEMMA DeltaPasses ==
  ASSUME NEW w, nUp.kind \in BlockKinds, Passing(w, nUp.kind), NEW u \in w.p.open
  PROVE  Passing(DeltaOf(w, u), nUp.kind) /\ DeltaOf(w, u).p = w.p
<1>1. PICK v : v = DeltaOf(w, u)
  OBVIOUS
<1>2. PICK i : i = w.p.down[u]
  OBVIOUS
<1>3. PICK kind : kind = nUp.kind
  OBVIOUS
<1>4. PICK k : k = kind[u]
  OBVIOUS
<1>5. v = Send(w, BlockDelta(i, k, <<>>))
  BY <1>1, <1>2, <1>3, <1>4 DEF DeltaOf
<1>6. /\ IsSending(v) /\ v.p = w.p
      /\ v.t = Observe(w.t, BlockDelta(i, k, <<>>)) /\ v.c = Accept(w.c, BlockDelta(i, k, <<>>))
  BY <1>5, SendIs
<1>7. <<i, k>> \in Segments(w.p, kind)
  BY <1>2, <1>4 DEF Segments
<1>8. Laid(w.p) /\ Agree(w.t, w.c, w.p.next, Segments(w.p, kind))
  BY <1>3 DEF Passing
<1>9. Agree(v.t, v.c, w.p.next, Segments(w.p, kind))
  BY <1>6, <1>7, <1>8, TrackDelta
<1> QED BY <1>1, <1>3, <1>6, <1>8, <1>9 DEF Passing

\* A new segment gets the next index.
LEMMA OpenSegmentPasses ==
  ASSUME NEW w, nUp.kind \in BlockKinds, Passing(w, nUp.kind), NEW u \in Upstream,
         u \notin w.p.open, u \notin w.p.suppressed
  PROVE  LET v == OpenSegment(w, u)
         IN  /\ Passing(v, nUp.kind) /\ v.p.open = w.p.open \cup {u} /\ v.p.dropped = w.p.dropped
             /\ v.p.suppressed = w.p.suppressed
<1>1. PICK p : p = w.p
  OBVIOUS
<1>2. PICK n : n = p.next
  OBVIOUS
<1>3. PICK kind : kind = nUp.kind
  OBVIOUS
<1>4. PICK k : k = kind[u]
  OBVIOUS
<1>5. IsSending(w) /\ Laid(p) /\ Agree(w.t, w.c, n, Segments(p, kind))
  BY <1>1, <1>2, <1>3 DEF Passing
<1>6. p \in Policy
  BY <1>5 DEF Laid
<1>7. /\ p = PolicyOf(p.next, p.down, p.open, p.dropped, p.suppressed, p.stopped)
      /\ p.next \in Nat /\ p.down \in [Upstream -> Int] /\ p.open \in SUBSET Upstream
      /\ p.dropped \in SUBSET Upstream /\ p.suppressed \in SUBSET Upstream /\ p.stopped \in BOOLEAN
  BY <1>6, PolicyIs
<1>8. PICK down : down = [p.down EXCEPT ![u] = n]
  OBVIOUS
<1>9. PICK open : open = p.open \cup {u}
  OBVIOUS
<1>10. PICK more : more = n + 1
  OBVIOUS
<1>11. PICK q : q = Allocated(p, u)
  OBVIOUS
<1>12. q = PolicyOf(more, down, open, p.dropped, p.suppressed, p.stopped)
  BY <1>2, <1>7, <1>8, <1>9, <1>10, <1>11 DEF PolicyOf, Allocated
<1>13. n \in Nat /\ more \in Nat /\ down \in [Upstream -> Int] /\ open \in SUBSET Upstream
  BY <1>2, <1>7, <1>8, <1>9, <1>10
<1>14. /\ q \in Policy /\ q.next = more /\ q.down = down /\ q.open = open
       /\ q.dropped = p.dropped /\ q.suppressed = p.suppressed /\ q.stopped = p.stopped
  BY <1>7, <1>12, <1>13, PolicyMade
<1>15. down[u] = n /\ \A v \in p.open : down[v] = p.down[v]
  BY <1>1, <1>7, <1>8
<1>16. \A v \in p.open : p.down[v] \in 0..(n - 1) /\ p.down[v] # n
  BY <1>2, <1>5, <1>13 DEF Laid
<1>17. Laid(q)
  <2>1. ASSUME NEW v \in open PROVE down[v] \in 0..(more - 1)
    BY <1>9, <1>10, <1>13, <1>15, <1>16
  <2>2. ASSUME NEW v \in open, NEW x \in open, down[v] = down[x] PROVE v = x
    <3>1. \A a, b \in p.open : p.down[a] = p.down[b] => a = b
      BY <1>5 DEF Laid
    <3> QED BY <1>9, <1>15, <1>16, <2>2, <3>1
  <2>3. p.suppressed \cap open = {} /\ p.stopped = FALSE
    BY <1>1, <1>5, <1>9 DEF Laid
  <2> QED BY <1>14, <2>1, <2>2, <2>3 DEF Laid
<1>18. Segments(q, kind) = Segments(p, kind) \cup {<<n, k>>}
  <2>1. Segments(q, kind) = {<<down[v], kind[v]>> : v \in open}
    BY <1>14 DEF Segments
  <2>2. {<<down[v], kind[v]>> : v \in open} = {<<down[v], kind[v]>> : v \in p.open} \cup {<<n, k>>}
    BY <1>4, <1>9, <1>15
  <2>3. {<<down[v], kind[v]>> : v \in p.open} = {<<p.down[v], kind[v]>> : v \in p.open}
    BY <1>15
  <2> QED BY <2>1, <2>2, <2>3 DEF Segments
<1>19. PICK a : a = WithPolicy(w, q)
  OBVIOUS
<1>20. [w EXCEPT !.p = q] = a /\ IsSending(a) /\ a.p = q /\ a.t = w.t /\ a.c = w.c
  BY <1>5, <1>19, PolicyPut
<1>21. PICK v : v = OpenSegment(w, u)
  OBVIOUS
<1>22. v = Send(a, BlockStart(n, k))
  BY <1>1, <1>2, <1>3, <1>4, <1>11, <1>20, <1>21 DEF OpenSegment
<1>23. /\ IsSending(v) /\ v.p = q /\ v.t = Observe(w.t, BlockStart(n, k)) /\ v.c = Accept(w.c, BlockStart(n, k))
  BY <1>20, <1>22, SendIs
<1>24. k \in Kinds
  BY <1>3, <1>4, KindOf
<1>25. Agree(v.t, v.c, n + 1, Segments(p, kind) \cup {<<n, k>>})
  BY <1>5, <1>23, <1>24, TrackStart
<1>26. Passing(v, kind)
  BY <1>10, <1>14, <1>17, <1>18, <1>23, <1>25 DEF Passing
<1> QED BY <1>1, <1>3, <1>9, <1>14, <1>21, <1>23, <1>26

LEMMA PolicyLess ==
  ASSUME NEW p \in Policy, NEW left, NEW ignored
  PROVE  /\ [p EXCEPT !.open = left] = PolicyOf(p.next, p.down, left, p.dropped, p.suppressed, p.stopped)
         /\ [p EXCEPT !.suppressed = ignored] = PolicyOf(p.next, p.down, p.open, p.dropped, ignored, p.stopped)
         /\ [p EXCEPT !.open = left, !.suppressed = ignored]
              = PolicyOf(p.next, p.down, left, p.dropped, ignored, p.stopped)
<1>1. p = PolicyOf(p.next, p.down, p.open, p.dropped, p.suppressed, p.stopped)
  BY PolicyIs
<1>2. PICK q : q = [p EXCEPT !.open = left]
  OBVIOUS
<1>3. q = PolicyOf(p.next, p.down, left, p.dropped, p.suppressed, p.stopped)
  BY <1>1, <1>2 DEF PolicyOf
<1>4. [q EXCEPT !.suppressed = ignored] = PolicyOf(p.next, p.down, left, p.dropped, ignored, p.stopped)
  BY <1>3 DEF PolicyOf
<1>5. [p EXCEPT !.suppressed = ignored] = PolicyOf(p.next, p.down, p.open, p.dropped, ignored, p.stopped)
  BY <1>1 DEF PolicyOf
<1> QED BY <1>2, <1>3, <1>4, <1>5

Apart(a, b) == a \cap b = {}

\* Some segments are taken out of the open ones, and some stops will be ignored.
LEMMA LaidLess ==
  ASSUME NEW p, Laid(p), NEW left, left \subseteq p.open, NEW ignored, ignored \subseteq Upstream,
         Apart(ignored, left),
         NEW q, q = PolicyOf(p.next, p.down, left, p.dropped, ignored, p.stopped)
  PROVE  /\ Laid(q) /\ q.next = p.next /\ q.down = p.down /\ q.open = left
         /\ q.dropped = p.dropped /\ q.suppressed = ignored
<1>1. p \in Policy /\ p.stopped = FALSE
  BY DEF Laid
<1>2. /\ p.next \in Nat /\ p.down \in [Upstream -> Int] /\ p.open \in SUBSET Upstream
      /\ p.dropped \in SUBSET Upstream /\ p.stopped \in BOOLEAN
  BY <1>1, PolicyIs
<1>3. left \in SUBSET Upstream /\ ignored \in SUBSET Upstream
  BY <1>2
<1>4. /\ q \in Policy /\ q.next = p.next /\ q.down = p.down /\ q.open = left
      /\ q.dropped = p.dropped /\ q.suppressed = ignored /\ q.stopped = p.stopped
  BY <1>2, <1>3, PolicyMade
<1>5. Laid(q)
  <2>1. \A u \in q.open : q.down[u] \in 0..(q.next - 1)
    BY <1>3, <1>4 DEF Laid
  <2>2. \A u, v \in q.open : q.down[u] = q.down[v] => u = v
    BY <1>3, <1>4 DEF Laid
  <2>3. q.suppressed \cap q.open = {}
    BY <1>4 DEF Apart
  <2>4. q.stopped = FALSE /\ q \in Policy
    BY <1>1, <1>4
  <2> QED BY <2>1, <2>2, <2>3, <2>4 DEF Laid
<1> QED BY <1>4, <1>5

\* What is open from index n on.
SegmentsFrom(p, kind, n) == {b \in Segments(p, kind) : b[1] >= n}

StoppedBefore(w, v, kind, n) ==
  IsSending(v) /\ v.p = w.p /\ Agree(v.t, v.c, w.p.next, SegmentsFrom(w.p, kind, n))

LEMMA StopSegmentPasses ==
  ASSUME NEW w, nUp.kind \in BlockKinds, Passing(w, nUp.kind), NEW v, NEW n \in Nat,
         StoppedBefore(w, v, nUp.kind, n)
  PROVE  StoppedBefore(w, StopSegment(v, w.p.open, n), nUp.kind, n + 1)
<1>1. PICK p : p = w.p
  OBVIOUS
<1>2. PICK kind : kind = nUp.kind
  OBVIOUS
<1>3. PICK before : before = SegmentsFrom(p, kind, n)
  OBVIOUS
<1>4. PICK after : after = SegmentsFrom(p, kind, n + 1)
  OBVIOUS
<1>5. IsSending(v) /\ v.p = p /\ Agree(v.t, v.c, p.next, before)
  BY <1>1, <1>2, <1>3 DEF StoppedBefore
<1>6. /\ p \in Policy /\ \A u, x \in p.open : p.down[u] = p.down[x] => u = x
      /\ \A u \in p.open : p.down[u] \in Int
  <2>1. p \in Policy
    BY <1>1 DEF Passing, Laid
  <2>2. p.down \in [Upstream -> Int] /\ p.open \in SUBSET Upstream
    BY <2>1, PolicyIs
  <2> QED BY <1>1, <2>1, <2>2 DEF Passing, Laid
<1>7. \A b \in Segments(p, kind) : b[1] \in Int /\ \E u \in p.open : b = <<p.down[u], kind[u]>> /\ b[1] = p.down[u]
  BY <1>6 DEF Segments
<1>8. PICK s : s = StopSegment(v, p.open, n)
  OBVIOUS
<1>9. CASE \E u \in p.open : p.down[u] = n
  <2>1. PICK u \in p.open : p.down[u] = n
    BY <1>9
  <2>2. PICK k : k = kind[u]
    OBVIOUS
  <2>3. PICK b : b = <<n, k>>
    OBVIOUS
  <2>4. s = Send(v, BlockStop(n))
    BY <1>5, <1>8, <1>9 DEF StopSegment
  <2>5. IsSending(s) /\ s.p = p /\ s.t = Observe(v.t, BlockStop(n)) /\ s.c = Accept(v.c, BlockStop(n))
    BY <1>5, <2>4, SendIs
  <2>6. b \in Segments(p, kind) /\ b[1] = n
    BY <2>1, <2>2, <2>3 DEF Segments
  <2>7. b \in before
    BY <1>3, <2>6 DEF SegmentsFrom
  <2>8. Agree(s.t, s.c, p.next, before \ {b})
    BY <1>5, <2>3, <2>5, <2>7, TrackStop
  <2>9. before \ {b} = after
    <3>1. ASSUME NEW d \in Segments(p, kind) PROVE d[1] = n => d = b
      <4>1. PICK x \in p.open : d = <<p.down[x], kind[x]>> /\ d[1] = p.down[x]
        BY <1>7
      <4>2. CASE d[1] = n
        <5>1. x = u
          BY <1>6, <2>1, <4>1, <4>2
        <5> QED BY <2>1, <2>2, <2>3, <4>1, <5>1
      <4> QED BY <4>2
    <3>2. ASSUME NEW d \in Segments(p, kind) PROVE d[1] >= n + 1 <=> d[1] >= n /\ d[1] # n
      BY <1>7
    <3> QED BY <1>3, <1>4, <2>6, <3>1, <3>2 DEF SegmentsFrom
  <2>10. Agree(s.t, s.c, p.next, after)
    BY <2>8, <2>9
  <2> QED BY <1>1, <1>2, <1>4, <1>8, <2>5, <2>10 DEF StoppedBefore
<1>10. CASE ~\E u \in p.open : p.down[u] = n
  <2>1. s = v
    BY <1>5, <1>8, <1>10 DEF StopSegment
  <2>2. before = after
    <3>1. ASSUME NEW d \in Segments(p, kind) PROVE d[1] >= n + 1 <=> d[1] >= n
      <4>1. d[1] \in Int /\ d[1] # n
        BY <1>7, <1>10
      <4> QED BY <4>1
    <3> QED BY <1>3, <1>4, <3>1 DEF SegmentsFrom
  <2> QED BY <1>1, <1>2, <1>4, <1>5, <1>8, <2>1, <2>2 DEF StoppedBefore
<1> QED BY <1>9, <1>10

\* The recursion of CloseOthers is a function on 0..next.
StopsUpTo(f, w, others, m) == f = [n \in 0..m |-> IF n = 0 THEN w ELSE StopSegment(f[n - 1], others, n - 1)]

LEMMA StopsExist == ASSUME NEW w, NEW others, NEW all \in Nat PROVE \E f : StopsUpTo(f, w, others, all)
<1>1. PICK T : T = {m \in Nat : ~\E f : StopsUpTo(f, w, others, m)}
  OBVIOUS
<1>2. SUFFICES ASSUME T # {} PROVE FALSE
  BY <1>1
<1>3. PICK m \in T : \A y \in T : m <= y
  BY <1>1, <1>2, LeastIndex
<1>4. CASE m = 0
  <2>1. PICK f : f = [n \in 0..0 |-> w]
    OBVIOUS
  <2>2. f = [n \in 0..0 |-> IF n = 0 THEN w ELSE StopSegment(f[n - 1], others, n - 1)]
    BY <2>1
  <2>3. StopsUpTo(f, w, others, 0)
    BY <2>2 DEF StopsUpTo
  <2> QED BY <1>1, <1>4, <2>3
<1>5. CASE m # 0
  <2>1. m \in Nat /\ m - 1 \in Nat /\ m - 1 \notin T
    BY <1>1, <1>3, <1>5
  <2>2. PICK g : StopsUpTo(g, w, others, m - 1)
    BY <1>1, <2>1
  <2>3. PICK last : last = StopSegment(g[m - 1], others, m - 1)
    OBVIOUS
  <2>4. PICK f : f = [n \in 0..m |-> IF n = m THEN last ELSE g[n]]
    OBVIOUS
  <2>5. \A n \in 0..(m - 1) : g[n] = IF n = 0 THEN w ELSE StopSegment(g[n - 1], others, n - 1)
    BY <2>2 DEF StopsUpTo
  <2>6. f[m] = last /\ \A n \in 0..(m - 1) : f[n] = g[n]
    BY <2>1, <2>4
  <2>7. ASSUME NEW n \in 0..m PROVE f[n] = IF n = 0 THEN w ELSE StopSegment(f[n - 1], others, n - 1)
    <3>1. n = m \/ n \in 0..(m - 1)
      BY <2>1
    <3>2. CASE n = 0
      BY <1>5, <2>5, <2>6, <3>1, <3>2
    <3>3. CASE n # 0
      <4>1. n - 1 \in 0..(m - 1)
        BY <2>1, <3>3
      <4>2. f[n - 1] = g[n - 1]
        BY <2>6, <4>1
      <4>3. CASE n = m
        BY <2>3, <2>6, <3>3, <4>2, <4>3
      <4>4. CASE n \in 0..(m - 1)
        BY <2>5, <2>6, <3>3, <4>2, <4>4
      <4> QED BY <3>1, <4>3, <4>4
    <3> QED BY <3>2, <3>3
  <2>8. f = [n \in 0..m |-> f[n]]
    BY <2>4
  <2>9. StopsUpTo(f, w, others, m)
    BY <2>7, <2>8 DEF StopsUpTo
  <2> QED BY <1>1, <1>3, <2>9
<1> QED BY <1>4, <1>5

\* A start closes what is open.
LEMMA CloseOthersPasses ==
  ASSUME NEW w, nUp.kind \in BlockKinds, Passing(w, nUp.kind), NEW u \in Upstream, u \notin w.p.open
  PROVE  LET v == CloseOthers(w, u)
         IN  /\ Passing(v, nUp.kind) /\ v.p.open = {} /\ v.p.dropped = w.p.dropped
             /\ v.p.suppressed = w.p.suppressed \cup w.p.open
<1>1. PICK p : p = w.p
  OBVIOUS
<1>2. PICK kind : kind = nUp.kind
  OBVIOUS
<1>3. IsSending(w) /\ Laid(p) /\ Agree(w.t, w.c, p.next, Segments(p, kind))
  BY <1>1, <1>2 DEF Passing
<1>4. p \in Policy
  BY <1>3 DEF Laid
<1>5. /\ p = PolicyOf(p.next, p.down, p.open, p.dropped, p.suppressed, p.stopped)
      /\ p.next \in Nat /\ p.down \in [Upstream -> Int] /\ p.open \in SUBSET Upstream
      /\ p.dropped \in SUBSET Upstream /\ p.suppressed \in SUBSET Upstream /\ p.stopped \in BOOLEAN
  BY <1>4, PolicyIs
<1>6. PICK others : others = p.open \ {u}
  OBVIOUS
<1>7. others = p.open
  BY <1>1, <1>6
<1>8. PICK n : n = p.next
  OBVIOUS
<1>9. PICK f : f = CHOOSE g : StopsUpTo(g, w, others, n)
  OBVIOUS
<1>10. StopsUpTo(f, w, others, n)
  BY <1>5, <1>8, <1>9, StopsExist
<1>11. \A m \in 0..n : f[m] = IF m = 0 THEN w ELSE StopSegment(f[m - 1], others, m - 1)
  BY <1>10 DEF StopsUpTo
<1>12. PICK T : T = {m \in 0..n : ~StoppedBefore(w, f[m], kind, m)}
  OBVIOUS
<1>13. \A u1 \in p.open : p.down[u1] \in 0..(n - 1)
  BY <1>3, <1>8 DEF Laid
<1>14. \A b \in Segments(p, kind) : b[1] \in 0..(n - 1)
  BY <1>13 DEF Segments
<1>15. T = {}
  <2> SUFFICES ASSUME T # {} PROVE FALSE
    OBVIOUS
  <2>1. T \subseteq Nat
    BY <1>12
  <2>2. PICK m \in T : \A y \in T : m <= y
    BY <2>1, LeastIndex
  <2>3. m \in 0..n /\ ~StoppedBefore(w, f[m], kind, m)
    BY <1>12
  <2>4. CASE m = 0
    <3>1. f[0] = w
      BY <1>5, <1>8, <1>11
    <3>2. SegmentsFrom(p, kind, 0) = Segments(p, kind)
      BY <1>14 DEF SegmentsFrom
    <3>3. StoppedBefore(w, w, kind, 0)
      BY <1>1, <1>3, <3>2 DEF StoppedBefore
    <3> QED BY <2>3, <2>4, <3>1, <3>3
  <2>5. CASE m # 0
    <3>1. m - 1 \in 0..n /\ m - 1 \in Nat /\ m - 1 \notin T /\ (m - 1) + 1 = m
      BY <1>5, <1>8, <2>2, <2>3, <2>5
    <3>2. StoppedBefore(w, f[m - 1], kind, m - 1)
      BY <1>12, <3>1
    <3>3. f[m] = StopSegment(f[m - 1], w.p.open, m - 1)
      BY <1>1, <1>7, <1>11, <2>3, <2>5
    <3>4. StoppedBefore(w, StopSegment(f[m - 1], w.p.open, m - 1), kind, (m - 1) + 1)
      BY <1>2, <3>1, <3>2, StopSegmentPasses
    <3> QED BY <2>3, <3>1, <3>3, <3>4
  <2> QED BY <2>4, <2>5
<1>16. PICK a : a = f[n]
  OBVIOUS
<1>17. IsSending(a) /\ a.p = p /\ Agree(a.t, a.c, n, SegmentsFrom(p, kind, n))
  <2>1. n \in 0..n
    BY <1>5, <1>8
  <2> QED BY <1>1, <1>8, <1>12, <1>15, <1>16, <2>1 DEF StoppedBefore
<1>18. SegmentsFrom(p, kind, n) = {}
  <2>1. \A b \in Segments(p, kind) : ~(b[1] >= n)
    BY <1>5, <1>8, <1>14
  <2> QED BY <2>1 DEF SegmentsFrom
<1>19. PICK ignored : ignored = p.suppressed \cup others
  OBVIOUS
<1>20. PICK left : left = p.open \ others
  OBVIOUS
<1>21. PICK q : q = PolicyOf(p.next, p.down, left, p.dropped, ignored, p.stopped)
  OBVIOUS
<1>22. /\ Laid(q) /\ q.next = p.next /\ q.open = left /\ q.dropped = p.dropped /\ q.suppressed = ignored
  <2>1. left \subseteq p.open
    BY <1>20
  <2>2. ignored \subseteq Upstream
    BY <1>5, <1>7, <1>19
  <2>3. Apart(ignored, left)
    BY <1>7, <1>20 DEF Apart
  <2> QED BY <1>3, <1>21, <2>1, <2>2, <2>3, LaidLess
<1>23. q.open = {} /\ Segments(q, kind) = {}
  <2>1. q.open = {}
    BY <1>7, <1>20, <1>22
  <2> QED BY <2>1 DEF Segments
<1>24. PICK v : v = CloseOthers(w, u)
  OBVIOUS
<1>25. v = [a EXCEPT !.p.open = @ \ others, !.p.suppressed = @ \cup others]
  <2>1. StopSegments(w, others) = a
    BY <1>1, <1>8, <1>9, <1>16 DEF StopSegments, StopsUpTo
  <2> QED BY <1>1, <1>6, <1>24, <2>1 DEF CloseOthers
<1>26. [p EXCEPT !.open = @ \ others, !.suppressed = @ \cup others] = q
  <2>1. [p EXCEPT !.open = @ \ others, !.suppressed = @ \cup others] = [p EXCEPT !.open = left, !.suppressed = ignored]
    BY <1>19, <1>20
  <2>2. [p EXCEPT !.open = left, !.suppressed = ignored] = q
    BY <1>4, <1>21, PolicyLess
  <2> QED BY <2>1, <2>2
<1>27. v = WithPolicy(a, q)
  BY <1>17, <1>25, <1>26 DEF WithPolicy, IsSending
<1>28. IsSending(v) /\ v.p = q /\ v.t = a.t /\ v.c = a.c
  BY <1>17, <1>27, PolicyPut
<1>29. Passing(v, kind)
  BY <1>8, <1>17, <1>18, <1>22, <1>23, <1>28 DEF Passing
<1> QED BY <1>1, <1>2, <1>7, <1>19, <1>22, <1>23, <1>24, <1>28, <1>29

LEMMA PutPasses ==
  ASSUME NEW w, NEW kind, Passing(w, kind), NEW q, Laid(q), q.next = w.p.next, q.down = w.p.down, q.open = w.p.open,
         NEW v, v = WithPolicy(w, q)
  PROVE  Passing(v, kind) /\ v.p = q
<1>1. IsSending(w) /\ Agree(w.t, w.c, w.p.next, Segments(w.p, kind))
  BY DEF Passing
<1>2. IsSending(v) /\ v.p = q /\ v.t = w.t /\ v.c = w.c
  BY <1>1, PolicyPut
<1>3. Segments(q, kind) = Segments(w.p, kind)
  BY DEF Segments
<1> QED BY <1>1, <1>2, <1>3 DEF Passing

\* A stop that is ignored no longer, once it came or its block was opened again.
LEMMA IgnoredOncePasses ==
  ASSUME NEW w, NEW kind, Passing(w, kind), NEW u \in Upstream
  PROVE  LET v == [w EXCEPT !.p.suppressed = @ \ {u}]
         IN  /\ Passing(v, kind) /\ v.p.open = w.p.open /\ v.p.dropped = w.p.dropped
             /\ v.p.suppressed = w.p.suppressed \ {u} /\ v.p.next = w.p.next /\ v.p.down = w.p.down
<1>1. PICK p : p = w.p
  OBVIOUS
<1>2. IsSending(w) /\ Laid(p) /\ p \in Policy
  BY <1>1 DEF Passing, Laid
<1>3. PICK ignored : ignored = p.suppressed \ {u}
  OBVIOUS
<1>4. PICK q : q = [p EXCEPT !.suppressed = ignored]
  OBVIOUS
<1>5. /\ Laid(q) /\ q.next = p.next /\ q.down = p.down /\ q.open = p.open
      /\ q.dropped = p.dropped /\ q.suppressed = ignored
  <2>0. PICK left : left = p.open
    OBVIOUS
  <2>1. q = PolicyOf(p.next, p.down, left, p.dropped, ignored, p.stopped)
    BY <1>2, <1>4, <2>0, PolicyLess
  <2>2. left \subseteq p.open
    BY <2>0
  <2>3. ignored \subseteq Upstream
    BY <1>2, <1>3, PolicyIs
  <2>4. Apart(ignored, left)
    BY <1>2, <1>3, <2>0 DEF Laid, Apart
  <2>5. /\ Laid(q) /\ q.next = p.next /\ q.down = p.down /\ q.open = left
        /\ q.dropped = p.dropped /\ q.suppressed = ignored
    BY <1>2, <2>1, <2>2, <2>3, <2>4, LaidLess
  <2> QED BY <2>0, <2>5
<1>6. PICK v : v = [w EXCEPT !.p.suppressed = @ \ {u}]
  OBVIOUS
<1>7. v = WithPolicy(w, q)
  BY <1>1, <1>2, <1>3, <1>4, <1>6 DEF WithPolicy, IsSending
<1>8. Passing(v, kind) /\ v.p = q
  BY <1>1, <1>5, <1>7, PutPasses
<1> QED BY <1>1, <1>3, <1>5, <1>6, <1>8

LEMMA DropPasses ==
  ASSUME NEW w, NEW kind, Passing(w, kind), NEW u \in Upstream
  PROVE  LET v == [w EXCEPT !.p.dropped = @ \cup {u}]
         IN  /\ Passing(v, kind) /\ v.p.open = w.p.open /\ v.p.dropped = w.p.dropped \cup {u}
             /\ v.p.suppressed = w.p.suppressed
<1>1. PICK p : p = w.p
  OBVIOUS
<1>2. IsSending(w) /\ Laid(p) /\ p \in Policy
  BY <1>1 DEF Passing, Laid
<1>3. PICK more : more = p.dropped \cup {u}
  OBVIOUS
<1>4. PICK q : q = [p EXCEPT !.dropped = more]
  OBVIOUS
<1>5. /\ p = PolicyOf(p.next, p.down, p.open, p.dropped, p.suppressed, p.stopped)
      /\ p.next \in Nat /\ p.down \in [Upstream -> Int] /\ p.open \in SUBSET Upstream
      /\ p.dropped \in SUBSET Upstream /\ p.suppressed \in SUBSET Upstream /\ p.stopped \in BOOLEAN
  BY <1>2, PolicyIs
<1>6. q = PolicyOf(p.next, p.down, p.open, more, p.suppressed, p.stopped)
  BY <1>4, <1>5 DEF PolicyOf
<1>7. /\ q \in Policy /\ q.next = p.next /\ q.down = p.down /\ q.open = p.open
      /\ q.dropped = more /\ q.suppressed = p.suppressed /\ q.stopped = p.stopped
  <2>1. more \in SUBSET Upstream
    BY <1>3, <1>5
  <2> QED BY <1>5, <1>6, <2>1, PolicyMade
<1>8. Laid(q)
  BY <1>2, <1>7 DEF Laid
<1>9. PICK v : v = [w EXCEPT !.p.dropped = @ \cup {u}]
  OBVIOUS
<1>10. v = WithPolicy(w, q)
  BY <1>1, <1>2, <1>3, <1>4, <1>9 DEF WithPolicy, IsSending
<1>11. Passing(v, kind) /\ v.p = q
  BY <1>1, <1>7, <1>8, <1>10, PutPasses
<1> QED BY <1>1, <1>3, <1>7, <1>9, <1>11

\* The stop of an open segment.
LEMMA StopPasses ==
  ASSUME NEW w, nUp.kind \in BlockKinds, Passing(w, nUp.kind), NEW u \in w.p.open
  PROVE  LET v == Send([w EXCEPT !.p.open = @ \ {u}], BlockStop(w.p.down[u]))
         IN  /\ Passing(v, nUp.kind) /\ v.p.open = w.p.open \ {u} /\ v.p.dropped = w.p.dropped
             /\ v.p.suppressed = w.p.suppressed
<1>1. PICK p : p = w.p
  OBVIOUS
<1>2. PICK kind : kind = nUp.kind
  OBVIOUS
<1>3. IsSending(w) /\ Laid(p) /\ p \in Policy /\ Agree(w.t, w.c, p.next, Segments(p, kind))
  BY <1>1, <1>2 DEF Passing, Laid
<1>4. PICK left : left = p.open \ {u}
  OBVIOUS
<1>5. PICK q : q = [p EXCEPT !.open = left]
  OBVIOUS
<1>6. PICK i : i = p.down[u]
  OBVIOUS
<1>7. PICK k : k = kind[u]
  OBVIOUS
<1>8. /\ Laid(q) /\ q.next = p.next /\ q.down = p.down /\ q.open = left
      /\ q.dropped = p.dropped /\ q.suppressed = p.suppressed
  <2>1. q = PolicyOf(p.next, p.down, left, p.dropped, p.suppressed, p.stopped)
    BY <1>3, <1>5, PolicyLess
  <2>2. left \subseteq p.open
    BY <1>4
  <2>3. p.suppressed \subseteq Upstream
    BY <1>3, PolicyIs
  <2>4. Apart(p.suppressed, left)
    BY <1>3, <1>4 DEF Laid, Apart
  <2> QED BY <1>3, <2>1, <2>2, <2>3, <2>4, LaidLess
<1>9. PICK a : a = WithPolicy(w, q)
  OBVIOUS
<1>10. [w EXCEPT !.p.open = @ \ {u}] = a
  BY <1>1, <1>3, <1>4, <1>5, <1>9 DEF WithPolicy, IsSending
<1>11. IsSending(a) /\ a.p = q /\ a.t = w.t /\ a.c = w.c
  BY <1>3, <1>9, PolicyPut
<1>12. PICK v : v = Send([w EXCEPT !.p.open = @ \ {u}], BlockStop(w.p.down[u]))
  OBVIOUS
<1>13. v = Send(a, BlockStop(i))
  BY <1>1, <1>6, <1>10, <1>12
<1>14. IsSending(v) /\ v.p = q /\ v.t = Observe(w.t, BlockStop(i)) /\ v.c = Accept(w.c, BlockStop(i))
  BY <1>11, <1>13, SendIs
<1>15. PICK b : b = <<i, k>>
  OBVIOUS
<1>16. b \in Segments(p, kind)
  BY <1>1, <1>6, <1>7, <1>15 DEF Segments
<1>17. Agree(v.t, v.c, p.next, Segments(p, kind) \ {b})
  BY <1>3, <1>14, <1>15, <1>16, TrackStop
<1>18. Segments(p, kind) \ {b} = Segments(q, kind)
  <2>1. Segments(q, kind) = {<<p.down[x], kind[x]>> : x \in left}
    BY <1>8 DEF Segments
  <2>2. ASSUME NEW x \in p.open PROVE <<p.down[x], kind[x]>> = b <=> x = u
    <3>1. CASE x = u
      BY <1>6, <1>7, <1>15, <3>1
    <3>2. CASE x # u
      <4>1. p.down[x] # i
        BY <1>1, <1>3, <1>6, <3>2 DEF Laid
      <4> QED BY <1>15, <3>2, <4>1
    <3> QED BY <3>1, <3>2
  <2> QED BY <1>4, <2>1, <2>2 DEF Segments
<1>19. Passing(v, kind)
  BY <1>8, <1>14, <1>17, <1>18 DEF Passing
<1> QED BY <1>1, <1>2, <1>4, <1>8, <1>12, <1>14, <1>19

-----------------------------------------------------------------------------
(***************************************************************************)
(* The provider and the policy: what was opened or will be ignored is a    *)
(* block the provider has begun and the client may see.                    *)
(***************************************************************************)
UpStates == {"new", "started", "bare", "stopped"}

Ups ==
  [pc: {"new", "open", "stopped", "ended", "failed", "late"}, kind: BlockKinds, thinking: BOOLEAN, router: BOOLEAN,
   state: [Upstream -> UpStates], deltas: Int]

\* Block u is in progress; it is thinking that is switched off.
Begun(up, u) == up.state[u] \in {"started", "bare"}
Veiled(up, u) == ~up.thinking /\ up.kind[u] = "thinking"

\* What the policy remembers belongs to blocks in progress.
Attuned(up, p) ==
  /\ \A u \in p.dropped : Veiled(up, u)
  /\ \A u \in p.open : Begun(up, u) /\ ~Veiled(up, u)
  /\ \A u \in p.suppressed : Begun(up, u) /\ ~Veiled(up, u)

LEMMA OnStartPasses ==
  ASSUME NEW w, nUp \in Ups, Passing(w, nUp.kind), Attuned(nUp, w.p), NEW u \in Upstream, nUp.state[u] = "new"
  PROVE  LET v == OnStart(w, u)
         IN  /\ Passing(v, nUp.kind)
             /\ v.p.open \subseteq w.p.open \cup {u} /\ v.p.suppressed \subseteq w.p.suppressed \cup w.p.open
             /\ v.p.dropped \subseteq w.p.dropped \cup {u}
             /\ u \in v.p.open => ~Veiled(nUp, u)
             /\ u \in v.p.dropped => Veiled(nUp, u)
<1>1. nUp.kind \in BlockKinds
  BY DEF Ups
<1>2. u \notin w.p.open /\ u \notin w.p.suppressed
  BY DEF Attuned, Begun
<1>3. PICK kind : kind = nUp.kind
  OBVIOUS
<1>4. PICK v : v = OnStart(w, u)
  OBVIOUS
<1>5. CASE Hidden(u)
  <2>1. v = [w EXCEPT !.p.dropped = @ \cup {u}]
    BY <1>4, <1>5 DEF OnStart
  <2>2. /\ Passing(v, kind) /\ v.p.open = w.p.open /\ v.p.dropped = w.p.dropped \cup {u}
        /\ v.p.suppressed = w.p.suppressed
    BY <1>3, <2>1, DropPasses
  <2>3. Veiled(nUp, u)
    BY <1>5 DEF Hidden, Veiled
  <2> QED BY <1>2, <1>3, <1>4, <2>2, <2>3
<1>6. CASE ~Hidden(u)
  <2>1. PICK a : a = CloseOthers(w, u)
    OBVIOUS
  <2>2. /\ Passing(a, kind) /\ a.p.open = {} /\ a.p.dropped = w.p.dropped
        /\ a.p.suppressed = w.p.suppressed \cup w.p.open
    BY <1>1, <1>2, <1>3, <2>1, CloseOthersPasses
  <2>3. u \notin a.p.open /\ u \notin a.p.suppressed
    BY <1>2, <2>2
  <2>4. v = OpenSegment(a, u)
    BY <1>4, <1>6, <2>1 DEF OnStart
  <2>5. /\ Passing(v, kind) /\ v.p.open = a.p.open \cup {u} /\ v.p.dropped = a.p.dropped
        /\ v.p.suppressed = a.p.suppressed
    BY <1>1, <1>3, <2>2, <2>3, <2>4, OpenSegmentPasses
  <2>6. ~Veiled(nUp, u)
    BY <1>6 DEF Hidden, Veiled
  <2>7. u \notin w.p.dropped
    BY <2>6 DEF Attuned
  <2>8. v.p.open = {u} /\ v.p.dropped = w.p.dropped /\ v.p.suppressed = w.p.suppressed \cup w.p.open
    BY <2>2, <2>5
  <2> QED BY <1>3, <1>4, <2>5, <2>6, <2>7, <2>8
<1> QED BY <1>5, <1>6

LEMMA OnDeltaPasses ==
  ASSUME NEW w, nUp \in Ups, Passing(w, nUp.kind), Attuned(nUp, w.p), NEW u \in Upstream
  PROVE  LET v == OnDelta(w, u)
         IN  /\ Passing(v, nUp.kind)
             /\ v.p.open \subseteq w.p.open \cup {u} /\ v.p.suppressed \subseteq w.p.suppressed
             /\ v.p.dropped = w.p.dropped
             /\ u \in v.p.open => ~Veiled(nUp, u)
<1>1. nUp.kind \in BlockKinds
  BY DEF Ups
<1>2. PICK kind : kind = nUp.kind
  OBVIOUS
<1>3. PICK v : v = OnDelta(w, u)
  OBVIOUS
<1>4. CASE u \in w.p.dropped \/ Hidden(u)
  <2>1. v = w
    BY <1>3, <1>4 DEF OnDelta
  <2>2. u \in w.p.open => ~Veiled(nUp, u)
    BY DEF Attuned
  <2> QED BY <1>3, <2>1, <2>2
<1>5. CASE u \in w.p.open /\ u \notin w.p.dropped /\ ~Hidden(u)
  <2>1. v = DeltaOf(w, u)
    BY <1>3, <1>5 DEF OnDelta
  <2>2. Passing(v, kind) /\ v.p = w.p
    BY <1>1, <1>2, <1>5, <2>1, DeltaPasses
  <2>3. ~Veiled(nUp, u)
    BY <1>5 DEF Attuned
  <2> QED BY <1>2, <1>3, <2>2, <2>3
<1>6. CASE u \notin w.p.open /\ u \notin w.p.dropped /\ ~Hidden(u)
  <2>1. PICK a : a = [w EXCEPT !.p.suppressed = @ \ {u}]
    OBVIOUS
  <2>2. /\ Passing(a, kind) /\ a.p.open = w.p.open /\ a.p.dropped = w.p.dropped
        /\ a.p.suppressed = w.p.suppressed \ {u}
    BY <1>2, <2>1, IgnoredOncePasses
  <2>3. u \notin a.p.open /\ u \notin a.p.suppressed
    BY <1>6, <2>2
  <2>4. PICK b : b = OpenSegment(a, u)
    OBVIOUS
  <2>5. /\ Passing(b, kind) /\ b.p.open = a.p.open \cup {u} /\ b.p.dropped = a.p.dropped
        /\ b.p.suppressed = a.p.suppressed
    BY <1>1, <1>2, <2>2, <2>3, <2>4, OpenSegmentPasses
  <2>6. v = DeltaOf(b, u)
    BY <1>3, <1>6, <2>1, <2>4 DEF OnDelta
  <2>7. u \in b.p.open
    BY <2>5
  <2>8. Passing(v, kind) /\ v.p = b.p
    BY <1>1, <1>2, <2>5, <2>6, <2>7, DeltaPasses
  <2>9. ~Veiled(nUp, u)
    BY <1>6 DEF Hidden, Veiled
  <2> QED BY <1>2, <1>3, <2>2, <2>5, <2>8, <2>9
<1> QED BY <1>4, <1>5, <1>6

LEMMA OnStopPasses ==
  ASSUME NEW w, nUp \in Ups, Passing(w, nUp.kind), Attuned(nUp, w.p), NEW u \in Upstream
  PROVE  LET v == OnStop(w, u)
         IN  /\ Passing(v, nUp.kind)
             /\ v.p.open \subseteq w.p.open \ {u} /\ v.p.suppressed \subseteq w.p.suppressed \ {u}
             /\ v.p.dropped = w.p.dropped
<1>1. nUp.kind \in BlockKinds
  BY DEF Ups
<1>2. PICK kind : kind = nUp.kind
  OBVIOUS
<1>3. PICK v : v = OnStop(w, u)
  OBVIOUS
<1>4. \A x \in w.p.dropped : x \notin w.p.open /\ x \notin w.p.suppressed
  BY DEF Attuned
<1>5. \A x \in w.p.open : x \notin w.p.suppressed
  BY DEF Passing, Laid
<1>6. CASE u \in w.p.dropped \/ u \notin w.p.open \cup w.p.suppressed
  <2>1. v = w
    BY <1>3, <1>4, <1>6 DEF OnStop
  <2> QED BY <1>3, <1>4, <1>6, <2>1
<1>7. CASE u \in w.p.suppressed
  <2>1. u \notin w.p.dropped /\ u \notin w.p.open
    BY <1>4, <1>5, <1>7
  <2>2. v = [w EXCEPT !.p.suppressed = @ \ {u}]
    BY <1>3, <1>7, <2>1 DEF OnStop
  <2>3. /\ Passing(v, kind) /\ v.p.open = w.p.open /\ v.p.dropped = w.p.dropped
        /\ v.p.suppressed = w.p.suppressed \ {u}
    BY <1>2, <2>2, IgnoredOncePasses
  <2> QED BY <1>2, <1>3, <2>1, <2>3
<1>8. CASE u \in w.p.open
  <2>1. u \notin w.p.dropped /\ u \notin w.p.suppressed
    BY <1>4, <1>5, <1>8
  <2>2. v = Send([w EXCEPT !.p.open = @ \ {u}], BlockStop(w.p.down[u]))
    BY <1>3, <1>8, <2>1 DEF OnStop
  <2>3. /\ Passing(v, kind) /\ v.p.open = w.p.open \ {u} /\ v.p.dropped = w.p.dropped
        /\ v.p.suppressed = w.p.suppressed
    BY <1>1, <1>2, <1>8, <2>2, StopPasses
  <2> QED BY <1>2, <1>3, <2>1, <2>3
<1> QED BY <1>6, <1>7, <1>8

-----------------------------------------------------------------------------
(***************************************************************************)
(* The invariant and its steps.                                            *)
(***************************************************************************)
NothingSent ==
  /\ nClient = NewClient /\ Laid(nPolicy) /\ Tracks(nTracker, 0, {})
  /\ nPolicy.next = 0 /\ nPolicy.open = {} /\ nPolicy.dropped = {} /\ nPolicy.suppressed = {}

NativeInv ==
  /\ nUp \in Ups
  /\ nUp.pc = "new" => NothingSent
  /\ nUp.pc = "open" => Passing(Sending, nUp.kind) /\ Attuned(nUp, nPolicy)
  /\ nUp.pc \in {"stopped", "ended"} => nPolicy.stopped = TRUE
  /\ NativeContract

LEMMA SendingIs == IsSending(Sending) /\ Sending.p = nPolicy /\ Sending.t = nTracker /\ Sending.c = nClient
BY DEF Sending, IsSending

LEMMA UpAt ==
  ASSUME NEW up \in Ups, NEW pc \in {"new", "open", "stopped", "ended", "failed", "late"},
         NEW new, new = [up EXCEPT !.pc = pc]
  PROVE  /\ new \in Ups /\ new.pc = pc /\ new.kind = up.kind /\ new.thinking = up.thinking
         /\ new.state = up.state
BY DEF Ups

BlockMoved(up, u, state, deltas) == [up EXCEPT !.deltas = deltas, !.state[u] = state]
SameBut(new, up, u) == \A x \in Upstream : x # u => new.state[x] = up.state[x]

LEMMA UpBlock ==
  ASSUME NEW up \in Ups, NEW u \in Upstream, NEW state \in UpStates, NEW deltas \in Int,
         NEW new, new = BlockMoved(up, u, state, deltas)
  PROVE  /\ new \in Ups /\ new.pc = up.pc /\ new.kind = up.kind /\ new.thinking = up.thinking
         /\ new.state[u] = state /\ SameBut(new, up, u)
<1>1. PICK states : states = [up.state EXCEPT ![u] = state]
  OBVIOUS
<1>2. up.state \in [Upstream -> UpStates]
  BY DEF Ups
<1>3. /\ states \in [Upstream -> UpStates] /\ states[u] = state
      /\ \A x \in Upstream : x # u => states[x] = up.state[x]
  BY <1>1, <1>2
<1>4. PICK fewer : fewer = [up EXCEPT !.deltas = deltas]
  OBVIOUS
<1>5. /\ fewer \in Ups /\ fewer.pc = up.pc /\ fewer.kind = up.kind /\ fewer.thinking = up.thinking
      /\ fewer.state = up.state
  BY <1>4 DEF Ups
<1>6. new = [fewer EXCEPT !.state = states]
  BY <1>1, <1>4, <1>5 DEF BlockMoved
<1>7. new \in Ups /\ new.pc = up.pc /\ new.kind = up.kind /\ new.thinking = up.thinking /\ new.state = states
  BY <1>3, <1>5, <1>6 DEF Ups
<1> QED BY <1>3, <1>7 DEF SameBut

\* One block of the provider changed, and with it what the policy holds of it.
LEMMA AttunedOn ==
  ASSUME NEW up, NEW p, Attuned(up, p), NEW new, new.kind = up.kind, new.thinking = up.thinking,
         NEW u, SameBut(new, up, u),
         p \in Policy, NEW q \in Policy,
         q.open \subseteq p.open \cup {u}, q.suppressed \subseteq p.suppressed \cup p.open,
         q.dropped \subseteq p.dropped \cup {u},
         u \in q.dropped => Veiled(up, u),
         u \in q.open => Begun(new, u) /\ ~Veiled(up, u),
         u \in q.suppressed => Begun(new, u)
  PROVE  Attuned(new, q)
<1>1. /\ q.open \subseteq Upstream /\ q.suppressed \subseteq Upstream /\ q.dropped \subseteq Upstream
  BY PolicyIs
<1>2. \A x : Veiled(new, x) <=> Veiled(up, x)
  BY DEF Veiled
<1>3. \A x \in Upstream : x # u => (Begun(new, x) <=> Begun(up, x))
  BY DEF Begun, SameBut
<1>4. ASSUME NEW x \in q.dropped PROVE Veiled(new, x)
  BY <1>2 DEF Attuned
<1>5. ASSUME NEW x \in q.open PROVE Begun(new, x) /\ ~Veiled(new, x)
  BY <1>1, <1>2, <1>3 DEF Attuned
<1>6. ASSUME NEW x \in q.suppressed PROVE Begun(new, x) /\ ~Veiled(new, x)
  <2>1. Begun(up, x) /\ ~Veiled(up, x)
    BY DEF Attuned
  <2>2. CASE x = u
    BY <1>2, <2>1, <2>2
  <2>3. CASE x # u
    BY <1>1, <1>2, <1>3, <2>1, <2>3
  <2> QED BY <2>2, <2>3
<1> QED BY <1>4, <1>5, <1>6 DEF Attuned

\* While the message is open, an event for one of its blocks.
LEMMA BlockEventKeeps ==
  ASSUME NativeInv, nUp.pc = "open", nUp' \in Ups, nUp'.pc = "open", nUp'.kind = nUp.kind, nUp'.thinking = nUp.thinking,
         NEW u, SameBut(nUp', nUp, u),
         NEW v, Forward(v), Passing(v, nUp.kind),
         v.p.open \subseteq nPolicy.open \cup {u}, v.p.suppressed \subseteq nPolicy.suppressed \cup nPolicy.open,
         v.p.dropped \subseteq nPolicy.dropped \cup {u},
         u \in v.p.dropped => Veiled(nUp, u),
         u \in v.p.open => Begun(nUp', u) /\ ~Veiled(nUp, u),
         u \in v.p.suppressed => Begun(nUp', u)
  PROVE  NativeInv'
<1>1. Passing(Sending, nUp.kind) /\ Attuned(nUp, nPolicy)
  BY DEF NativeInv
<1>2. nPolicy \in Policy /\ v.p \in Policy
  BY <1>1, SendingIs DEF Passing, Laid
<1>3. Attuned(nUp', v.p)
  BY <1>1, <1>2, AttunedOn
<1>4. nPolicy' = v.p /\ nTracker' = v.t /\ nClient' = v.c
  BY DEF Forward
<1>5. v = [p |-> v.p, t |-> v.t, c |-> v.c]
  BY DEF Passing, IsSending
<1>6. Sending' = v
  BY <1>4, <1>5 DEF Sending
<1>7. nClient'.ok
  BY <1>4 DEF Passing, Agree, Reads
<1>8. NativeContract'
  BY <1>7 DEF NativeContract
<1> QED BY <1>3, <1>4, <1>6, <1>8 DEF NativeInv

LEMMA UpStartKeeps == ASSUME NativeInv, NEW u \in Upstream, UpStart(u) PROVE NativeInv'
<1>1. nUp.pc = "open" /\ nUp.state[u] = "new" /\ nUp' = [nUp EXCEPT !.state[u] = "started"]
  BY DEF UpStart
<1>2. nUp \in Ups /\ Passing(Sending, nUp.kind) /\ Attuned(nUp, nPolicy)
  BY <1>1 DEF NativeInv
<1>3. PICK deltas : deltas = nUp.deltas
  OBVIOUS
<1>4. PICK state : state = "started"
  OBVIOUS
<1>5. PICK new : new = nUp'
  OBVIOUS
<1>6. deltas \in Int /\ state \in UpStates
  BY <1>2, <1>3, <1>4 DEF Ups, UpStates
<1>7. new = BlockMoved(nUp, u, state, deltas)
  BY <1>1, <1>2, <1>3, <1>4, <1>5 DEF Ups, BlockMoved
<1>8. /\ nUp' \in Ups /\ nUp'.pc = "open" /\ nUp'.kind = nUp.kind /\ nUp'.thinking = nUp.thinking
      /\ nUp'.state[u] = state /\ SameBut(nUp', nUp, u)
  <2>1. /\ new \in Ups /\ new.pc = nUp.pc /\ new.kind = nUp.kind /\ new.thinking = nUp.thinking
        /\ new.state[u] = state /\ SameBut(new, nUp, u)
    BY <1>2, <1>6, <1>7, UpBlock
  <2> QED BY <1>1, <1>5, <2>1
<1>9. Begun(nUp', u)
  BY <1>4, <1>8 DEF Begun
<1>10. PICK w : w = Sending
  OBVIOUS
<1>11. PICK v : v = OnStart(w, u)
  OBVIOUS
<1>12. w.p = nPolicy
  BY <1>10, SendingIs
<1>13. Forward(v)
  BY <1>10, <1>11 DEF UpStart
<1>14. /\ Passing(v, nUp.kind)
       /\ v.p.open \subseteq nPolicy.open \cup {u} /\ v.p.suppressed \subseteq nPolicy.suppressed \cup nPolicy.open
       /\ v.p.dropped \subseteq nPolicy.dropped \cup {u}
       /\ u \in v.p.open => ~Veiled(nUp, u)
       /\ u \in v.p.dropped => Veiled(nUp, u)
  BY <1>1, <1>2, <1>10, <1>11, <1>12, OnStartPasses
<1> QED BY <1>1, <1>8, <1>9, <1>13, <1>14, BlockEventKeeps

LEMMA UpDeltaKeeps == ASSUME NativeInv, NEW u \in Upstream, UpDelta(u) PROVE NativeInv'
<1>1. /\ nUp.state[u] \in {"started", "bare"} \/ nUp.state[u] = "new"
      /\ nUp' = [nUp EXCEPT !.deltas = @ + 1, !.state[u] = IF @ = "new" THEN "bare" ELSE @]
  BY DEF UpDelta
<1>2. nUp.pc = "open"
  BY DEF UpDelta
<1>3. nUp \in Ups /\ Passing(Sending, nUp.kind) /\ Attuned(nUp, nPolicy)
  BY <1>2 DEF NativeInv
<1>4. PICK deltas : deltas = nUp.deltas + 1
  OBVIOUS
<1>5. PICK state : state = IF nUp.state[u] = "new" THEN "bare" ELSE nUp.state[u]
  OBVIOUS
<1>6. PICK new : new = nUp'
  OBVIOUS
<1>7. deltas \in Int /\ state \in UpStates /\ state \in {"started", "bare"}
  BY <1>1, <1>3, <1>4, <1>5 DEF Ups, UpStates
<1>8. new = BlockMoved(nUp, u, state, deltas)
  BY <1>1, <1>3, <1>4, <1>5, <1>6 DEF Ups, BlockMoved
<1>9. /\ nUp' \in Ups /\ nUp'.pc = "open" /\ nUp'.kind = nUp.kind /\ nUp'.thinking = nUp.thinking
      /\ nUp'.state[u] = state /\ SameBut(nUp', nUp, u)
  <2>1. /\ new \in Ups /\ new.pc = nUp.pc /\ new.kind = nUp.kind /\ new.thinking = nUp.thinking
        /\ new.state[u] = state /\ SameBut(new, nUp, u)
    BY <1>3, <1>7, <1>8, UpBlock
  <2> QED BY <1>2, <1>6, <2>1
<1>10. Begun(nUp', u)
  BY <1>7, <1>9 DEF Begun
<1>11. PICK w : w = Sending
  OBVIOUS
<1>12. PICK v : v = OnDelta(w, u)
  OBVIOUS
<1>13. w.p = nPolicy
  BY <1>11, SendingIs
<1>14. Forward(v)
  BY <1>11, <1>12 DEF UpDelta
<1>15. /\ Passing(v, nUp.kind)
       /\ v.p.open \subseteq nPolicy.open \cup {u} /\ v.p.suppressed \subseteq nPolicy.suppressed
       /\ v.p.dropped = nPolicy.dropped
       /\ u \in v.p.open => ~Veiled(nUp, u)
  BY <1>3, <1>11, <1>12, <1>13, OnDeltaPasses
<1>16. /\ v.p.suppressed \subseteq nPolicy.suppressed \cup nPolicy.open /\ v.p.dropped \subseteq nPolicy.dropped \cup {u}
       /\ u \in v.p.dropped => Veiled(nUp, u)
  BY <1>3, <1>15 DEF Attuned
<1> QED BY <1>2, <1>9, <1>10, <1>14, <1>15, <1>16, BlockEventKeeps

LEMMA UpStopKeeps == ASSUME NativeInv, NEW u \in Upstream, UpStop(u) PROVE NativeInv'
<1>1. nUp.pc = "open" /\ nUp' = [nUp EXCEPT !.state[u] = "stopped"]
  BY DEF UpStop
<1>2. nUp \in Ups /\ Passing(Sending, nUp.kind) /\ Attuned(nUp, nPolicy)
  BY <1>1 DEF NativeInv
<1>3. PICK deltas : deltas = nUp.deltas
  OBVIOUS
<1>4. PICK state : state = "stopped"
  OBVIOUS
<1>5. PICK new : new = nUp'
  OBVIOUS
<1>6. deltas \in Int /\ state \in UpStates
  BY <1>2, <1>3, <1>4 DEF Ups, UpStates
<1>7. new = BlockMoved(nUp, u, state, deltas)
  BY <1>1, <1>2, <1>3, <1>4, <1>5 DEF Ups, BlockMoved
<1>8. /\ nUp' \in Ups /\ nUp'.pc = "open" /\ nUp'.kind = nUp.kind /\ nUp'.thinking = nUp.thinking
      /\ SameBut(nUp', nUp, u)
  <2>1. /\ new \in Ups /\ new.pc = nUp.pc /\ new.kind = nUp.kind /\ new.thinking = nUp.thinking
        /\ new.state[u] = state /\ SameBut(new, nUp, u)
    BY <1>2, <1>6, <1>7, UpBlock
  <2> QED BY <1>1, <1>5, <2>1
<1>9. PICK w : w = Sending
  OBVIOUS
<1>10. PICK v : v = OnStop(w, u)
  OBVIOUS
<1>11. w.p = nPolicy
  BY <1>9, SendingIs
<1>12. Forward(v)
  BY <1>9, <1>10 DEF UpStop
<1>13. /\ Passing(v, nUp.kind)
       /\ v.p.open \subseteq nPolicy.open \ {u} /\ v.p.suppressed \subseteq nPolicy.suppressed \ {u}
       /\ v.p.dropped = nPolicy.dropped
  BY <1>2, <1>9, <1>10, <1>11, OnStopPasses
<1>14. /\ u \notin v.p.open /\ u \notin v.p.suppressed /\ v.p.open \subseteq nPolicy.open \cup {u}
       /\ v.p.suppressed \subseteq nPolicy.suppressed \cup nPolicy.open /\ v.p.dropped \subseteq nPolicy.dropped \cup {u}
       /\ u \in v.p.dropped => Veiled(nUp, u)
  BY <1>2, <1>13 DEF Attuned
<1> QED BY <1>1, <1>8, <1>12, <1>13, <1>14, BlockEventKeeps

\* The message is not over yet, and over says whether this event ends it.
Going(p) == p.stopped = FALSE
Ends(type, over) == over \in BOOLEAN /\ (over <=> type = "message_stop")

\* The policy after message_start and message_stop.
LEMMA OnMessagePasses ==
  ASSUME NEW w, IsSending(w), w.p \in Policy, Going(w.p), NEW type, NEW over, Ends(type, over),
         NEW v, v = OnMessage(w, type)
  PROVE  /\ IsSending(v) /\ v.p \in Policy /\ v.p.stopped = over
         /\ v.p.next = w.p.next /\ v.p.down = w.p.down /\ v.p.open = w.p.open
         /\ v.p.dropped = w.p.dropped /\ v.p.suppressed = w.p.suppressed
         /\ v.t = Observe(w.t, MessageEvent(type)) /\ v.c = Accept(w.c, MessageEvent(type))
<1>1. PICK p : p = w.p
  OBVIOUS
<1>2. /\ p = PolicyOf(p.next, p.down, p.open, p.dropped, p.suppressed, p.stopped)
      /\ p.next \in Nat /\ p.down \in [Upstream -> Int] /\ p.open \in SUBSET Upstream
      /\ p.dropped \in SUBSET Upstream /\ p.suppressed \in SUBSET Upstream /\ p.stopped \in BOOLEAN
  BY <1>1, PolicyIs
<1>3. PICK q : q = [p EXCEPT !.stopped = over]
  OBVIOUS
<1>4. q = PolicyOf(p.next, p.down, p.open, p.dropped, p.suppressed, over)
  BY <1>2, <1>3 DEF PolicyOf
<1>5. /\ q \in Policy /\ q.next = p.next /\ q.down = p.down /\ q.open = p.open
      /\ q.dropped = p.dropped /\ q.suppressed = p.suppressed /\ q.stopped = over
  <2>1. PICK next : next = p.next
    OBVIOUS
  <2>2. PICK down : down = p.down
    OBVIOUS
  <2>3. PICK open : open = p.open
    OBVIOUS
  <2>4. PICK dropped : dropped = p.dropped
    OBVIOUS
  <2>5. PICK suppressed : suppressed = p.suppressed
    OBVIOUS
  <2>6. q = PolicyOf(next, down, open, dropped, suppressed, over)
    BY <1>4, <2>1, <2>2, <2>3, <2>4, <2>5
  <2>7. /\ next \in Nat /\ down \in [Upstream -> Int] /\ open \in SUBSET Upstream
        /\ dropped \in SUBSET Upstream /\ suppressed \in SUBSET Upstream
    BY <1>2, <2>1, <2>2, <2>3, <2>4, <2>5
  <2>8. over \in BOOLEAN
    BY DEF Ends
  <2>9. /\ q \in Policy /\ q.next = next /\ q.down = down /\ q.open = open
        /\ q.dropped = dropped /\ q.suppressed = suppressed /\ q.stopped = over
    BY <2>6, <2>7, <2>8, PolicyMade
  <2> QED BY <2>1, <2>2, <2>3, <2>4, <2>5, <2>9
<1>6. PICK a : a = WithPolicy(w, q)
  OBVIOUS
<1>7. IsSending(a) /\ a.p = q /\ a.t = w.t /\ a.c = w.c
  BY <1>6, PolicyPut
<1>8. [w EXCEPT !.p.stopped = over] = a
  BY <1>1, <1>3, <1>6 DEF WithPolicy, IsSending
<1>9. v = Send([w EXCEPT !.p.stopped = w.p.stopped \/ type = "message_stop"], MessageEvent(type))
  BY DEF OnMessage, Going
<1>10. (w.p.stopped \/ type = "message_stop") = over
  BY DEF Going, Ends
<1>11. v = Send(a, MessageEvent(type))
  BY <1>8, <1>9, <1>10
<1>12. /\ IsSending(v) /\ v.p = q /\ v.t = Observe(w.t, MessageEvent(type)) /\ v.c = Accept(w.c, MessageEvent(type))
  BY <1>7, <1>11, SendIs
<1> QED BY <1>1, <1>5, <1>12

LEMMA NothingOpen == ASSUME NEW p, NEW kind, p.open = {} PROVE Segments(p, kind) = {}
BY DEF Segments

LEMMA UpMessageStartKeeps == ASSUME NativeInv, UpMessageStart PROVE NativeInv'
<1>1. nUp.pc = "new" /\ nUp' = [nUp EXCEPT !.pc = "open"]
  BY DEF UpMessageStart
<1>2. nUp \in Ups /\ NothingSent
  BY <1>1 DEF NativeInv
<1>3. PICK pc : pc = "open"
  OBVIOUS
<1>4. nUp' \in Ups /\ nUp'.pc = pc /\ nUp'.kind = nUp.kind
  <2>1. pc \in {"new", "open", "stopped", "ended", "failed", "late"} /\ nUp' = [nUp EXCEPT !.pc = pc]
    BY <1>1, <1>3
  <2> QED BY <1>2, <2>1, UpAt
<1>5. PICK type : type = "message_start"
  OBVIOUS
<1>6. PICK over : over = FALSE
  OBVIOUS
<1>7. PICK w : w = Sending
  OBVIOUS
<1>8. IsSending(w) /\ w.p = nPolicy /\ w.t = nTracker /\ w.c = nClient
  BY <1>7, SendingIs
<1>9. PICK v : v = OnMessage(w, type)
  OBVIOUS
<1>10. Forward(v)
  BY <1>5, <1>7, <1>9 DEF UpMessageStart
<1>11. Laid(nPolicy) /\ nPolicy \in Policy /\ nPolicy.stopped = FALSE
  BY <1>2 DEF NothingSent, Laid
<1>12. Ends(type, over)
  BY <1>5, <1>6 DEF Ends
<1>13. /\ IsSending(v) /\ v.p \in Policy /\ v.p.stopped = over
       /\ v.p.next = nPolicy.next /\ v.p.down = nPolicy.down /\ v.p.open = nPolicy.open
       /\ v.p.dropped = nPolicy.dropped /\ v.p.suppressed = nPolicy.suppressed
       /\ v.t = Observe(nTracker, MessageEvent(type)) /\ v.c = Accept(nClient, MessageEvent(type))
  <2>1. IsSending(w) /\ w.p \in Policy /\ Going(w.p)
    BY <1>8, <1>11 DEF Going
  <2>2. /\ IsSending(v) /\ v.p \in Policy /\ v.p.stopped = over
        /\ v.p.next = w.p.next /\ v.p.down = w.p.down /\ v.p.open = w.p.open
        /\ v.p.dropped = w.p.dropped /\ v.p.suppressed = w.p.suppressed
        /\ v.t = Observe(w.t, MessageEvent(type)) /\ v.c = Accept(w.c, MessageEvent(type))
    BY <2>1, <1>9, <1>12, OnMessagePasses
  <2> QED BY <1>8, <2>2
<1>14. v.t = nTracker
  <2>1. type \in {"message_start", "message_delta", "message_stop", "noise"}
    BY <1>5
  <2> QED BY <1>13, <2>1, TrackMessage
<1>15. Laid(v.p) /\ Attuned(nUp', v.p)
  BY <1>2, <1>6, <1>11, <1>13 DEF NothingSent, Laid, Attuned
<1>16. PICK nothing : nothing = {}
  OBVIOUS
<1>17. Reads(v.c, 0, nothing) /\ Tracks(v.t, 0, nothing)
  BY <1>2, <1>5, <1>13, <1>14, <1>16, MessageBegins DEF NothingSent
<1>18. Segments(v.p, nUp'.kind) = nothing /\ v.p.next = 0
  BY <1>2, <1>13, <1>16, NothingOpen DEF NothingSent
<1>19. Passing(v, nUp'.kind)
  BY <1>13, <1>15, <1>17, <1>18 DEF Passing, Agree
<1>20. nPolicy' = v.p /\ nTracker' = v.t /\ nClient' = v.c
  BY <1>10 DEF Forward
<1>21. Sending' = v
  BY <1>13, <1>20 DEF Sending, IsSending
<1>22. NativeContract'
  BY <1>3, <1>4, <1>17, <1>20 DEF NativeContract, Reads
<1> QED BY <1>3, <1>4, <1>15, <1>19, <1>20, <1>21, <1>22 DEF NativeInv

LEMMA UpMessageStopKeeps == ASSUME NativeInv, UpMessageStop PROVE NativeInv'
<1>1. /\ nUp.pc = "open" /\ nUp' = [nUp EXCEPT !.pc = "stopped"]
      /\ \A u \in Upstream : nUp.state[u] \in {"new", "stopped"}
  BY DEF UpMessageStop
<1>2. nUp \in Ups /\ Passing(Sending, nUp.kind) /\ Attuned(nUp, nPolicy)
  BY <1>1 DEF NativeInv
<1>3. PICK pc : pc = "stopped"
  OBVIOUS
<1>4. nUp' \in Ups /\ nUp'.pc = pc
  <2>1. pc \in {"new", "open", "stopped", "ended", "failed", "late"} /\ nUp' = [nUp EXCEPT !.pc = pc]
    BY <1>1, <1>3
  <2> QED BY <1>2, <2>1, UpAt
<1>5. PICK type : type = "message_stop"
  OBVIOUS
<1>6. PICK over : over = TRUE
  OBVIOUS
<1>7. PICK w : w = Sending
  OBVIOUS
<1>8. IsSending(w) /\ w.p = nPolicy /\ w.t = nTracker /\ w.c = nClient
  BY <1>7, SendingIs
<1>9. PICK v : v = OnMessage(w, type)
  OBVIOUS
<1>10. Forward(v)
  BY <1>5, <1>7, <1>9 DEF UpMessageStop
<1>11. nPolicy \in Policy /\ nPolicy.stopped = FALSE
  BY <1>2, <1>7, <1>8 DEF Passing, Laid
<1>12. Ends(type, over)
  BY <1>5, <1>6 DEF Ends
<1>13. v.p.stopped = over /\ v.c = Accept(nClient, MessageEvent(type))
  <2>1. IsSending(w) /\ w.p \in Policy /\ Going(w.p)
    BY <1>8, <1>11 DEF Going
  <2>2. v.p.stopped = over /\ v.c = Accept(w.c, MessageEvent(type))
    BY <2>1, <1>9, <1>12, OnMessagePasses
  <2> QED BY <1>8, <2>2
<1>14. nPolicy.open = {}
  <2>1. nPolicy.open \in SUBSET Upstream
    BY <1>11, PolicyIs
  <2>2. \A u \in Upstream : ~Begun(nUp, u)
    BY <1>1 DEF Begun
  <2> QED BY <1>2, <2>1, <2>2 DEF Attuned
<1>15. PICK nothing : nothing = {}
  OBVIOUS
<1>16. PICK n : n = nPolicy.next
  OBVIOUS
<1>17. Reads(nClient, n, nothing)
  <2>1. Segments(nPolicy, nUp.kind) = nothing
    BY <1>14, <1>15, NothingOpen
  <2> QED BY <1>2, <1>7, <1>8, <1>16, <2>1 DEF Passing, Agree
<1>18. v.c.ok /\ v.c.open = {} /\ v.c.stops = 1
  BY <1>5, <1>13, <1>15, <1>17, ReadOver
<1>19. nPolicy' = v.p /\ nClient' = v.c
  BY <1>10 DEF Forward
<1>20. NativeContract'
  BY <1>3, <1>4, <1>18, <1>19 DEF NativeContract
<1> QED BY <1>3, <1>4, <1>6, <1>13, <1>19, <1>20 DEF NativeInv

LEMMA UpNoiseKeeps == ASSUME NativeInv, UpNoise PROVE NativeInv'
<1>1. nUp.pc = "stopped" /\ nUp.router /\ nUp' = [nUp EXCEPT !.pc = "ended"]
  BY DEF UpNoise
<1>2. nUp \in Ups /\ nPolicy.stopped = TRUE /\ NativeContract
  BY <1>1 DEF NativeInv
<1>3. PICK pc : pc = "ended"
  OBVIOUS
<1>4. nUp' \in Ups /\ nUp'.pc = pc
  <2>1. pc \in {"new", "open", "stopped", "ended", "failed", "late"} /\ nUp' = [nUp EXCEPT !.pc = pc]
    BY <1>1, <1>3
  <2> QED BY <1>2, <2>1, UpAt
<1>5. PICK w : w = Sending
  OBVIOUS
<1>6. w.p = nPolicy /\ w.t = nTracker /\ w.c = nClient
  BY <1>5, SendingIs
<1>7. OnMessage(w, "noise") = w
  BY <1>1, <1>2, <1>6 DEF OnMessage
<1>8. Forward(w)
  BY <1>5, <1>7 DEF UpNoise
<1>9. nPolicy' = nPolicy /\ nClient' = nClient
  BY <1>6, <1>8 DEF Forward
<1>10. NativeContract'
  BY <1>1, <1>2, <1>3, <1>4, <1>9 DEF NativeContract
<1> QED BY <1>2, <1>3, <1>4, <1>9, <1>10 DEF NativeInv

\* The message that an error ends, wherever it comes.
LEMMA MidstreamErrorEnds ==
  ASSUME NativeInv, nUp.pc = "open" PROVE Complete(MidstreamError)
<1>1. Passing(Sending, nUp.kind)
  BY DEF NativeInv
<1>2. PICK open : open = Segments(nPolicy, nUp.kind)
  OBVIOUS
<1>3. PICK n : n = nPolicy.next
  OBVIOUS
<1>4. PICK t : t = nTracker
  OBVIOUS
<1>5. PICK c : c = nClient
  OBVIOUS
<1>6. Agree(t, c, n, open)
  BY <1>1, <1>2, <1>3, <1>4, <1>5, SendingIs DEF Passing
<1>7. PICK closed : closed = ReadAll(c, CloseUnclosed(t.stack))
  OBVIOUS
<1>8. PICK nothing : nothing = {}
  OBVIOUS
<1>9. Reads(closed, n, {})
  BY <1>6, <1>7, CloseUnclosedCloses
<1>10. t.max + 1 = n
  BY <1>6 DEF Agree, Tracks, Reads
<1>11. Complete(ReadAll(closed, ErrorTail(n)))
  BY <1>9, ErrorTailEnds
<1> QED BY <1>4, <1>5, <1>7, <1>10, <1>11 DEF MidstreamError

LEMMA UpFailsKeeps == ASSUME NativeInv, UpFails PROVE NativeInv'
<1>1. /\ nUp.pc \in {"new", "open"} /\ nUp' = [nUp EXCEPT !.pc = "failed"] /\ nClient' = ToldError
  BY DEF UpFails
<1>2. nUp \in Ups
  BY DEF NativeInv
<1>3. PICK pc : pc = "failed"
  OBVIOUS
<1>4. nUp' \in Ups /\ nUp'.pc = pc
  <2>1. pc \in {"new", "open", "stopped", "ended", "failed", "late"} /\ nUp' = [nUp EXCEPT !.pc = pc]
    BY <1>1, <1>3
  <2> QED BY <1>2, <2>1, UpAt
<1>5. Complete(nClient')
  <2>1. CASE nUp.pc = "new"
    <3>1. nClient = NewClient
      BY <2>1 DEF NativeInv, NothingSent
    <3>2. PICK c : c = Accept(NewClient, MessageEvent("message_start"))
      OBVIOUS
    <3>3. PICK n : n = 0
      OBVIOUS
    <3>4. Reads(c, n, {})
      BY <3>2, <3>3, MessageBegins
    <3>5. Complete(ReadAll(c, ErrorTail(n)))
      BY <3>4, ErrorTailEnds
    <3> QED BY <1>1, <2>1, <3>1, <3>2, <3>3, <3>5 DEF ToldError
  <2>2. CASE nUp.pc = "open"
    <3>1. nClient' = MidstreamError
      BY <1>1, <2>2 DEF ToldError
    <3> QED BY <2>2, <3>1, MidstreamErrorEnds
  <2> QED BY <1>1, <2>1, <2>2
<1>6. NativeContract'
  BY <1>3, <1>4, <1>5 DEF NativeContract, Complete
<1> QED BY <1>3, <1>4, <1>6 DEF NativeInv

LEMMA UpFailsLateKeeps == ASSUME NativeInv, UpFailsLate PROVE NativeInv'
<1>1. nUp' = [nUp EXCEPT !.pc = "late"]
  BY DEF UpFailsLate
<1>2. nUp \in Ups
  BY DEF NativeInv
<1>3. PICK pc : pc = "late"
  OBVIOUS
<1>4. nUp' \in Ups /\ nUp'.pc = pc
  <2>1. pc \in {"new", "open", "stopped", "ended", "failed", "late"} /\ nUp' = [nUp EXCEPT !.pc = pc]
    BY <1>1, <1>3
  <2> QED BY <1>2, <2>1, UpAt
<1>5. NativeContract'
  BY <1>3, <1>4 DEF NativeContract
<1> QED BY <1>3, <1>4, <1>5 DEF NativeInv

LEMMA NativeInit == NInit => NativeInv
<1> SUFFICES ASSUME NInit PROVE NativeInv
  OBVIOUS
<1>1. /\ nUp \in Ups /\ nUp.pc = "new"
  BY DEF NInit, Ups, UpStates
<1>2. PICK down : down = [u \in Upstream |-> -1]
  OBVIOUS
<1>3. PICK nobody : nobody = {}
  OBVIOUS
<1>4. PICK no : no = FALSE
  OBVIOUS
<1>5. PICK zero : zero = 0
  OBVIOUS
<1>6. nPolicy = PolicyOf(zero, down, nobody, nobody, nobody, no)
  BY <1>2, <1>3, <1>4, <1>5 DEF NInit, PolicyOf
<1>7. zero \in Nat /\ down \in [Upstream -> Int] /\ nobody \in SUBSET Upstream /\ no \in BOOLEAN
  <2>1. zero \in Nat
    BY <1>5
  <2>2. down \in [Upstream -> Int]
    BY <1>2
  <2>3. nobody \in SUBSET Upstream
    BY <1>3
  <2>4. no \in BOOLEAN
    BY <1>4
  <2> QED BY <2>1, <2>2, <2>3, <2>4
<1>8. /\ nPolicy \in Policy /\ nPolicy.next = zero /\ nPolicy.open = nobody
      /\ nPolicy.dropped = nobody /\ nPolicy.suppressed = nobody /\ nPolicy.stopped = no
  BY <1>6, <1>7, PolicyMade
<1>9. Laid(nPolicy)
  BY <1>3, <1>4, <1>8 DEF Laid
<1>10. Tracks(nTracker, 0, {})
  <2>1. nTracker = [stack |-> <<>>, max |-> -1]
    BY DEF NInit
  <2>2. PICK s : s = <<>>
    OBVIOUS
  <2>3. s \in Seq(Int) /\ DOMAIN s = {}
    BY <2>2
  <2>4. nTracker.stack = s /\ nTracker.max = 0 - 1 /\ nTracker = [stack |-> nTracker.stack, max |-> nTracker.max]
    BY <2>1, <2>2
  <2> QED BY <2>3, <2>4 DEF Tracks
<1>11. nClient = NewClient /\ nClient.ok = TRUE
  BY DEF NInit, NewClient
<1>12. NothingSent
  BY <1>3, <1>5, <1>8, <1>9, <1>10, <1>11 DEF NothingSent
<1>13. NativeContract
  BY <1>1, <1>11 DEF NativeContract
<1> QED BY <1>1, <1>12, <1>13 DEF NativeInv

LEMMA NativeStep == NativeInv /\ [NNext]_nVars => NativeInv'
<1> SUFFICES ASSUME NativeInv, [NNext]_nVars PROVE NativeInv'
  OBVIOUS
<1>1. CASE UpMessageStart
  BY <1>1, UpMessageStartKeeps
<1>2. CASE UpMessageStop
  BY <1>2, UpMessageStopKeeps
<1>3. CASE UpNoise
  BY <1>3, UpNoiseKeeps
<1>4. CASE UpFails
  BY <1>4, UpFailsKeeps
<1>5. CASE UpFailsLate
  BY <1>5, UpFailsLateKeeps
<1>6. ASSUME NEW u \in Upstream, UpStart(u) PROVE NativeInv'
  BY <1>6, UpStartKeeps
<1>7. ASSUME NEW u \in Upstream, UpDelta(u) PROVE NativeInv'
  BY <1>7, UpDeltaKeeps
<1>8. ASSUME NEW u \in Upstream, UpStop(u) PROVE NativeInv'
  BY <1>8, UpStopKeeps
<1>9. CASE UNCHANGED nVars
  <2>1. nUp' = nUp /\ nPolicy' = nPolicy /\ nTracker' = nTracker /\ nClient' = nClient
    BY <1>9 DEF nVars
  <2>2. Sending' = Sending
    BY <2>1 DEF Sending
  <2>3. NothingSent' <=> NothingSent
    BY <2>1 DEF NothingSent
  <2>4. NativeContract'
    BY <2>1 DEF NativeInv, NativeContract
  <2> QED BY <2>1, <2>2, <2>3, <2>4 DEF NativeInv
<1> QED BY <1>1, <1>2, <1>3, <1>4, <1>5, <1>6, <1>7, <1>8, <1>9 DEF NNext

\* However many blocks the provider has, however they overlap and wherever the
\* stream breaks before its message_stop, the client of a native provider reads
\* a well-formed message (transform_native_sse_block_event, EmittedNativeSseTracker).
THEOREM NativeStreamsAreMessages == NSpec => []NativeContract
<1>1. NativeInv => NativeContract
  BY DEF NativeInv
<1> QED BY <1>1, NativeInit, NativeStep, PTL DEF NSpec
=============================================================================
