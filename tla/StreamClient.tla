---------------------------- MODULE StreamClient ----------------------------
(***************************************************************************)
(* A reader of an Anthropic event stream, as the repository's contract     *)
(* checker reads one (core/anthropic/stream_contracts.py).                 *)
(***************************************************************************)
EXTENDS Integers, Sequences, SequencesExt

BlockStart(i, kind) == [type |-> "start", index |-> i, kind |-> kind, data |-> <<>>]
BlockDelta(i, kind, data) == [type |-> "delta", index |-> i, kind |-> kind, data |-> data]
BlockStop(i) == [type |-> "stop", index |-> i, kind |-> "", data |-> <<>>]
MessageEvent(type) == [type |-> type, index |-> -1, kind |-> "", data |-> <<>>]

NewClient == [starts |-> 0, stops |-> 0, open |-> {}, seen |-> {}, input |-> <<>>, ok |-> TRUE]

\* Every index is new, a delta falls in an open block of its kind, a stop
\* closes an open block, and everything is between one start and one stop.
Expected(c, ev) ==
    /\ c.stops = 0
    /\ (c.starts = 0) = (ev.type = "message_start")
    /\ ev.type = "start" => ev.index \notin c.seen
    /\ ev.type = "delta" => <<ev.index, ev.kind>> \in c.open
    /\ ev.type = "stop" => \E b \in c.open : b[1] = ev.index

Accept(c, ev) ==
    [starts |-> IF ev.type = "message_start" THEN c.starts + 1 ELSE c.starts,
     stops  |-> IF ev.type = "message_stop" THEN c.stops + 1 ELSE c.stops,
     open   |-> CASE ev.type = "start" -> c.open \cup {<<ev.index, ev.kind>>}
                  [] ev.type = "stop" -> {b \in c.open : b[1] # ev.index}
                  [] OTHER -> c.open,
     seen   |-> IF ev.type = "start" THEN c.seen \cup {ev.index} ELSE c.seen,
     input  |-> CASE ev.type = "start" -> Append(c.input, <<>>)
                  [] ev.type = "delta" /\ ev.index + 1 \in DOMAIN c.input -> [c.input EXCEPT ![ev.index + 1] = @ \o ev.data]
                  [] OTHER -> c.input,
     ok     |-> c.ok /\ Expected(c, ev)]

ReadAll(c, events) ==
    LET read[n \in 0..Len(events)] == IF n = 0 THEN c ELSE Accept(read[n - 1], events[n])
    IN  read[Len(events)]

\* emit_error, message_delta and message_stop: how every failed stream ends.
ErrorTail(i) ==
    <<BlockStart(i, "text"), BlockDelta(i, "text", <<>>), BlockStop(i),
      MessageEvent("message_delta"), MessageEvent("message_stop")>>

Complete(c) == c.ok /\ c.open = {} /\ c.seen # {} /\ c.stops = 1
=============================================================================
