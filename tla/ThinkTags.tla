----------------------------- MODULE ThinkTags -----------------------------
(***************************************************************************)
(* ThinkTagParser (core/anthropic/thinking.py): the streaming parser that  *)
(* separates thinking from text in what a provider sends.  A chunk may end *)
(* anywhere, inside a tag too.  Text is written over an alphabet in which  *)
(* "t" stands for the word think; it is a plain letter elsewhere.          *)
(***************************************************************************)
EXTENDS Naturals, Sequences, SequencesExt

CONSTANTS MaxInput, MaxChunk

ASSUME TagBounds == MaxInput \in Nat /\ MaxChunk \in Nat \ {0}

VARIABLES tkBuffer, tkSide, tkOut, tkFed, tkFlushed

tkVars == <<tkBuffer, tkSide, tkOut, tkFed, tkFlushed>>

Alphabet == {"<", "/", "t", ">"}
OPEN_TAG == <<"<", "t", ">">>
CLOSE_TAG == <<"<", "/", "t", ">">>

\* The side of a tag the parser is on; it is inside when it reads thinking.
Sides == {"text", "thinking"}
Marked(s, side) == [i \in DOMAIN s |-> <<side, s[i]>>]

Drop(s, n) == SubSeq(s, n + 1, Len(s))
Take(s, n) == SubSeq(s, 1, n)
TagAt(s, tag, i) == i + Len(tag) - 1 <= Len(s) /\ SubSeq(s, i, i + Len(tag) - 1) = tag
Found(s, tag) == {i \in DOMAIN s : TagAt(s, tag, i)}
First(S) == CHOOSE i \in S : \A j \in S : i <= j
Last1(S) == CHOOSE i \in S : \A j \in S : i >= j

MutantHeld(s, tags) == {}

\* Where a tag may have begun: the last bracket, if what follows it is a
\* proper prefix of a tag.
Held(s, tags) ==
    LET brackets == {i \in DOMAIN s : s[i] = "<"}
    IN  IF brackets = {} THEN {}
        ELSE {b \in {Last1(brackets)} :
                 \E tag \in tags : /\ Len(s) - b + 1 < Len(tag)
                                   /\ IsPrefix(SubSeq(s, b, Len(s)), tag)}

\* One pass of the loop in feed: what is emitted, what is left to parse, and
\* the side it is on.
OutsideThink(s) ==
    LET open == Found(s, OPEN_TAG)
        orphan == Found(s, CLOSE_TAG)
        held == Held(s, {OPEN_TAG, CLOSE_TAG})
    IN  CASE orphan # {} /\ (open # {} => First(orphan) < First(open)) ->
               [emit |-> Take(s, First(orphan) - 1), rest |-> Drop(s, First(orphan) + Len(CLOSE_TAG) - 1), side |-> "text"]
          [] open # {} /\ (orphan # {} => First(open) < First(orphan)) ->
               [emit |-> Take(s, First(open) - 1), rest |-> Drop(s, First(open) + Len(OPEN_TAG) - 1), side |-> "thinking"]
          [] open = {} /\ orphan = {} /\ held # {} ->
               [emit |-> Take(s, First(held) - 1), rest |-> Drop(s, First(held) - 1), side |-> "text"]
          [] OTHER -> [emit |-> s, rest |-> <<>>, side |-> "text"]

InsideThink(s) ==
    LET close == Found(s, CLOSE_TAG)
        held == Held(s, {CLOSE_TAG})
    IN  CASE close # {} ->
               [emit |-> Take(s, First(close) - 1), rest |-> Drop(s, First(close) + Len(CLOSE_TAG) - 1), side |-> "text"]
          [] close = {} /\ held # {} ->
               [emit |-> Take(s, First(held) - 1), rest |-> Drop(s, First(held) - 1), side |-> "thinking"]
          [] OTHER -> [emit |-> s, rest |-> <<>>, side |-> "thinking"]

ParsePass(s, side) == IF side = "thinking" THEN InsideThink(s) ELSE OutsideThink(s)

Parsed(p) ==
    LET pass == ParsePass(p.buffer, p.side)
    IN  IF pass.rest = p.buffer THEN p
        ELSE [buffer |-> pass.rest, side |-> pass.side, out |-> p.out \o Marked(pass.emit, p.side)]

\* feed's loop goes on as long as a pass consumes something.
ParseAll(s, side) ==
    LET parse[n \in 0..Len(s)] ==
            IF n = 0 THEN [buffer |-> s, side |-> side, out |-> <<>>] ELSE Parsed(parse[n - 1])
    IN  parse[Len(s)]

TKInit ==
    /\ tkBuffer = <<>> /\ tkSide = "text"
    /\ tkOut = <<>> /\ tkFed = <<>> /\ tkFlushed = FALSE

Feed(chunk) ==
    LET parsed == ParseAll(tkBuffer \o chunk, tkSide)
    IN  /\ ~tkFlushed /\ Len(tkFed) + Len(chunk) <= MaxInput
        /\ tkBuffer' = parsed.buffer /\ tkSide' = parsed.side
        /\ tkOut' = tkOut \o parsed.out
        /\ tkFed' = tkFed \o chunk
        /\ UNCHANGED tkFlushed

Flush ==
    /\ ~tkFlushed
    /\ tkOut' = tkOut \o Marked(tkBuffer, tkSide) /\ tkBuffer' = <<>>
    /\ tkFlushed' = TRUE
    /\ UNCHANGED <<tkSide, tkFed>>

TKNext == Flush \/ \E n \in 1..MaxChunk : \E chunk \in [1..n -> Alphabet] : Feed(chunk)

TKSpec == TKInit /\ [][TKNext]_tkVars

\* The reference: reading left to right a tag is dropped and switches, an
\* orphan closing tag is dropped, everything else is kept where it stands.
\* read[n][d] is how the last n letters are read on side d.
Reading(s, side) ==
    LET read[n \in 0..Len(s)] ==
            [d \in Sides |->
                LET rest == Drop(s, Len(s) - n)
                IN  CASE n = 0 -> <<>>
                      [] n # 0 /\ TagAt(rest, CLOSE_TAG, 1) -> read[n - Len(CLOSE_TAG)]["text"]
                      [] n # 0 /\ d = "text" /\ TagAt(rest, OPEN_TAG, 1) -> read[n - Len(OPEN_TAG)]["thinking"]
                      [] OTHER -> Marked(Take(rest, 1), d) \o read[n - 1][d]]
    IN  read[Len(s)][side]

\* However the provider cuts its text, what was emitted followed by what
\* flush would add is the text read as a whole: no tag is missed at a
\* boundary, nothing is lost, repeated or put on the wrong side.
ChunkingInvisible ==
    tkOut \o (IF tkFlushed THEN <<>> ELSE Marked(tkBuffer, tkSide)) = Reading(tkFed, "text")
=============================================================================
