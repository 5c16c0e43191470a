------------------------------- MODULE SseFraming ------------------------------
(***************************************************************************)
(* The two decoders of event streams: SseDecoder of ai-provider, which     *)
(* reads what language models send, and SseParser of pawbun-toolkit, which *)
(* reads what MCP servers send.  Bytes arrive in chunks cut anywhere; each *)
(* chunk is decoded on its own and added to a buffer; a blank line ends an *)
(* event.                                                                  *)
(*                                                                         *)
(* Abstractions: a character is "x", one byte, or "e", two bytes; fields   *)
(* of an event are not told apart.                                         *)
(***************************************************************************)
EXTENDS Integers, Sequences, FiniteSets
LOCAL INSTANCE SequencesExt

CONSTANTS StreamTexts,  \* what servers send: sequences of "x", "e", "lf", "crlf"
          MaxBuffer     \* MAX_SSE_BUFFER

ASSUME SseAssumption == MaxBuffer \in Nat

VARIABLES decoder,  \* circumstance: "provider" or "mcp"
          text,     \* circumstance: what the server sends
          offset,   \* how many of its bytes have arrived
          held,     \* the decoder's buffer, of characters
          events,   \* the events it returned
          closed    \* the stream has ended

sseVars == <<decoder, text, offset, held, events, closed>>

\* Bytes.
Encoded(unit) == CASE unit = "x" -> <<"x">> [] unit = "e" -> <<"e1", "e2">>
                   [] unit = "lf" -> <<"n">> [] unit = "crlf" -> <<"r", "n">>
Bytes == FlattenSeq([i \in DOMAIN text |-> Encoded(text[i])])

SseInit ==
    /\ decoder \in {"provider", "mcp"} /\ text \in StreamTexts
    /\ offset = 0 /\ held = <<>> /\ events = <<>> /\ closed = FALSE

-----------------------------------------------------------------------------
\* String::from_utf8_lossy: a byte that is no character, here or in the chunk before, is "?".
Lossy(chunk) ==
    LET at(i) == IF chunk[i] = "e1" /\ i < Len(chunk) /\ chunk[i + 1] = "e2" THEN <<"e">>
                 ELSE IF chunk[i] = "e2" /\ i > 1 /\ chunk[i - 1] = "e1" THEN <<>>
                 ELSE IF chunk[i] \in {"e1", "e2"} THEN <<"?">>
                 ELSE <<chunk[i]>>
    IN FlattenSeq([i \in DOMAIN chunk |-> at(i)])

LfLf == <<"n", "n">>
CrLfCrLf == <<"r", "n", "r", "n">>
Places(mark, buffer) == {i \in 1..(Len(buffer) - Len(mark) + 1) : SubSeq(buffer, i, i + Len(mark) - 1) = mark}
Earliest(places) == CHOOSE i \in places : \A j \in places : i <= j

\* Where the first event ends, and how long its mark is; 0 if it does not.  The provider's
\* decoder looks for CRLFs in all of the buffer first, the MCP client takes what comes first.
Ending_LfOnly(buffer) ==
    LET lf == Places(LfLf, buffer) IN IF lf # {} THEN <<Earliest(lf), 2>> ELSE <<0, 0>>

Ending(buffer) ==
    LET crlf == Places(CrLfCrLf, buffer)  lf == Places(LfLf, buffer)
        first == IF decoder = "provider" /\ crlf # {} THEN crlf ELSE crlf \cup lf
    IN IF first = {} THEN <<0, 0>>
       ELSE <<Earliest(first), IF Earliest(first) \in crlf THEN 4 ELSE 2>>

\* The event's lines; empty ones, and their ends, say nothing.
Lines(block) ==
    LET s == SelectSeq(block, LAMBDA c : c # "r")
        kept(i) == s[i] # "n" \/ (i > 1 /\ s[i - 1] # "n" /\ \E j \in (i + 1)..Len(s) : s[j] # "n")
    IN FlattenSeq([i \in DOMAIN s |-> IF kept(i) THEN <<s[i]>> ELSE <<>>])

\* Events are taken from the buffer until none is whole; a block without lines is skipped.
Flush[buffer \in Seq({"x", "e", "?", "n", "r"})] ==
    LET end == Ending(buffer)
    IN IF end[1] = 0 THEN [events |-> <<>>, rest |-> buffer]
       ELSE LET block == Lines(SubSeq(buffer, 1, end[1] - 1))
                after == Flush[SubSeq(buffer, end[1] + end[2], Len(buffer))]
            IN [events |-> (IF block = <<>> THEN <<>> ELSE <<block>>) \o after.events, rest |-> after.rest]

\* The MCP client's buffer is cut when it is too long: after an event's end in its second
\* half, or altogether.
Bounded(buffer) ==
    IF decoder = "provider" \/ Len(buffer) <= MaxBuffer THEN buffer
    ELSE LET half == MaxBuffer \div 2
             ends == {i \in Places(LfLf, buffer) : i > half}
         IN IF ends = {} THEN <<>> ELSE SubSeq(buffer, Earliest(ends) + 2, Len(buffer))

ReceiveChunk ==
    /\ ~closed /\ offset < Len(Bytes)
    /\ \E upto \in (offset + 1)..Len(Bytes) :
          /\ offset' = upto
          /\ LET got == Flush[Bounded(held \o Lossy(SubSeq(Bytes, offset + 1, upto)))]
             IN events' = events \o got.events /\ held' = got.rest
    /\ UNCHANGED <<decoder, text, closed>>

\* The provider's decoder takes what is left for an event.
EndOfStream ==
    /\ ~closed /\ offset = Len(Bytes)
    /\ closed' = TRUE /\ held' = <<>>
    /\ events' = IF decoder = "provider" /\ Lines(held) # <<>> THEN Append(events, Lines(held)) ELSE events
    /\ UNCHANGED <<decoder, text, offset>>

SseNext == ReceiveChunk \/ EndOfStream

SseSpec == SseInit /\ [][SseNext]_sseVars

-----------------------------------------------------------------------------
(* The reference: what the standard says the events of a text are.          *)

Step(done, unit) ==
    LET open == done.open
        blank == open = <<>> \/ open[Len(open)] = "n"
    IN IF unit \notin {"lf", "crlf"} THEN [done EXCEPT !.open = Append(open, unit)]
       ELSE IF ~blank THEN [done EXCEPT !.open = Append(open, "n")]
       ELSE [events |-> IF open = <<>> THEN done.events ELSE Append(done.events, SubSeq(open, 1, Len(open) - 1)),
             open |-> <<>>]
Standard == FoldLeft(Step, [events |-> <<>>, open |-> <<>>], text).events

Uniform == {"lf", "crlf"} \ {text[i] : i \in DOMAIN text} # {}
Plain == "e" \notin {text[i] : i \in DOMAIN text}
Fits == decoder = "provider" \/ Len(Bytes) <= MaxBuffer

\* However the bytes are cut into chunks, the events of a text with one kind of line end are
\* those of the standard: here, at every moment, a prefix of them, and all at the end but
\* for what the provider's decoder makes of a last event without an end.
ChunksDoNotMatter ==
    Uniform /\ Plain /\ Fits =>
       /\ ~closed => IsPrefix(events, Standard)
       /\ closed => IsPrefix(Standard, events) /\ (decoder = "mcp" => events = Standard)

\* What a reader may expect and the code does not keep (README).
\* A character of more than one byte survives the cut.
CharactersSurvive == \A i \in DOMAIN events : "?" \notin {events[i][j] : j \in DOMAIN events[i]}
\* A text may use both kinds of line end.
MixedEndsKept == Plain /\ Fits /\ ~closed => IsPrefix(events, Standard)
==============================================================================
