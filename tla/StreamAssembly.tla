----------------------------- MODULE StreamAssembly ----------------------------
(***************************************************************************)
(* One answer of a language model on its way to the transcript: the bytes' *)
(* events (the wire) are read by the provider's task, which turns them     *)
(* into AssistantMessageEvents, sends those through a bounded channel, and *)
(* the loop's call_llm_with_retry assembles the message.  The families of  *)
(* providers differ in what they say: Anthropic and Bedrock keep a message *)
(* of their own and hand it over with Done, OpenAI, Mistral, DeepSeek and  *)
(* Doubao close everything at [DONE], Google at the end of the stream.     *)
(*                                                                         *)
(* Abstractions: an answer is a sequence of blocks; a block's text or      *)
(* arguments are the numbers of the pieces they come in.                   *)
(***************************************************************************)
EXTENDS Integers, Sequences
LOCAL INSTANCE SequencesExt

CONSTANTS SaidBlocks,  \* the answers a model gives: sequences of [kind, args]
          Buffer       \* the channel's capacity (32)

ASSUME StreamAssumption == Buffer \in Nat \ {0}

VARIABLES family,    \* circumstance: "anthropic", "openai", "google"
          said,      \* the model's answer
          wire,      \* what of it is still to come
          provider,  \* try_stream_inner: "reading", "closing" (its last events are due), "over"
          partial,   \* Anthropic's message, and what the parser has of the current block
          calls,     \* OpenAI's tool_call_accum: per block, the pieces of its arguments
          shown,     \* text_started, current_text_block
          sending,   \* events the task is about to send
          channel,
          texts,     \* the loop's text_accum: per content index
          content,   \* assistant_content
          verdict,   \* "reading", "stop", "error", "cancelled"
          cut,       \* the stream ended, broke or was cancelled before its end
          stopped    \* the cancellation token

streamVars == <<family, said, wire, provider, partial, calls, shown, sending, channel, texts, content,
                verdict, cut, stopped>>
loop == <<texts, content, verdict>>

Piece(b, n) == [block |-> b, piece |-> n]
\* The pieces of a block: arguments may be none at all.
Pieces(b) == IF said[b].args = "none" THEN <<>> ELSE <<Piece(b, 1), Piece(b, 2)>>

\* What the provider's server sends for an answer.
Item(is, b, n) == [is |-> is, block |-> b, piece |-> n]
Framed(b) == <<Item("start", b, 0)>> \o [n \in DOMAIN Pieces(b) |-> Item("delta", b, n)] \o <<Item("stop", b, 0)>>
Loose(b) == IF said[b].kind = "tool" /\ Pieces(b) = <<>> THEN <<Item("delta", b, 0)>>
            ELSE [n \in DOMAIN Pieces(b) |-> Item("delta", b, n)]
Whole(b) == IF said[b].kind = "tool" THEN <<Item("call", b, 0)>> ELSE Loose(b)
LastItem == Item("last", 0, 0)

Blocks(Per(_)) == FlattenSeq([b \in DOMAIN said |-> Per(b)])
Wire == (CASE family = "anthropic" -> Blocks(Framed)
           [] family = "openai"    -> Blocks(Loose)
           [] family = "google"    -> Blocks(Whole)) \o <<LastItem>>

StreamInit ==
    /\ family \in {"anthropic", "openai", "google"} /\ said \in SaidBlocks
    /\ wire = Wire
    /\ provider = "reading" /\ partial = [content |-> <<>>, current |-> 0, pieces |-> <<>>]
    /\ calls = [b \in {} |-> <<>>] /\ shown = -1
    /\ sending = <<[is |-> "Start"]>> /\ channel = <<>>
    /\ texts = [i \in {} |-> <<>>] /\ content = <<>> /\ verdict = "reading"
    /\ cut = FALSE /\ stopped = FALSE

-----------------------------------------------------------------------------
(* The events.                                                              *)

TextDelta(index, piece) == <<[is |-> "TextDelta", index |-> index, delta |-> piece]>>
TextEnd(index, pieces) == <<[is |-> "TextEnd", index |-> index, text |-> pieces]>>
ToolCallEnd(b, pieces) == <<[is |-> "ToolCallEnd", block |-> b, args |-> pieces]>>
Done(message) == <<[is |-> "Done", content |-> message]>>
Error == <<[is |-> "Error"]>>

\* serde_json::from_str accepts the arguments whole, and neither a part of them nor none.
Parses(b, pieces) == pieces # <<>> /\ pieces = Pieces(b)

Call(b, pieces) == [is |-> "call", block |-> b, pieces |-> pieces]
Thought(b) == [is |-> "thought", block |-> b, pieces |-> <<>>]
Text(pieces) == [is |-> "text", block |-> 0, pieces |-> pieces]

-----------------------------------------------------------------------------
(* StreamParser::process_event.  It pushes a tool call or a thought on its  *)
(* message's content when the block ends, text never.                       *)

BlockStart(item) ==
    /\ partial' = [partial EXCEPT !.current = item.block, !.pieces = <<>>]
    /\ sending' = <<>>

BlockDelta(item) ==
    /\ partial' = [partial EXCEPT !.pieces = Append(@, Piece(item.block, item.piece))]
    /\ sending' = IF said[item.block].kind = "text" THEN TextDelta(item.block, Piece(item.block, item.piece)) ELSE <<>>

BlockStop(item) ==
    LET b == partial.current
        kept == CASE said[b].kind = "tool" /\ Parses(b, partial.pieces) -> <<Call(b, partial.pieces)>>
                  [] said[b].kind = "thought" -> <<Thought(b)>>
                  [] OTHER -> <<>>
    IN /\ partial' = [partial EXCEPT !.current = 0, !.content = @ \o kept]
       /\ sending' = CASE said[b].kind = "text" -> TextEnd(b, partial.pieces)
                       [] said[b].kind = "tool" /\ kept # <<>> -> ToolCallEnd(b, partial.pieces)
                       [] OTHER -> <<>>

ReadAnthropic(item) ==
    /\ CASE item.is = "start" -> BlockStart(item)
         [] item.is = "delta" -> BlockDelta(item)
         [] item.is = "stop"  -> BlockStop(item)
         [] item.is = "last"  -> sending' = Done(partial.content) /\ UNCHANGED partial
    /\ UNCHANGED <<calls, shown>>

-----------------------------------------------------------------------------
(* openai_compatible_stream, and Mistral's copy: text has index 0, and the  *)
(* calls are ended at [DONE], those whose arguments parse.                  *)

EndedCalls == LET whole == SelectSeq([b \in DOMAIN said |-> b], LAMBDA b : b \in DOMAIN calls /\ Parses(b, calls[b]))
              IN FlattenSeq([i \in DOMAIN whole |-> ToolCallEnd(whole[i], calls[whole[i]])])

ReadOpenAi(item) ==
    LET b == item.block  piece == Piece(b, item.piece)
    IN /\ IF item.is = "last"
          THEN /\ sending' = (IF partial.pieces = <<>> THEN <<>> ELSE TextEnd(0, partial.pieces))
                             \o EndedCalls \o Done(<<>>)
               /\ UNCHANGED <<partial, calls>>
          ELSE CASE said[b].kind = "text" ->
                       /\ partial' = [partial EXCEPT !.pieces = Append(@, piece)]
                       /\ sending' = TextDelta(0, piece) /\ UNCHANGED calls
                 [] said[b].kind = "tool" ->
                       /\ calls' = [a \in DOMAIN calls \cup {b} |->
                                      IF a # b THEN calls[a]
                                      ELSE (IF b \in DOMAIN calls THEN calls[b] ELSE <<>>)
                                           \o (IF item.piece = 0 THEN <<>> ELSE <<piece>>)]
                       /\ sending' = <<>> /\ UNCHANGED partial
                 [] said[b].kind = "thought" -> sending' = <<>> /\ UNCHANGED <<partial, calls>>
       /\ UNCHANGED shown

-----------------------------------------------------------------------------
(* GoogleProvider::try_stream_inner: an index per tool call; a call or the  *)
(* finish reason ends the text that is open, with an empty text.            *)

Index == partial.current
EndText == IF shown = -1 THEN <<>> ELSE TextEnd(shown, <<>>)

ReadGoogle(item) ==
    LET b == item.block
    IN CASE item.is = "last" ->
              sending' = EndText /\ shown' = -1 /\ UNCHANGED partial
         [] item.is = "call" ->
              /\ sending' = EndText \o ToolCallEnd(b, Pieces(b)) /\ shown' = -1
              /\ partial' = [partial EXCEPT !.current = @ + 1]
         [] said[b].kind = "text" ->
              /\ sending' = TextDelta(Index, Piece(b, item.piece)) /\ shown' = Index
              /\ UNCHANGED partial
         [] OTHER -> sending' = <<>> /\ UNCHANGED <<shown, partial>>

-----------------------------------------------------------------------------
(* The provider's task.                                                     *)

ReadWire ==
    /\ provider = "reading" /\ sending = <<>> /\ wire # <<>> /\ ~stopped
    /\ wire' = Tail(wire)
    /\ LET item == Head(wire)
       IN /\ CASE family = "anthropic" -> ReadAnthropic(item)
               [] family = "openai"    -> ReadOpenAi(item)
               [] family = "google"    -> ReadGoogle(item) /\ UNCHANGED calls
          /\ provider' = IF item.is = "last" /\ family # "google" THEN "over" ELSE "reading"
    /\ UNCHANGED <<family, said, channel, loop, cut, stopped>>

\* The stream ends.  Google's Done comes now, whatever was read; an end before the last item
\* is no error to any of them.
WireEnds ==
    /\ provider = "reading" /\ sending = <<>> /\ ~stopped
    /\ provider' = "over"
    /\ cut' = (wire # <<>>) /\ wire' = <<>>
    /\ sending' = IF family = "google" THEN Done(<<>>) ELSE <<>>
    /\ UNCHANGED <<family, said, partial, calls, shown, channel, loop, stopped>>

\* A network error, an event that does not parse, or a token cancelled between two events.
WireBreaks ==
    /\ provider = "reading" /\ sending = <<>> /\ (wire # <<>> \/ stopped)
    /\ provider' = "over" /\ cut' = TRUE /\ wire' = <<>>
    /\ sending' = Error
    /\ UNCHANGED <<family, said, partial, calls, shown, channel, loop, stopped>>

\* A send waits for room, and is in vain once nobody listens.
SendEvent ==
    /\ sending # <<>> /\ (Len(channel) < Buffer \/ verdict # "reading")
    /\ sending' = Tail(sending)
    /\ channel' = IF verdict = "reading" THEN Append(channel, Head(sending)) ELSE channel
    /\ UNCHANGED <<family, said, wire, provider, partial, calls, shown, loop, cut, stopped>>

-----------------------------------------------------------------------------
(* call_llm_with_retry's loop over the stream.                              *)

AddText(index, piece) ==
    texts' = [i \in DOMAIN texts \cup {index} |->
                 (IF i \in DOMAIN texts THEN texts[i] ELSE <<>>) \o (IF i = index THEN <<piece>> ELSE <<>>)]

EndTextAt(index, text) ==
    /\ content' = Append(content, Text(IF index \in DOMAIN texts THEN texts[index] ELSE text))
    /\ texts' = [i \in DOMAIN texts \ {index} |-> texts[i]]

Finish_Joins(message) ==
    /\ content' = content \o message
    /\ UNCHANGED texts

\* The provider's content, unless there is none, takes the place of what was assembled.
Finish(message) ==
    /\ content' = IF message = <<>> THEN content ELSE message
    /\ UNCHANGED texts

Assemble ==
    /\ verdict = "reading" /\ channel # <<>>
    /\ channel' = Tail(channel)
    /\ LET event == Head(channel)
       IN IF stopped THEN verdict' = "cancelled" /\ UNCHANGED <<texts, content>>
          ELSE /\ verdict' = IF event.is = "Error" THEN "error" ELSE verdict
               /\ CASE event.is = "TextDelta"   -> AddText(event.index, event.delta) /\ UNCHANGED content
                    [] event.is = "TextEnd"     -> EndTextAt(event.index, event.text)
                    [] event.is = "ToolCallEnd" -> content' = Append(content, Call(event.block, event.args)) /\ UNCHANGED texts
                    [] event.is = "Done"        -> Finish(event.content)
                    [] OTHER                    -> UNCHANGED <<texts, content>>
    /\ UNCHANGED <<family, said, wire, provider, partial, calls, shown, sending, cut, stopped>>

\* The sender is gone: a success, with or without a Done.
StreamEnded ==
    /\ verdict = "reading" /\ provider = "over" /\ sending = <<>> /\ channel = <<>>
    /\ verdict' = "stop"
    /\ UNCHANGED <<family, said, wire, provider, partial, calls, shown, sending, channel, texts, content, cut, stopped>>

CancelStream ==
    /\ ~stopped /\ verdict = "reading"
    /\ stopped' = TRUE
    /\ UNCHANGED <<family, said, wire, provider, partial, calls, shown, sending, channel, loop, cut>>

StreamNext ==
    ReadWire \/ WireEnds \/ WireBreaks \/ SendEvent \/ Assemble \/ StreamEnded \/ CancelStream

StreamSpec == StreamInit /\ [][StreamNext]_streamVars

-----------------------------------------------------------------------------
TextOf(message) == FlattenSeq([i \in DOMAIN message |-> IF message[i].is = "text" THEN message[i].pieces ELSE <<>>])
CallBlocks(message) == SelectSeq(message, LAMBDA c : c.is = "call")
SaidText == FlattenSeq([b \in DOMAIN said |-> IF said[b].kind = "text" THEN Pieces(b) ELSE <<>>])
SaidCalls == CallBlocks([b \in DOMAIN said |-> IF said[b].kind = "tool" THEN Call(b, Pieces(b)) ELSE Thought(b)])
Kinds == {said[b].kind : b \in DOMAIN said}

\* Wherever the stream ends, breaks, waits or is cancelled, each tool call that reaches the
\* transcript has all the arguments the model gave it, and none comes twice.
CallsAreWhole ==
    \A i, j \in DOMAIN CallBlocks(content) :
       LET got == CallBlocks(content)
       IN /\ got[i].pieces = Pieces(got[i].block)
          /\ i # j => got[i].block # got[j].block

\* An answer that came to its end is in the transcript: its text and its tool calls, each in
\* order; from Anthropic's events only if it has text or other blocks, not both.
AnswerKept ==
    /\ verdict = "stop" /\ ~cut /\ (\A b \in DOMAIN said : said[b].args # "none")
    /\ (family = "anthropic" => Kinds = {"text"} \/ "text" \notin Kinds)
    => TextOf(content) = SaidText /\ CallBlocks(content) = SaidCalls

AssemblyFaithful == CallsAreWhole /\ AnswerKept

\* What the comment in the loop says and the code does not keep: the text that was
\* accumulated stays when Done's message does not have it.
TextKept == verdict = "stop" /\ ~cut => TextOf(content) = SaidText

\* What a reader may expect and the code does not keep (README).
\* A call without arguments is a call.
EmptyCallKept == verdict = "stop" /\ ~cut => CallBlocks(content) = SaidCalls
\* An answer that was cut off is not taken for a whole one.
CutIsError == cut => verdict # "stop"
==============================================================================
