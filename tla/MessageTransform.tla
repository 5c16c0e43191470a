---------------------------- MODULE MessageTransform ---------------------------
(***************************************************************************)
(* What a model is told of a transcript: transform_messages, which fits it *)
(* to what the model's metadata says of it, and the messages each family   *)
(* of providers builds of the result.  A session may change its model      *)
(* between two requests.                                                   *)
(*                                                                         *)
(* Abstractions: a part of a message is its kind; an id is its call and    *)
(* how long it is; a hash stands for the id it is made of.                 *)
(***************************************************************************)
EXTENDS Integers, Sequences
LOCAL INSTANCE SequencesExt

CONSTANTS UserParts,      \* sequences of "text", "image", "video", "audio"
          ResultParts,    \* the same, for tool results
          Lengths,        \* "short" (up to 36 bytes), "middle" (up to 64), "long"
          Models,         \* [family, inputs]; family: "openai", "anthropic", "google", "mistral"
          MaxTranscript   \* bound: messages of the transcript

VARIABLES transcript,  \* [role, parts, calls, id]
          model,
          sent         \* the last request, and the model it was for

transformVars == <<transcript, model, sent>>

Id(call, length) == [call |-> call, length |-> length, hashed |-> FALSE]
NoCall == Id(0, "short")
UserMessage(parts) == [role |-> "user", parts |-> parts, calls |-> <<>>, id |-> NoCall]
Assistant(parts, calls) == [role |-> "assistant", parts |-> parts, calls |-> calls, id |-> NoCall]
ToolResult(parts, id) == [role |-> "tool", parts |-> parts, calls |-> <<>>, id |-> id]
Media == {"image", "video", "audio"}

TransformInit ==
    /\ transcript = <<>> /\ model \in Models
    /\ sent = [messages |-> <<>>, to |-> model, of |-> <<>>]

-----------------------------------------------------------------------------
(* transform_messages.  A placeholder is written as the kind it stands for. *)

Omitted(kind) == "(" \o kind \o ")"

DowngradeImages(parts) ==
    FlattenSeq([i \in DOMAIN parts |->
                   CASE parts[i] # "image" -> <<parts[i]>>
                     [] i > 1 /\ parts[i - 1] = "image" -> <<>>
                     [] OTHER -> <<Omitted("image")>>])

\* downgrade_video_audio.
DowngradeVideoAudio(parts, inputs) ==
    [i \in DOMAIN parts |-> IF parts[i] \in {"video", "audio"} \ inputs THEN Omitted(parts[i]) ELSE parts[i]]

\* downgrade_tool_result_media: the lines of one text.
DowngradeResult(parts) == [i \in DOMAIN parts |-> IF parts[i] \in Media THEN Omitted(parts[i]) ELSE parts[i]]

\* normalize_id, and Mistral's truncate_tool_call_id, whose hashes have at most 29 bytes.
Hashed(id) == [id EXCEPT !.length = "short", !.hashed = TRUE]
NormalizeId(id) == IF id.length = "long" THEN Hashed(id) ELSE id
TruncateId(id) == IF id.length = "short" THEN id ELSE Hashed(id)

\* normalize_tool_call_ids: a result follows its call's id, if the call is there.
NormalizeResultId_Forgotten(id, messages) == id

NormalizeResultId(id, messages) ==
    IF \E m \in Range(messages) : id \in Range(m.calls) THEN NormalizeId(id) ELSE id

TransformOne(m, messages, inputs) ==
    LET seen == DowngradeVideoAudio(IF "image" \in inputs THEN m.parts ELSE DowngradeImages(m.parts), inputs)
    IN CASE m.role = "user" -> UserMessage(seen)
         [] m.role = "tool" -> ToolResult(DowngradeResult(seen), NormalizeResultId(m.id, messages))
         [] m.role = "assistant" -> Assistant(SelectSeq(m.parts, LAMBDA part : part # "thinking"),
                                              [i \in DOMAIN m.calls |-> NormalizeId(m.calls[i])])

Transform(messages, inputs) == [i \in DOMAIN messages |-> TransformOne(messages[i], messages, inputs)]

-----------------------------------------------------------------------------
(* The messages of a request.  A kind of content a family has no form for   *)
(* becomes an empty text.                                                   *)

Speaks == [openai |-> Media, mistral |-> Media, anthropic |-> {"image"}, google |-> {}]
WireParts(parts, family) ==
    [i \in DOMAIN parts |-> IF parts[i] \in Media \ Speaks[family] THEN "" ELSE parts[i]]

\* Google's function calls and responses have names and no ids.
WireId(id, family) == CASE family = "mistral" -> TruncateId(id)
                        [] family = "google"  -> NoCall
                        [] OTHER -> id

WireMessage(m, family) ==
    CASE m.role = "user" -> UserMessage(WireParts(m.parts, family))
      [] m.role = "tool" -> ToolResult(m.parts, WireId(m.id, family))
      [] m.role = "assistant" -> Assistant(m.parts, [i \in DOMAIN m.calls |-> WireId(m.calls[i], family)])

WireMessages(messages, family) == [i \in DOMAIN messages |-> WireMessage(messages[i], family)]

-----------------------------------------------------------------------------
(* The transcript grows, and is sent as often as the model has to answer.   *)

LastRole == IF transcript = <<>> THEN "none" ELSE Last(transcript).role
CallsOpen == LastRole = "assistant" /\ Last(transcript).calls # <<>>

UserSays ==
    /\ Len(transcript) < MaxTranscript
    /\ LastRole # "user" /\ ~CallsOpen
    /\ \E parts \in UserParts : transcript' = Append(transcript, UserMessage(parts))
    /\ UNCHANGED <<model, sent>>

\* run_turn: a request and its answer, which may ask for two calls.
Used == {m.id.call : m \in Range(transcript)} \cup UNION {{id.call : id \in Range(m.calls)} : m \in Range(transcript)}
NextCall == CHOOSE n \in {2 * k - 1 : k \in 1..MaxTranscript} : {n, n + 1} \cap Used = {}

SendRequest ==
    /\ LastRole \in {"user", "tool"}
    /\ sent' = [messages |-> WireMessages(Transform(transcript, model.inputs), model.family), to |-> model, of |-> transcript]
    /\ \/ transcript' = Append(transcript, Assistant(<<"thinking", "text">>, <<>>))
       \/ \E length \in Lengths :
             /\ Len(transcript) + 2 < MaxTranscript
             /\ transcript' = Append(transcript, Assistant(<<"thinking">>, <<Id(NextCall, length), Id(NextCall + 1, "short")>>))
    /\ UNCHANGED model

\* The results of a message's calls are appended together.
ToolsAnswer ==
    /\ CallsOpen
    /\ \E parts \in ResultParts :
          transcript' = transcript \o [i \in DOMAIN Last(transcript).calls |-> ToolResult(parts, Last(transcript).calls[i])]
    /\ UNCHANGED <<model, sent>>

\* A compaction or a context strategy takes the oldest messages away.
Cut ==
    /\ ~CallsOpen
    /\ \E n \in 2..Len(transcript) : transcript' = SubSeq(transcript, n, Len(transcript))
    /\ UNCHANGED <<model, sent>>

\* update_session, between two runs.
SwitchModel ==
    /\ LastRole = "assistant" /\ ~CallsOpen
    /\ model' \in Models \ {model}
    /\ UNCHANGED <<transcript, sent>>

TransformNext == UserSays \/ SendRequest \/ ToolsAnswer \/ Cut \/ SwitchModel

TransformSpec == TransformInit /\ [][TransformNext]_transformVars

-----------------------------------------------------------------------------
(* Properties.                                                              *)

Calls(messages) == UNION {Range(m.calls) : m \in Range(messages)}

\* Wherever a session's ids come from and whomever they are sent to: a result whose call
\* is in the transcript carries the very id its call has in the request.
IdsStayPaired ==
    sent.to.family # "google" =>
        \A i \in DOMAIN sent.of : sent.of[i].role = "tool" /\ sent.of[i].id \in Calls(sent.of) =>
            \E id \in Calls(sent.messages) : id = sent.messages[i].id /\ id.call = sent.of[i].id.call

\* Nothing a user says disappears: each part reaches the model as itself or as a
\* placeholder that says what is missing.
Reaches(i, part) == part \in Range(sent.messages[i].parts) \/ Omitted(part) \in Range(sent.messages[i].parts)
Texts(parts) == SelectSeq(parts, LAMBDA part : part = "text")
UserIsHeard ==
    sent.to.family # "google" =>
        \A i \in DOMAIN sent.of : sent.of[i].role = "user" =>
            /\ \A part \in Range(sent.of[i].parts) : Reaches(i, part)
            /\ Texts(sent.messages[i].parts) = Texts(sent.of[i].parts)

TransformKept == IdsStayPaired /\ UserIsHeard

(* What the metadata promise and the code does not keep.                    *)

\* models_data.rs:615-620: Gemini takes images, video and audio; so nothing is replaced by
\* a placeholder, and google.rs writes an empty text.
MediaIsHeard ==
    \A i \in DOMAIN sent.of : sent.of[i].role = "user" =>
        \A part \in Range(sent.of[i].parts) : Reaches(i, part)
==============================================================================
