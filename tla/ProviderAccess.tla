----------------------------- MODULE ProviderAccess ----------------------------
(***************************************************************************)
(* One call of a language model from the loop to the wire and back:        *)
(* RouterProvider resolves the model's name to an endpoint, the provider   *)
(* finds a key and starts a task, the task's ProviderRequest posts and     *)
(* posts again, and call_llm_with_retry above it tries the whole of it     *)
(* again when the text of an error says so.                                *)
(*                                                                         *)
(* Abstractions: an answer that is read to its end is StreamAssembly's; an *)
(* error is its class and whether its text holds one of the loop's words.  *)
(***************************************************************************)
EXTENDS Integers, Sequences

CONSTANTS Specs,      \* providers asked for: "openai", "google", "ollama", "unknown"
          MaxRetries  \* options.max_retries

ASSUME AccessAssumption == MaxRetries \in Nat

VARIABLES spec,        \* the provider part of "provider/model"
          token,       \* OAuth: "none", "fresh", "expired", as load_token gives it
          env,         \* whether the environment has a key
          caller,      \* the loop: "calling", "listening", "pausing", "returned"
          task,        \* the provider's task: "none", "posting", "waiting", "reading", "over"
          retries,     \* of the loop
          attempt,     \* of send
          body,        \* how often on_payload was applied to what was posted last
          posts,       \* the requests made, by their outcome
          told,        \* the task's last event: "none", or an error
          refreshes,   \* refreshes of the OAuth token
          outcome,     \* what the loop returns: "none", "answer", "error", "cancelled"
          aborted      \* the cancellation token

accessVars == <<spec, token, env, caller, task, retries, attempt, body, posts, told, refreshes, outcome, aborted>>
accessInputs == <<spec, token, env>>

Outcome(class, says) == [class |-> class, says |-> says]
NoError == Outcome("none", FALSE)

AccessInit ==
    /\ spec \in Specs /\ token \in {"none", "fresh", "expired"} /\ env \in BOOLEAN
    /\ caller = "calling" /\ task = "none" /\ retries = 0 /\ attempt = 0
    /\ body = 0 /\ posts = <<>> /\ told = NoError /\ refreshes = 0
    /\ outcome = "none" /\ aborted = FALSE

-----------------------------------------------------------------------------
(* ProviderResolver and the providers: where a request goes.                *)

Rules == {"openai", "google", "ollama"}
DefaultBase == [openai |-> <<"host", "v1", "chat", "completions">>,
                google |-> <<"host", "v1beta", "models">>,
                ollama |-> <<"localhost", "v1", "chat", "completions">>]
\* Google adds its path to the base, the others post to it.
Url(p) == DefaultBase[p] \o (IF p = "google" THEN <<"models", "model:streamGenerateContent">> ELSE <<>>)

-----------------------------------------------------------------------------
(* Errors.                                                                  *)

\* What a post may come to.  A status outside the others is a ProviderError; one whose body
\* says nothing is told as "HTTP 500 ...".  A provider may put any word in its message.
Failures == {Outcome("rate limited", TRUE), Outcome("overloaded", TRUE), Outcome("timed out", FALSE),
             Outcome("network", FALSE)}
            \cup [class : {"refused", "invalid", "provider"}, says : BOOLEAN]
Accepted == Outcome("accepted", FALSE)

\* LlmError::is_retryable: 429, 502 to 504, a time limit, the network.
IsRetryable_Provider(error) == error.class \notin {"invalid", "provider"}

IsRetryable(error) == error.class \in {"rate limited", "overloaded", "timed out", "network"}

-----------------------------------------------------------------------------
(* The loop.                                                                *)

ReturnCall(with) == outcome' = with /\ caller' = "returned"

\* The key: OAuth's token, refreshed when it has expired and never saved, or the environment's.
\* Without a key, or with a name nobody knows, stream() is an error that is not retried.
HasKey(refreshed) == token = "fresh" \/ (token = "expired" /\ refreshed) \/ env

StartStream ==
    /\ caller = "calling" /\ ~aborted
    /\ \E refreshed \in BOOLEAN :
          /\ refreshes' = IF spec \in Rules /\ token = "expired" /\ refreshed THEN refreshes + 1 ELSE refreshes
          /\ IF spec \in Rules /\ HasKey(refreshed)
             THEN /\ caller' = "listening" /\ task' = "posting" /\ attempt' = 0 /\ told' = NoError
                  /\ UNCHANGED outcome
             ELSE ReturnCall("error") /\ UNCHANGED <<task, attempt, told>>
    /\ UNCHANGED <<accessInputs, retries, body, posts, aborted>>

SeesCancel ==
    /\ caller = "calling" /\ aborted
    /\ ReturnCall("cancelled")
    /\ UNCHANGED <<accessInputs, task, retries, attempt, body, posts, told, refreshes, aborted>>

-----------------------------------------------------------------------------
(* ProviderRequest::send in the provider's task.  It knows no token.        *)

\* try_send_once: on_payload changes a copy of the body.
PostOnce ==
    /\ task = "posting"
    /\ body' = 1
    /\ \E got \in Failures \cup {Accepted} :
          /\ posts' = Append(posts, got)
          /\ IF got = Accepted THEN task' = "reading" /\ UNCHANGED told
             ELSE IF attempt < MaxRetries /\ IsRetryable(got) THEN task' = "waiting" /\ UNCHANGED told
             ELSE task' = "over" /\ told' = got
    /\ UNCHANGED <<accessInputs, caller, retries, attempt, refreshes, outcome, aborted>>

\* 1, 2, 4 seconds.
Backoff ==
    /\ task = "waiting"
    /\ task' = "posting" /\ attempt' = attempt + 1
    /\ UNCHANGED <<accessInputs, caller, retries, body, posts, told, refreshes, outcome, aborted>>

\* The stream is read to its end, breaks, carries an error of the provider, or is cancelled.
ReadStream ==
    /\ task = "reading"
    /\ task' = "over"
    /\ told' \in {NoError} \cup [class : {"network", "protocol"}, says : BOOLEAN]
    /\ UNCHANGED <<accessInputs, caller, retries, attempt, body, posts, refreshes, outcome, aborted>>

-----------------------------------------------------------------------------
(* The loop again.                                                          *)

\* An event comes and the token is cancelled: the task is left to itself.
StopListening ==
    /\ caller = "listening" /\ aborted /\ task \in {"reading", "over"}
    /\ ReturnCall("cancelled")
    /\ UNCHANGED <<accessInputs, task, retries, attempt, body, posts, told, refreshes, aborted>>

\* The stream is over.  After an error that is not retried, too, the caller gets a message.
Answered ==
    /\ caller = "listening" /\ task = "over" /\ ~aborted
    /\ IF told.says /\ retries < MaxRetries
       THEN caller' = "pausing" /\ retries' = retries + 1 /\ UNCHANGED outcome
       ELSE ReturnCall(IF told = NoError THEN "answer" ELSE "error") /\ UNCHANGED retries
    /\ UNCHANGED <<accessInputs, task, attempt, body, posts, told, refreshes, aborted>>

\* 100, 200, 400 milliseconds.
Pause ==
    /\ caller = "pausing"
    /\ caller' = "calling"
    /\ UNCHANGED <<accessInputs, task, retries, attempt, body, posts, told, refreshes, outcome, aborted>>

Abort ==
    /\ ~aborted /\ caller # "returned"
    /\ aborted' = TRUE
    /\ UNCHANGED <<accessInputs, caller, task, retries, attempt, body, posts, told, refreshes, outcome>>

AccessNext == StartStream \/ SeesCancel \/ PostOnce \/ Backoff \/ ReadStream \/ StopListening \/ Answered \/ Pause \/ Abort

AccessSpec == AccessInit /\ [][AccessNext]_accessVars

-----------------------------------------------------------------------------
(* Properties.                                                              *)

\* What was refused is not asked again by either level, unless the refusal's words look
\* like a failure that passes.
RefusalsAreFinal ==
    \A i \in DOMAIN posts : posts[i].class \in {"refused", "invalid"} /\ ~posts[i].says => i = Len(posts)

\* However the levels fail, the number of requests for one call is bounded, and each of
\* them carries the change of the payload hook once.
AttemptsBounded == Len(posts) <= (MaxRetries + 1) * (MaxRetries + 1)
PayloadOnce == posts # <<>> => body = 1

\* A message that is no error is an answer the provider gave: the last request was accepted.
AnswersAreAnswers == outcome = "answer" => posts # <<>> /\ posts[Len(posts)] = Accepted

AccessKept == RefusalsAreFinal /\ AttemptsBounded /\ PayloadOnce /\ AnswersAreAnswers

(* What documents say and the code does not keep.                           *)

\* docs/specs/2026-05-02-llm-client.md:927: ".../v1beta/models/{model}:streamGenerateContent".
EndpointIsDocumented ==
    posts # <<>> => Url(spec) = (IF spec = "google" THEN <<"host", "v1beta", "models", "model:streamGenerateContent">>
                                 ELSE DefaultBase[spec])

\* request.rs:70: "max retries = `self.options.max_retries`": the loop retries all of it as often.
AttemptsWithinMax == Len(posts) <= MaxRetries + 1

\* A call that is cancelled is not tried again: send waits and posts without looking, and the
\* loop waits for its events.
AbortStopsRetries == [][aborted /\ task' = "posting" => task = "posting"]_accessVars

\* oauth.rs: "Persist a token for later reuse."
RefreshOnce == refreshes <= 1

\* What is retryable by its type is so by its text.
ClassesAgree == told # NoError /\ IsRetryable(told) => told.says
==============================================================================
