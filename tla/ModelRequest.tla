------------------------------ MODULE ModelRequest ------------------------------
(***************************************************************************)
(* What is posted, and where, when a model is asked for by its name:       *)
(* ProviderResolver and RouterProvider find the provider, its endpoint and *)
(* its key, get_model finds what is known of the model, and the provider   *)
(* turns the options (reasoning, budgets, cache, session) into the fields  *)
(* of its own API.  The router keeps the providers it has made; the        *)
(* environment may change while it runs.                                   *)
(*                                                                         *)
(* Abstractions: a name and a URL are their segments; tokens are counted   *)
(* in units of 1024; a model is listed or not, and of a kind; messages,    *)
(* tools and temperatures are MessageTransform's or left out; OAuth and    *)
(* retries are ProviderAccess's.                                           *)
(***************************************************************************)
EXTENDS Integers, Sequences, FiniteSets
LOCAL INSTANCE SequencesExt

CONSTANTS Askers,      \* concurrent calls of one RouterProvider
          Asked,       \* what each of them may ask for
          OllamaHosts, \* values of OLLAMA_HOST, <<>> for none
          KeyRings,    \* the environment's API keys
          MaxHosts,    \* bound: changes of OLLAMA_HOST
          TokenWord    \* u32, in units

ASSUME RequestAssumption == MaxHosts \in Nat /\ TokenWord \in Nat /\ TokenWord > 17

VARIABLES ollamaHost, hostsSet, keyRing,
          made,      \* RouterProvider.cache: <<provider, base>> -> the base it posts to
          asks       \* the calls

requestVars == <<ollamaHost, hostsSet, keyRing, made, asks>>

Levels == <<"minimal", "low", "medium", "high", "xhigh">>
LevelAt(level) == CHOOSE i \in 1..5 : Levels[i] = level

\* StreamOptions: what this module needs of it.  0: no budgets of one's own.
Options(reasoning, tokens, budget, retention, session, key) ==
    [reasoning |-> reasoning, tokens |-> tokens, budget |-> budget, retention |-> retention,
     session |-> session, key |-> key]
DefaultOptions == Options("none", 4, 0, "short", "", "")

-----------------------------------------------------------------------------
(* ProviderResolver.                                                        *)

Completions == <<"v1", "chat", "completions">>
ProviderRule(base, key, factory) == [base |-> base, key |-> key, factory |-> factory]
\* Bedrock, which the default features leave out, has a rule all the same.
ProviderRules ==
    [ openai     |-> ProviderRule(<<"api.openai.com">> \o Completions, "OPENAI_API_KEY", "openai"),
      anthropic  |-> ProviderRule(<<"api.anthropic.com", "v1", "messages">>, "ANTHROPIC_API_KEY", "anthropic"),
      google     |-> ProviderRule(<<"googleapis.com", "v1beta", "models">>, "GOOGLE_API_KEY", "google"),
      deepseek   |-> ProviderRule(<<"api.deepseek.com", "chat", "completions">>, "DEEPSEEK_API_KEY", "openai"),
      mistral    |-> ProviderRule(<<"api.mistral.ai">> \o Completions, "MISTRAL_API_KEY", "mistral"),
      openrouter |-> ProviderRule(<<"openrouter.ai", "api">> \o Completions, "OPENROUTER_API_KEY", "openai"),
      ollama     |-> ProviderRule(<<"localhost">> \o Completions, "OLLAMA_API_KEY", "openai"),
      mimo       |-> ProviderRule(<<"api.xiaomimimo.com">> \o Completions, "MIMO_API_KEY", "openai"),
      bedrock    |-> ProviderRule(<<"us-east-1">>, "AWS_REGION", "bedrock") ]

\* build_ollama_base_url: a trailing "" is a trailing slash.
OllamaBase(h) ==
    IF h = <<>> THEN ProviderRules.ollama.base
    ELSE IF IsSuffix(Completions, h) /\ Len(h) > 3 THEN h
    ELSE IF Last(h) = "v1" /\ Len(h) > 1 THEN h \o <<"chat", "completions">>
    ELSE IF Last(h) = "" THEN Front(h) \o Completions
    ELSE h \o Completions

\* resolve: the provider before the first slash, the model behind it.
WellNamed(name) == Len(name) > 1 /\ Head(name) # "" /\ Tail(name) # <<"">>
Resolvable(name) == WellNamed(name) /\ Head(name) \in DOMAIN ProviderRules
BaseOf(name) == IF Head(name) = "ollama" THEN OllamaBase(ollamaHost) ELSE ProviderRules[Head(name)].base

-----------------------------------------------------------------------------
(* What is known of a model.                                                *)

\* The registry, by provider; of OpenRouter and Ollama it lists nothing.
ListedModels == {<<"openai", <<"gpt-5.2">>>>, <<"openai", <<"gpt-4o">>>>, <<"anthropic", <<"sonnet-4">>>>,
                 <<"anthropic", <<"opus-4-7">>>>, <<"deepseek", <<"v4-pro">>>>, <<"deepseek", <<"chat">>>>,
                 <<"mistral", <<"large">>>>, <<"google", <<"gemini">>>>, <<"mimo", <<"v2.5">>>>}
SupportsXhigh(id) == \E part \in Range(id) : part \in {"gpt-5.2", "v4-pro", "opus-4-7"}
IsAdaptive(id) == \E part \in Range(id) : part = "opus-4-7"

\* detect_openai_compat, as far as it is read.
Detected(provider) ==
    [ thinking |-> CASE provider = "deepseek" -> "DeepSeek" [] provider = "openrouter" -> "OpenRouter" [] OTHER -> "OpenAI",
      auth     |-> IF provider = "mimo" THEN "api-key" ELSE "Authorization" ]
CompatOf(provider, id) ==
    IF <<provider, id>> \in ListedModels THEN Detected(provider) ELSE [thinking |-> "OpenAI", auth |-> "Authorization"]

NoMetadata == [id |-> <<>>, provider |-> "", base |-> <<>>]
\* model_metadata: for OpenRouter what is listed of the provider behind it, if there is a second slash.
Metadata(name) ==
    LET id == Tail(name)
        from == IF Head(name) = "openrouter" THEN id ELSE name
    IN IF ~Resolvable(name) \/ Len(from) < 2 THEN NoMetadata
       ELSE IF <<Head(from), Tail(from)>> \in ListedModels
            THEN [id |-> Tail(from), provider |-> Head(from), base |-> ProviderRules[Head(from)].base]
            ELSE [id |-> id, provider |-> Head(name), base |-> BaseOf(name)]

-----------------------------------------------------------------------------
(* How much a model is to think.                                            *)

MinOutput == 1
Budgets == [minimal |-> 1, low |-> 2, medium |-> 8, high |-> 16, xhigh |-> 16]

\* Faulty: what is left for the answer is not looked at.
AdjustMaxTokens_Unsqueezed(base, limit, wanted) ==
    LET total == (base + wanted) % TokenWord
    IN [tokens |-> IF total <= limit THEN total ELSE limit, budget |-> wanted]

\* adjust_max_tokens_for_thinking, in u32.
AdjustMaxTokens(base, limit, wanted) ==
    LET total == (base + wanted) % TokenWord
    IN IF total <= limit THEN [tokens |-> total, budget |-> wanted]
       ELSE IF (wanted + MinOutput) % TokenWord > limit
            THEN [tokens |-> limit, budget |-> IF limit < MinOutput THEN 0 ELSE limit - MinOutput]
            ELSE [tokens |-> limit, budget |-> wanted]

\* build_thinking_config
ThinkingConfig(id, options) ==
    IF options.reasoning = "none" THEN [tokens |-> options.tokens, budget |-> 0, effort |-> "disabled"]
    ELSE IF IsAdaptive(id)
    THEN [tokens |-> options.tokens, budget |-> 0,
          effort |-> IF options.reasoning = "minimal" THEN "low" ELSE options.reasoning]
    ELSE AdjustMaxTokens(options.tokens, IF options.tokens > 16 THEN options.tokens ELSE 16,
                         IF options.budget > 0 THEN options.budget ELSE Budgets[options.reasoning])
         @@ [effort |-> "enabled"]

\* Faulty: no level is taken back.
EffectiveLevel_AsAsked(id, level) == level

\* XHigh, of a model that has no such level, is High.
EffectiveLevel(id, level) == IF level = "xhigh" /\ ~SupportsXhigh(id) THEN "high" ELSE level

\* The thinking of an OpenAI-compatible body: its fields.
CompatibleThinking(provider, id, options) ==
    LET level == EffectiveLevel(id, options.reasoning)
        effort == IF level = "xhigh" THEN "high" ELSE level
    IN CASE options.reasoning = "none" -> {}
         [] CompatOf(provider, id).thinking = "DeepSeek" ->
                {<<"thinking", "enabled">>, <<"reasoning_effort", IF level = "xhigh" THEN "max" ELSE "high">>}
         [] CompatOf(provider, id).thinking = "OpenRouter" -> {<<"reasoning", effort>>}
         [] OTHER -> {<<"reasoning_effort", effort>>}
\* Mistral's.
MistralThinking(options) ==
    CASE options.reasoning = "none" -> {}
      [] options.reasoning \in {"minimal", "low"} -> {<<"promptMode", "reasoning">>, <<"reasoningEffort", "low">>}
      [] options.reasoning = "medium" -> {<<"promptMode", "reasoning">>, <<"reasoningEffort", "medium">>}
      [] OTHER -> {<<"promptMode", "reasoning">>, <<"reasoningEffort", "high">>}

-----------------------------------------------------------------------------
(* The requests.  session: the fields and headers that name the session.    *)

NoRequest == [url |-> <<>>, auth |-> "", key |-> "", thinking |-> {}, tokens |-> 0, budget |-> 0, session |-> {}]

Compatible(provider, id, options) ==
    LET told == provider = "openai" /\ options.retention # "none" /\ options.session # ""
    IN [ auth |-> CompatOf(provider, id).auth, thinking |-> CompatibleThinking(provider, id, options),
         tokens |-> options.tokens, budget |-> 0,
         session |-> IF told THEN {<<"prompt_cache_key", options.session>>, <<"x-client-request-id", options.session>>}
                     ELSE {} ]
Anthropic(id, options) ==
    LET config == ThinkingConfig(id, options)
    IN [ auth |-> "x-api-key", thinking |-> {<<"thinking", config.effort>>},
         tokens |-> config.tokens, budget |-> config.budget, session |-> {} ]
\* Google's has no field for it.
Google(options) == [auth |-> "x-goog-api-key", thinking |-> {}, tokens |-> options.tokens, budget |-> 0, session |-> {}]
Mistral(options) ==
    [auth |-> "Authorization", thinking |-> MistralThinking(options), tokens |-> options.tokens, budget |-> 0, session |-> {}]

RequestBody(provider, id, options) ==
    CASE ProviderRules[provider].factory = "anthropic" -> Anthropic(id, options)
      [] ProviderRules[provider].factory = "google" -> Google(options)
      [] ProviderRules[provider].factory = "mistral" -> Mistral(options)
      [] OTHER -> Compatible(provider, id, options)

\* resolve_api_key: the call's own, then the environment's.
KeyFor(provider, options) ==
    IF options.key # "" THEN options.key
    ELSE IF ProviderRules[provider].key \in keyRing THEN ProviderRules[provider].key ELSE ""

-----------------------------------------------------------------------------

RequestInit ==
    /\ ollamaHost \in OllamaHosts /\ hostsSet = 0 /\ keyRing \in KeyRings
    /\ made = {} /\ asks = [a \in {} |-> NoRequest]

\* The operator sets OLLAMA_HOST (set_var, or a test's).
SetHost(h) ==
    /\ hostsSet < MaxHosts /\ h # ollamaHost
    /\ ollamaHost' = h /\ hostsSet' = hostsSet + 1
    /\ UNCHANGED <<keyRing, made, asks>>

Ask(a, with) == asks' = asks @@ (a :> with)

\* Faulty: the provider that was made for the name is taken, wherever it posts to.
GetOrCreate_ByName(name) ==
    LET known == {p \in made : p.provider = Head(name)}
    IN IF known # {} THEN CHOOSE p \in known : TRUE ELSE [provider |-> Head(name), base |-> BaseOf(name)]

\* get_or_create_provider: by name and base.
GetOrCreate(name) == [provider |-> Head(name), base |-> BaseOf(name)]

\* RouterProvider::stream up to the provider's own stream().
Route(a, name, options) ==
    /\ a \notin DOMAIN asks
    /\ IF ~Resolvable(name) \/ ProviderRules[Head(name)].factory = "bedrock"
       THEN /\ Ask(a, [name |-> name, options |-> options, host |-> ollamaHost, via |-> <<>>, posted |-> NoRequest, at |-> "failed"])
            /\ UNCHANGED made
       ELSE LET provider == GetOrCreate(name)
            IN /\ made' = made \cup {provider}
               /\ Ask(a, [name |-> name, options |-> options, host |-> ollamaHost, via |-> provider.base,
                          posted |-> NoRequest, at |-> "routed"])
    /\ UNCHANGED <<ollamaHost, hostsSet, keyRing>>

\* The provider's stream() and its task: the key, the body, the headers.
PostBody(a) ==
    /\ a \in DOMAIN asks /\ asks[a].at = "routed"
    /\ LET provider == Head(asks[a].name)
           key == KeyFor(provider, asks[a].options)
       IN asks' = [asks EXCEPT ![a].at = IF key = "" THEN "failed" ELSE "posted",
                      ![a].posted = IF key = "" THEN NoRequest
                                    ELSE RequestBody(provider, Tail(asks[a].name), asks[a].options)
                                         @@ [url |-> asks[a].via, key |-> key]]
    /\ UNCHANGED <<ollamaHost, hostsSet, keyRing, made>>

RequestNext ==
    \/ \E h \in OllamaHosts : SetHost(h)
    \/ \E a \in Askers : (\E w \in Asked[a] : Route(a, w[1], w[2])) \/ PostBody(a)

RequestSpec == RequestInit /\ [][RequestNext]_requestVars

-----------------------------------------------------------------------------
(* Properties.                                                              *)

Posted == {a \in DOMAIN asks : asks[a].at = "posted"}

\* A request goes to the endpoint its name stood for when it was asked, whatever providers the
\* router has made before, and Ollama's ends once in its path (but see HostForms).
EndpointIsCurrent ==
    \A a \in Posted :
        LET name == asks[a].name IN
        /\ asks[a].posted.url = IF Head(name) = "ollama" THEN OllamaBase(asks[a].host) ELSE ProviderRules[Head(name)].base
        /\ Head(name) = "ollama" /\ asks[a].host # <<"h", "v1", "">> =>
               Cardinality({i \in DOMAIN asks[a].posted.url : asks[a].posted.url[i] = "v1"}) = 1

\* A provider gets the call's own key or its own, never another one's; and the session is named to
\* OpenAI alone, in the body and in a header or in neither, and not where nothing may be kept.
NothingLeaks ==
    \A a \in Posted :
        LET posted == asks[a].posted
            options == asks[a].options
        IN /\ posted.key \in {options.key, ProviderRules[Head(asks[a].name)].key} \ {""}
           /\ posted.session # {} => Head(asks[a].name) = "openai" /\ options.retention # "none"
           /\ Cardinality(posted.session) \in {0, 2} /\ Cardinality({s[2] : s \in posted.session}) <= 1

Strength == [none |-> 0, disabled |-> 0, minimal |-> 1, low |-> 2, medium |-> 3, high |-> 4, xhigh |-> 5, max |-> 5]
Effort(request) ==
    request.budget + Cardinality(request.thinking)
    + (IF \E f \in request.thinking : f[2] \in DOMAIN Strength
       THEN Strength[(CHOOSE f \in request.thinking : f[2] \in DOMAIN Strength)[2]] ELSE 0)

\* Who asks for more thinking never gets less, no model is asked for more than it has, and what a model
\* may think leaves room for its answer.
ThinkingFits ==
    \A a \in Posted :
        LET posted == asks[a].posted
            options == asks[a].options
            provider == Head(asks[a].name)
            id == Tail(asks[a].name)
        IN /\ options.reasoning # "none" =>
                  \A i \in 1..LevelAt(options.reasoning) :
                      Effort(RequestBody(provider, id, [options EXCEPT !.reasoning = Levels[i]])) <= Effort(posted)
           /\ \A f \in posted.thinking : f[2] \in {"xhigh", "max"} => SupportsXhigh(id)
           /\ options.tokens > 0 /\ options.budget + options.tokens < TokenWord => posted.budget < posted.tokens

\* What is told of a model is told of the one that is asked.
MetadataIsOfModel ==
    \A a \in Posted :
        LET told == Metadata(asks[a].name)
        IN told # NoMetadata => IsSuffix(told.id, asks[a].name) /\ told.id # <<>>

RequestKept == EndpointIsCurrent /\ NothingLeaks /\ ThinkingFits /\ MetadataIsOfModel

(* What documents and comments say and the code does not keep.              *)

\* docs/specs/2026-05-02-llm-client.md:1634: "detected = detect_*_compat(model.provider, ...)", of every
\* model: those that are not listed, all of OpenRouter's among them, are taken for OpenAI's own.
CompatIsDetected ==
    \A a \in Posted :
        LET provider == Head(asks[a].name)
        IN ProviderRules[provider].factory = "openai" =>
               /\ asks[a].posted.auth = Detected(provider).auth
               /\ provider = "openrouter" => \A f \in asks[a].posted.thinking : f[1] = "reasoning"
\* A level that supports_xhigh grants is sent.
XhighIsSent ==
    \A a \in Posted : asks[a].options.reasoning = "xhigh" /\ SupportsXhigh(Tail(asks[a].name)) =>
        \E f \in asks[a].posted.thinking : f[2] \in {"xhigh", "max"}
\* Budgets of one's own are u32 too: base and budget wrap around.
BudgetFitsAlways == \A a \in Posted : asks[a].options.tokens > 0 => asks[a].posted.budget < asks[a].posted.tokens
\* resolver.rs:353: the host in any form.
HostForms ==
    \A a \in Posted : Head(asks[a].name) = "ollama" =>
        Cardinality({i \in DOMAIN asks[a].posted.url : asks[a].posted.url[i] = "v1"}) = 1
\* router.rs:97: a model that is not listed has a fallback.
MetadataIsThere == \A a \in Posted : Metadata(asks[a].name) # NoMetadata
\* router.rs:151: OpenRouter's price, window and endpoint are those of the provider behind it.
MetadataIsOfCall == \A a \in Posted : Metadata(asks[a].name) # NoMetadata => Metadata(asks[a].name).base = asks[a].posted.url
==============================================================================
