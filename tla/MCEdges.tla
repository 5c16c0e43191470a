-------------------------------- MODULE MCEdges -------------------------------
(***************************************************************************)
(* The edges of an agent, each on its own: the MCP client and server, the  *)
(* chain of hooks, and what lies between the loop and a language model:    *)
(* the transformed transcript, the request, its answer's bytes and blocks. *)
(***************************************************************************)
EXTENDS McpClient, McpServer, StreamAssembly, SseFraming, HookChain, MessageTransform, ProviderAccess, ToolHost, ModelRequest

CONSTANT Parts  \* the parts a run looks at

VARIABLE part

all == <<part, mcpClientVars, mcpServerVars, streamVars, sseVars, hookVars, transformVars, accessVars, hostVars, requestVars>>

MCToolkits == {[user |-> {"mine"}, loader |-> TRUE, tool_timeout |-> FALSE]}

T == [kind |-> "text", args |-> "some"]
H == [kind |-> "thought", args |-> "some"]
C == [kind |-> "tool", args |-> "some"]
E == [kind |-> "tool", args |-> "none"]
MCSaid == {<<T>>, <<T, C>>, <<C, T>>, <<H, T>>, <<H, C, C>>, <<E>>, <<T, C, T>>}

MCTexts == UNION {[1..n -> {"x", "lf", "crlf"}] : n \in 1..5} \cup {<<"e", "x", "e", "lf", "lf">>}

MCChains == {<<"guard">>, <<"guard", "memory">>, <<"extension">>, <<"guard", "extension">>,
             <<"extension", "guard", "memory">>}
Path(p) == [absolute |-> TRUE, parts |-> p]
Local(p) == [absolute |-> FALSE, parts |-> p]
Policy(d, a, f, s) == [denied |-> d, allowed |-> a, fields |-> f, scan |-> s, workspace |-> <<"w", "t">>]
MCPolicies == {Policy({"shell"}, {}, [read |-> {"path"}], FALSE), Policy({}, {"read"}, [x \in {} |-> {}], TRUE)}
Wants(t, i, d, c) == [tool |-> t, input |-> i, details |-> d, cost |-> c]
MCToolCalls ==
    {Wants("shell", [x \in {} |-> {}], {}, TRUE),
     Wants("read", [path |-> {Path(<<"w", ".", "t", "u", "..", "f">>), Local(<<"..", "f">>)}], {Local(<<"word">>)}, TRUE),
     Wants("read", [path |-> {Path(<<"w", "t", "..", "u">>)}, note |-> {Path(<<"w", "t", "f">>)}], {}, FALSE),
     Wants("read", [note |-> {Local(<<"word">>), Path(<<"w">>)}], {Path(<<"..", "w", "t", "f">>)}, TRUE)}

MCUserParts == {<<"image", "image", "text", "image">>, <<"video", "audio">>}
MCResultParts == {<<"text">>, <<"image">>}
Model(family_, inputs) == [family |-> family_, inputs |-> inputs]
MCModels == {Model("openai", {"image"}), Model("openai", {"image", "video"}), Model("openai", {}),
             Model("anthropic", {"image"}), Model("google", Media), Model("mistral", {})}

Offer(e, m, b, en, d) == [external |-> e, media |-> m, builtin |-> b, enabled |-> en, disabled |-> d]
MCOffers == {Offer(<<"search", "search", "file_read">>, TRUE, <<"search", "calc">>, TRUE, {"code_execute"}),
             Offer(<<"generate_media">>, TRUE, <<"generate_media", "file_write", "file_write">>, TRUE, {}),
             Offer(<<>>, FALSE, <<"calc">>, FALSE, {})}
Program(d, r, o, e, j) == [does |-> d, request |-> r, out |-> o, exit |-> e, json |-> j]
MCScripts == {Program("reads", 2, 1, 0, "object"), Program("reads", 1, 1, 1, "none"), Program("reads", 1, 4, 0, "object"),
              Program("writes", 2, 2, 0, "object"), Program("writes", 1, 1, 0, "json"),
              Program("ignores", 2, 1, 0, "none"), Program("ignores", 1, 2, 1, "object"),
              Program("hangs", 1, 0, 0, "none"), Program("forks", 1, 1, 0, "object"), Program("missing", 1, 1, 0, "none")}

MCOllamaHosts == {<<>>, <<"h", "">>, <<"h", "v1">>, <<"h", "v1", "chat", "completions">>}
MCKeyRings == {{ProviderRules[p].key : p \in DOMAIN ProviderRules}, {"OPENAI_API_KEY", "OLLAMA_API_KEY"}}
MCNames == {<<"openai", "gpt-5.2">>, <<"openai", "gpt-4o">>, <<"anthropic", "sonnet-4">>, <<"anthropic", "opus-4-7">>,
            <<"deepseek", "v4-pro">>, <<"deepseek", "chat">>, <<"mistral", "large">>, <<"google", "gemini">>, <<"mimo", "next">>,
            <<"openrouter", "anthropic", "sonnet-4">>, <<"openrouter", "auto">>, <<"ollama", "llama">>}
MCThinkers == {<<"openai", "gpt-5.2">>, <<"anthropic", "opus-4-7">>, <<"deepseek", "v4-pro">>, <<"google", "gemini">>}
MCAnything ==
    {<<n, [DefaultOptions EXCEPT !.reasoning = r]>> : n \in MCNames, r \in {"none", "xhigh"}}
    \cup {<<n, [DefaultOptions EXCEPT !.reasoning = r]>> : n \in MCThinkers, r \in Range(Levels)}
    \cup {<<n, Options(r, t, b, "short", "", "own")>> : n \in {<<"anthropic", "sonnet-4">>, <<"openai", "gpt-4o">>},
                                                        r \in {"low", "high"}, t \in {4, 17}, b \in {0, 20, 63}}
    \cup {<<n, Options("none", 4, 0, c, s, "")>> : n \in {<<"openai", "gpt-4o">>, <<"deepseek", "chat">>},
                                                   c \in {"none", "short", "long"}, s \in {"", "session"}}
    \cup {<<n, DefaultOptions>> : n \in {<<"openai">>, <<"openai", "">>, <<"", "x">>, <<"nobody", "x">>, <<"bedrock", "x">>}}

MCAsked == [p |-> MCAnything, q |-> {<<<<"ollama", "llama">>, DefaultOptions>>, <<<<"openai", "gpt-4o">>, DefaultOptions>>}]

\* The client as a failed connection leaves it: no fair step is enabled.
ClientRests ==
    /\ via = "stdio" /\ server = "silent" /\ stage = "failed" /\ next_id = 0 /\ pc = "idle"
    /\ asked = Nothing /\ reply = Nothing /\ link = "down" /\ retry_count = 0 /\ connects = 0
    /\ endpoint = FALSE /\ routes = {} /\ mail = Nothing /\ pending = <<>> /\ pipe = <<>>

EdgesInit ==
    /\ part \in Parts
    /\ IF part = "client" THEN McpClientInit ELSE ClientRests
    /\ McpServerInit /\ (part # "server" => serving = "stdio" /\ ~hangs)
    /\ StreamInit /\ (part # "stream" => family = "google" /\ said = <<T>>)
    /\ SseInit /\ (part # "sse" => decoder = "mcp" /\ text = <<"x">>)
    /\ HookInit /\ (part # "hooks" => chain = <<"guard">> /\ policy.scan)
    /\ TransformInit /\ (part # "transform" => model = Model("mistral", {}))
    /\ AccessInit /\ (part # "access" => spec = "unknown" /\ token = "none" /\ ~env)
    /\ HostInit /\ (part # "tools" => host = "media")
    /\ RequestInit /\ (part # "request" => ollamaHost = <<>> /\ keyRing = {"OPENAI_API_KEY", "OLLAMA_API_KEY"})

EdgesNext ==
    \/ part = "client" /\ McpClientNext /\ UNCHANGED <<part, mcpServerVars, streamVars, sseVars, hookVars, transformVars, accessVars, hostVars, requestVars>>
    \/ part = "server" /\ McpServerNext /\ UNCHANGED <<part, mcpClientVars, streamVars, sseVars, hookVars, transformVars, accessVars, hostVars, requestVars>>
    \/ part = "stream" /\ StreamNext /\ UNCHANGED <<part, mcpClientVars, mcpServerVars, sseVars, hookVars, transformVars, accessVars, hostVars, requestVars>>
    \/ part = "sse" /\ SseNext /\ UNCHANGED <<part, mcpClientVars, mcpServerVars, streamVars, hookVars, transformVars, accessVars, hostVars, requestVars>>
    \/ part = "hooks" /\ HookNext /\ UNCHANGED <<part, mcpClientVars, mcpServerVars, streamVars, sseVars, transformVars, accessVars, hostVars, requestVars>>
    \/ part = "transform" /\ TransformNext /\ UNCHANGED <<part, mcpClientVars, mcpServerVars, streamVars, sseVars, hookVars, accessVars, hostVars, requestVars>>
    \/ part = "access" /\ AccessNext /\ UNCHANGED <<part, mcpClientVars, mcpServerVars, streamVars, sseVars, hookVars, transformVars, hostVars, requestVars>>
    \/ part = "tools" /\ HostNext /\ UNCHANGED <<part, mcpClientVars, mcpServerVars, streamVars, sseVars, hookVars, transformVars, accessVars, requestVars>>
    \/ part = "request" /\ RequestNext /\ UNCHANGED <<part, mcpClientVars, mcpServerVars, streamVars, sseVars, hookVars, transformVars, accessVars, hostVars>>

\* A part that rests has no fair step enabled.
EdgesSpec == EdgesInit /\ [][EdgesNext]_all /\ McpClientFairness /\ McpServerFairness /\ HostFairness

\* What goes to a provider and comes from it: the transcript in its dialect, the endpoint and
\* key, the request; the blocks of its answer whole and in order, its bytes whatever the chunks.
ProviderKept == TransformKept /\ AccessKept /\ RequestKept /\ AssemblyFaithful /\ ChunksDoNotMatter

\* Who calls beyond the process comes back: from an MCP server, from a child.
CallsReturn == RequestReturns /\ SubprocessReturns
==============================================================================
