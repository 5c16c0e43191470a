------------------------------- MODULE MCHosts -------------------------------
(***************************************************************************)
(* What an agent runs in and is reached through, each part on its own: the *)
(* terminal client and its editor, the files given to a model, the         *)
(* definitions of heroes, teams and workflows, the skills and the prompt,  *)
(* the memory of turns.                                                    *)
(***************************************************************************)
EXTENDS TuiApp, TuiEditor, FileInput, Definitions, TuiKeys, PromptSetup, TurnMemory

CONSTANT Parts  \* the parts a run looks at

VARIABLE part

all == <<part, tuiVars, editorVars, fileVars, defVars, tuiKeyVars, promptVars, memoryVars>>

-----------------------------------------------------------------------------
(* The terminal client and its editor.                                     *)

MCAllHabits == {{}, {"steer"}, {"bash"}, {"interrupt", "restore"}, {"retry"}, {"note"}, {"switch"}}

MCHabits == {{"type", "move", "lines", "undo"}, {"type", "move", "kill"}, {"type", "kill", "undo"},
             {"type", "paste", "lines", "submit", "history"}, {"type", "jump", "move"},
             {"paste", "clear", "undo", "submit"}}
MCSmallPastes == {<<"a", "nl">>, <<"a", "nl", "a">>}
MCLargePastes == {<<"L">>, <<"M">>}

-----------------------------------------------------------------------------
(* Keys.                                                                   *)

Sh(c) == [code |-> c, mods |-> {"shift"}]
Keys(k) == [type |-> "list", keys |-> k]
Pal(t, f) == [text |-> t, found |-> f]

MCKeyboards == {{K("/"), K("q"), K("tab"), K("up"), K("down"), K("enter"), K("backspace"), C("c")},
                {S("p"), K("q"), K("x"), K("down"), K("enter"), K("esc"), K("backspace"), C("u")},
                {C("s"), C("n"), K("d"), K("j"), K("k"), K("enter"), A("enter"), C("x")},
                {C("l"), S("n"), C("p"), K("down"), K("enter"), K("q"), Sh("q"), Sh("enter")}}
MCUser == {[x \in {} |-> Keys({})],
           [AppRestoreQueue |-> Keys({A("u"), C("x")}), AppQuit |-> Keys({C("q")}), EditorSubmit |-> Keys({}),
            unknown |-> Keys({C("c")})],
           [AppListSessions |-> Keys({C("s")}), AppNewSession |-> [type |-> "other", keys |-> {}],
            AppOpenCommandPalette |-> Keys({K("/")})]}
MCModelLists == {<<>>, <<<<"m1">>, <<"m2">>>>}
MCIds == {<<"s1">>, <<"s2">>}
MCSlash == <<[name |-> "quit", starts |-> {<<"q">>}], [name |-> "model", starts |-> {<<"m">>}],
             [name |-> "settings", starts |-> {}]>>
MCPalette == <<Pal(<<"/", "quit">>, {<<"q">>}), Pal(<<"/", "model", " ", "<id>">>, {<<"x">>}),
               Pal(<<"/", "list">>, {<<"q">>}), Pal(<<"/", "auth", " ", "<token>">>, {<<"x">>, <<"x", "x">>}),
               Pal(<<"/", "help">>, {})>>
MCDir == <<[name |-> "qa", starts |-> {<<"q">>}], [name |-> "qb/", starts |-> {<<"q">>}],
           [name |-> "x", starts |-> {<<"x">>}]>>
MCPastes == {<<"x", "nl", "/">>, <<"two bytes", "nl", "/">>, <<"x", " ", "./">>, <<"/", "switch", " ", "s1">>,
             <<"/", "model", " ", "m2">>, <<"/", "delete">>, <<"/", "settings">>}

-----------------------------------------------------------------------------
(* Files.                                                                  *)

Content(m, u, s, w) == [magic |-> m, utf8 |-> u, mib |-> s, width |-> w]
MCHoldings == {Content("png", FALSE, 6, 3), Content("gif", FALSE, 1, 3), Content("pdf", FALSE, 21, 0),
               Content("none", TRUE, 1, 0), Content("none", FALSE, 101, 0)}
Limit(s, t, w, m) == [mib |-> s, types |-> t, width |-> w, mode |-> m]
MCLimits == {Limit(0, {}, 0, "strict"), Limit(5, {"png", "text"}, 2, "strict"), Limit(5, {}, 2, "warn")}

-----------------------------------------------------------------------------
(* Heroes, teams, workflows.                                               *)

Agent(id, b, t, n) == [id |-> id, blank |-> b, temperature |-> t, turns |-> n]
MCAgents == {Agent("a", {}, 7, 2), Agent("a", {}, -1, -1), Agent("b", {}, 21, 1)}

Role(i, a) == [id |-> i, agent |-> a]
Task(i, d) == [id |-> i, deps |-> d]
Team(id, r, m, p, g) == [id |-> id, roles |-> r, missions |-> m, process |-> p, manager |-> g]
One == <<Role("w", "a")>>
Two == <<Role("w", "a"), Role("v", "b")>>
MCTeamChoices ==
    {Team("a", One, <<Task("m", {}), Task("n", {"m"})>>, "sequential", "none"),
     Team("a", Two, <<Task("m", {"n"}), Task("n", {"m"})>>, "sequential", "none"),
     Team("b", Two, <<>>, "hierarchical", "v"),
     Team("b", One, <<Task("m", {"n"})>>, "sequential", "none"),
     Team("b", One, <<>>, "hierarchical", "v"),
     Team("b", <<Role("w", "a"), Role("w", "b")>>, <<>>, "sequential", "none"),
     Team("b", <<Role("w", "blank")>>, <<>>, "sequential", "none"),
     Team("b", <<>>, <<>>, "sequential", "none"),
     Team("b", One, <<Task("m", {}), Task("m", {})>>, "sequential", "none")}

Step(i, d, k) == [id |-> i, deps |-> d, key |-> k, long |-> FALSE]
Flow(s, p, g) == [id |-> "a", steps |-> s, inputs |-> <<"x">>, outputs |-> <<>>, process |-> p, manager |-> g]
MCFlowChoices ==
    {Flow(s, p, g) : s \in {<<>>, <<Step("s", {}, "k"), Step("t", {"s"}, "none"), Step("u", {"t"}, "none")>>,
                            <<Step("s", {"t"}, "none"), Step("t", {"s"}, "none")>>, <<Step("s", {"z"}, "k")>>,
                            <<Step("s", {}, "k"), Step("t", {}, "k")>>, <<Step("s", {}, "k"), Step("s", {}, "none")>>,
                            <<Step("s", {}, "")>>},
                     p \in {"none", "sequential", "hierarchical", "other"}, g \in {"none", "b", "bad id"}}

-----------------------------------------------------------------------------
(* Skills and prompts.                                                     *)

File(s, d, f, n, e, h) == [source |-> s, dir |-> d, file |-> f, name |-> n, description |-> e, hidden |-> h]
MCUserA == File("user", <<"a">>, "SKILL.md", "none", "ok", FALSE)
MCProjectA == File("project", <<"a">>, "SKILL.md", "a", "ok", FALSE)
MCSkillFiles == {MCProjectA, File("user", <<"b">>, "SKILL.md", "a", "ok", FALSE),
                 File("user", <<"a">>, "note.md", "none", "ok", TRUE)}
MCDisks ==
    {{}, {MCUserA, MCProjectA, File("user", <<"a", "b">>, "SKILL.md", "none", "ok", FALSE)},
     {File("user", <<"b">>, "note.md", "b", "ok", TRUE), File("project", <<"c", "a">>, "SKILL.md", "a", "ok", FALSE),
      File("project", <<>>, ".ignore", "c", "ok", FALSE), File("project", <<>>, ".fdignore", "b", "ok", FALSE),
      File("project", <<"b">>, "SKILL.md", "b", "ok", FALSE)},
     {File("user", <<"a">>, "SKILL.md", "a", "long", FALSE), MCProjectA,
      File("project", <<"b">>, "note.md", "Bad", "ok", FALSE), File("project", <<"b", "a">>, "note.md", "a", "ok", TRUE)}}

Added == Fragment("ext", "Extension", "Extension", <<"ext">>, 200)
MCMutations ==
    {NoMutation, [NoMutation EXCEPT !.upserts = <<Added>>], [NoMutation EXCEPT !.replace = "replaced"],
     [NoMutation EXCEPT !.ids = {"ext"}, !.kinds = {"SkillsDirectory"},
                        !.upserts = <<Fragment("base-persona-0", "SafetyGuard", "Extension", <<"guard">>, 100)>>],
     [NoMutation EXCEPT !.builder = <<Added>>]}

-----------------------------------------------------------------------------
(* The memory.                                                             *)

Called(tools) == [role |-> "assistant", calls |-> tools]
Result(t, s) == [role |-> "result", tool |-> t, size |-> s]
MCSessionIds == {<<"1">>, <<"1", "0">>}
MCTurns == {<<Called(<<"search", "calc">>), Result("search", "short"), Result("calc", "long")>>,
            <<Called(<<"search", "calc">>), Result("calc", "short"), Result("search", "short")>>,
            <<Called(<<"search">>), Result("search", "cut in a character")>>}

-----------------------------------------------------------------------------
\* A part that is not chosen rests in one of its initial states; each kind of definitions is
\* looked at on its own.
HostsInit ==
    /\ part \in Parts
    /\ TuiInit /\ (part # "client" => habits = {})
    /\ EditorInit /\ (part # "editor" => habit = {"type", "move", "kill"})
    /\ FileInit /\ (part # "files" => /\ features = {} /\ disk = Content("none", TRUE, 1, 0)
                                      /\ limits = Limit(0, {}, 0, "strict")
                                      /\ source = Source("url", "none", NoBytes, "inside"))
    /\ DefInit /\ (part # "agents" => configFiles = [f \in Files |-> NoFile])
    /\ TuiKeysInit /\ (part # "keys" => S("p") \in keyboard /\ models = <<>> /\ DOMAIN userKeys = {})
    /\ PromptInit /\ (part # "prompt" => skillDisk = {} /\ context = "accumulate")
    /\ MemoryInit /\ (part # "memory" => store = "local")

HostsNext ==
    \/ part = "client" /\ TuiNext /\ UNCHANGED <<part, editorVars, fileVars, defVars, tuiKeyVars, promptVars, memoryVars>>
    \/ part = "editor" /\ EditorNext /\ UNCHANGED <<part, tuiVars, fileVars, defVars, tuiKeyVars, promptVars, memoryVars>>
    \/ part = "files" /\ FileNext /\ UNCHANGED <<part, tuiVars, editorVars, defVars, tuiKeyVars, promptVars, memoryVars>>
    \/ part = "agents" /\ AgentNext /\ UNCHANGED <<part, tuiVars, editorVars, fileVars, tuiKeyVars, promptVars, memoryVars>>
    \/ part = "teams" /\ AddTeam /\ UNCHANGED <<part, tuiVars, editorVars, fileVars, tuiKeyVars, promptVars, memoryVars>>
    \/ part = "flows" /\ LoadFlow /\ UNCHANGED <<part, tuiVars, editorVars, fileVars, tuiKeyVars, promptVars, memoryVars>>
    \/ part = "keys" /\ TuiKeysNext /\ UNCHANGED <<part, tuiVars, editorVars, fileVars, defVars, promptVars, memoryVars>>
    \/ part = "prompt" /\ PromptNext /\ UNCHANGED <<part, tuiVars, editorVars, fileVars, defVars, tuiKeyVars, memoryVars>>
    \/ part = "memory" /\ MemoryNext /\ UNCHANGED <<part, tuiVars, editorVars, fileVars, defVars, tuiKeyVars, promptVars>>

HostsSpec == HostsInit /\ [][HostsNext]_all

\* What is typed (the editor's texts, the keys of overlays and commands) and what a prompt is
\* made of, each in its part.
TypingAndPromptKept == EditorKept /\ [](KeysKept /\ PromptKept)
==============================================================================
