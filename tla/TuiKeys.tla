------------------------------- MODULE TuiKeys ---------------------------------
(***************************************************************************)
(* Where a key of the terminal client goes: to the settings, to the        *)
(* overlay on top, to the first binding it fits, into the text; what an    *)
(* overlay confirms; and the commands about models, sessions and servers,  *)
(* with the requests behind them.                                          *)
(*                                                                         *)
(* Abstractions: a text is a sequence of tokens, each a character or a     *)
(* word, written with the cursor at its end: where it is moved or cut is   *)
(* TuiEditor's.  A turn and the commands about messages are TuiApp's.      *)
(***************************************************************************)
EXTENDS Naturals, Sequences, FiniteSets, TLC
LOCAL INSTANCE SequencesExt
LOCAL INSTANCE FiniteSetsExt
LOCAL INSTANCE Functions

CONSTANTS Keyboards,     \* sets of keys a user presses: [code, mods]
          Chars,         \* codes that are characters
          UserBindings,  \* the keys tables of configuration files: binding |-> [type, keys]
          ModelLists,    \* ui.models
          KnownIds,      \* sessions there may be
          SlashNames,    \* the commands that are proposed
          Palette,       \* [text, found] of the palette: the letters that find it
          DirEntries,    \* what a directory holds: [name, starts]
          MaxListed,     \* eight suggestions
          Pastes,        \* what is pasted
          MaxDraft, MaxPresses, MaxFailed

VARIABLES keyboard, userKeys, models,
          life,          \* "on", "quit", "panicked"
          inTurn,        \* Busy
          settings,      \* show_settings
          overlays,      \* [kind, items, filter, selected]
          draft,         \* the editor's text
          waiting,       \* input_queue
          known,         \* the sessions: id |-> model shown
          current,       \* active_session
          server, authToken,
          tasks,         \* requests on their way: [op, of, model, n]
          results,       \* task_rx
          serverModels,     \* the sessions at the server: id |-> model
          overlapped,    \* two changes of a model were under way at once
          pressed, failed

bindingVars == <<keyboard, userKeys, models>>
textVars == <<draft, waiting, inTurn>>
viewVars == <<known, current, server, authToken>>
farVars == <<tasks, results, serverModels, overlapped, failed>>
tuiKeyVars == <<bindingVars, life, settings, overlays, textVars, viewVars, farVars, pressed>>

-----------------------------------------------------------------------------
(* keybindings.rs and the order of handle_key_event.                         *)

K(code) == [code |-> code, mods |-> {}]
C(code) == [code |-> code, mods |-> {"ctrl"}]
A(code) == [code |-> code, mods |-> {"alt"}]
S(code) == [code |-> code, mods |-> {"ctrl", "shift"}]

\* The bindings in the order in which a key is compared with them, with their default keys.
Chain ==
    <<<<"AppQuit", {C("c"), C("d")}>>, <<"AppInterrupt", {K("esc")}>>, <<"AppToggleToolCalls", {C("o")}>>,
      <<"AppToggleThinking", {C("t")}>>, <<"AppSelectModel", {C("l")}>>, <<"AppListSessions", {C("s")}>>,
      <<"AppNewSession", {C("n")}>>, <<"EditorSubmit", {K("enter"), A("enter")}>>,
      <<"EditorNewLine", {[code |-> "enter", mods |-> {"shift"}]}>>, <<"EditorCursorUp", {K("up")}>>,
      <<"EditorCursorDown", {K("down")}>>, <<"EditorCharJump", {C("]")}>>,
      <<"EditorCursorLeft", {K("left"), C("b")}>>, <<"EditorCursorRight", {K("right"), C("f")}>>,
      <<"EditorCursorWordLeft", {A("left"), C("left"), A("b")}>>,
      <<"EditorCursorWordRight", {A("right"), C("right"), A("f")}>>,
      <<"EditorCursorLineStart", {K("home"), C("a")}>>, <<"EditorCursorLineEnd", {K("end"), C("e")}>>,
      <<"EditorPageUp", {K("pageup")}>>, <<"EditorPageDown", {K("pagedown")}>>,
      <<"EditorDeleteCharBackward", {K("backspace")}>>, <<"EditorDeleteCharForward", {K("delete"), C("d")}>>,
      <<"EditorDeleteWordBackward", {C("w"), A("backspace")}>>, <<"EditorDeleteWordForward", {A("d"), A("delete")}>>,
      <<"EditorDeleteToLineStart", {C("u")}>>, <<"EditorDeleteToLineEnd", {C("k")}>>,
      <<"EditorYank", {C("y")}>>, <<"EditorYankPop", {A("y")}>>, <<"EditorUndo", {C("-")}>>, <<"EditorRedo", {S("-")}>>,
      <<"AutocompleteTrigger", {K("tab")}>>, <<"AppOpenCommandPalette", {S("p")}>>, <<"AppExternalEditor", {C("x")}>>,
      <<"AppRestoreQueue", {C("u")}>>, <<"AppCycleModelForward", {S("n")}>>, <<"AppCycleModelBackward", {C("p")}>>>>
Places == 1..Len(Chain)
Name(n) == Chain[n][1]

\* load_user_config: what has no known name, or no keys, is passed over; a table that is loaded
\* takes the place of the one before.
LoadUserConfig(table) == [b \in {x \in DOMAIN table : (\E n \in Places : Name(n) = x) /\ table[x].type # "other"} |-> table[b].keys]

\* Faulty: the default keys stay.
BindingKeys_Adds(n) == Chain[n][2] \cup (IF Name(n) \in DOMAIN userKeys THEN userKeys[Name(n)] ELSE {})

\* The user's keys of a binding replace its default ones.
BindingKeys(n) == IF Name(n) \in DOMAIN userKeys THEN userKeys[Name(n)] ELSE Chain[n][2]

IsChar(k) == k.code \in Chars

\* The first binding that has the key; two of them have no meaning while a turn runs.
Acting(k) ==
    LET fits == {n \in Places : k \in BindingKeys(n) /\ (Name(n) \in {"AppQuit", "AppNewSession"} => ~inTurn)}
    IN IF fits # {} THEN Name(Min(fits))
       ELSE IF IsChar(k) /\ k.mods \subseteq {"shift"} THEN "character" ELSE "none"

-----------------------------------------------------------------------------
(* The overlays.                                                             *)

Overlay(kind, items) == [kind |-> kind, items |-> items, filter |-> <<>>, selected |-> 1]
Capturing(o) == o.kind \notin {"suggestions", "help"}

\* Those that the filter finds.
Filtered(filter) == SelectSeq(Palette, LAMBDA p : filter = <<>> \/ filter \in p.found)
Texts(items) == [n \in DOMAIN items |-> items[n].text]
OpenPalette == Overlay("palette", Texts(Filtered(<<>>)))
SessionList == Overlay("sessions", SetToSeq(DOMAIN known))
ModelSelector == Overlay("models", models)

Pending == [is |-> "pending", text |-> <<>>]
Dismissed == [is |-> "dismissed", text |-> <<>>]
Picked(o, before) ==
    IF o.selected \in DOMAIN o.items THEN [is |-> "confirmed", text |-> before \o o.items[o.selected]] ELSE Pending

MoveUp(o) == IF o.selected > 1 THEN [o EXCEPT !.selected = @ - 1] ELSE o
MoveDown(o) == IF o.selected < Len(o.items) THEN [o EXCEPT !.selected = @ + 1] ELSE o

\* Faulty: the selection stays where it was.
Refilter_KeepsSelected(o, filter) == [o EXCEPT !.filter = filter, !.items = Texts(Filtered(filter))]

Refilter(o, filter) == [o EXCEPT !.filter = filter, !.items = Texts(Filtered(filter)), !.selected = 1]

\* handle_input and take_result: the overlay and what it says.
HandleInput(o, k) ==
    LET up == k.code = "up" \/ (k.code = "k" /\ o.kind \in {"models", "sessions"})
        down == k.code = "down" \/ (k.code = "j" /\ o.kind \in {"models", "sessions"})
    IN CASE o.kind = "help" -> <<o, Dismissed>>
         [] o.kind = "palette" /\ IsChar(k) -> <<Refilter(o, Append(o.filter, k.code)), Pending>>
         [] o.kind = "palette" /\ k.code = "backspace" -> <<Refilter(o, IF o.filter = <<>> THEN <<>> ELSE Front(o.filter)), Pending>>
         [] up /\ o.kind # "help" -> <<MoveUp(o), Pending>>
         [] down /\ o.kind # "help" -> <<MoveDown(o), Pending>>
         [] k.code = "enter" /\ o.kind # "help" -> <<o, Picked(o, <<>>)>>
         [] k.code = "esc" -> <<o, Dismissed>>
         [] k.code \in {"delete", "d"} /\ o.kind = "sessions" -> <<o, Picked(o, <<"delete:">>)>>
         [] OTHER -> <<o, IF o.kind = "suggestions" THEN Dismissed ELSE Pending>>

-----------------------------------------------------------------------------
(* command.rs: what a text commands.                                         *)

Blanks == {" ", "nl"}
TrimText(v) == LET at == {n \in DOMAIN v : v[n] \notin Blanks} IN IF at = {} THEN <<>> ELSE SubSeq(v, Min(at), Max(at))
WithArgument == {"switch", "connect", "auth", "rename", "import", "system", "skill"}
Plainly == {"q", "quit", "new", "list", "model", "clear", "help", "tokens", "retry", "copy", "dump", "compact", "tree",
            "fork", "settings", "export", "delete"}
NoCommand == [name |-> "none", arg |-> <<>>]

Parse(v) ==
    LET t == TrimText(v)
        arg == TrimText(SubSeq(t, 4, Len(t)))
    IN IF Len(t) < 2 \/ t[1] # "/" \/ (Len(t) > 2 /\ t[3] \notin Blanks) THEN NoCommand
       ELSE IF t[2] \in Plainly \/ (t[2] \in WithArgument /\ arg # <<>>) THEN [name |-> t[2], arg |-> arg] ELSE NoCommand

Requested(op, of, model) == [op |-> op, of |-> of, model |-> model, n |-> pressed]

\* A task of its own asks the server to change the model; what is shown changes at once.
UpdateModel(model) ==
    /\ tasks' = tasks \cup {Requested("update", current, model)}
    /\ known' = [known EXCEPT ![current] = model]
    /\ overlapped' = (overlapped \/ \E t \in tasks : t.op = "update")
    /\ UNCHANGED <<current, server, authToken, results, serverModels, failed>>

Ask(op, of) == tasks' = tasks \cup {Requested(op, of, <<>>)} /\ UNCHANGED <<results, serverModels, overlapped, failed>>

\* handle_overlay_confirm of an overlay's answer, or of a text that begins with "/"; below are the
\* overlays that are left.  All it does not name here is for the messages of the session.
Confirm(v, below) ==
    LET command == Parse(v)
        name == command.name
        opened == CASE name = "help" -> <<Overlay("help", <<>>)>> [] name = "list" -> <<SessionList>>
                    [] name = "model" /\ command.arg = <<>> -> <<ModelSelector>> [] OTHER -> <<>>
        deletes == v # <<>> /\ v[1] = "delete:"
    IN /\ overlays' = below \o opened
       /\ life' = IF name \in {"q", "quit"} THEN "quit" ELSE life
       /\ settings' = IF name = "settings" THEN ~settings ELSE settings
       /\ \/ deletes /\ Ask("delete", Tail(v)) /\ UNCHANGED viewVars
          \/ name = "delete" /\ Ask("delete", current) /\ UNCHANGED viewVars
          \/ name = "new" /\ Ask("create", <<>>) /\ UNCHANGED viewVars
          \/ name = "connect" /\ server' = command.arg /\ Ask("test", <<>>) /\ UNCHANGED <<known, current, authToken>>
          \/ name = "auth" /\ authToken' = command.arg /\ Ask("test", <<>>) /\ UNCHANGED <<known, current, server>>
          \/ name = "model" /\ command.arg # <<>> /\ UpdateModel(command.arg)
          \/ ~deletes /\ command = NoCommand /\ v \in Range(models) /\ UpdateModel(v)
          \/ /\ name = "switch" /\ command.arg \in DOMAIN known
             /\ current' = command.arg /\ Ask("fetch", command.arg) /\ UNCHANGED <<known, server, authToken>>
          \/ /\ ~deletes /\ name \notin {"delete", "new", "connect", "auth"} /\ (name = "model" => command.arg = <<>>)
             /\ (name = "switch" => command.arg \notin DOMAIN known) /\ (command = NoCommand => v \notin Range(models))
             /\ UNCHANGED <<viewVars, farVars>>

-----------------------------------------------------------------------------
(* autocomplete.rs.                                                          *)

\* What is behind the last of these.
AfterLast(v, ends) == LET at == {n \in DOMAIN v : v[n] \in ends} IN SubSeq(v, (IF at = {} THEN 0 ELSE Max(at)) + 1, Len(v))
CurrentLine == AfterLast(draft, {"nl"})
LastWord == AfterLast(draft, {" "})

\* All the text before the cursor is its prefix, but for its first byte, which may be part of a character.
SlashTriggers == CurrentLine # <<>> /\ Head(CurrentLine) = "/"
SlashSuggestions ==
    LET prefix == Tail(draft)
        names == SelectSeq(SlashNames, LAMBDA c : prefix = <<>> \/ prefix = <<c.name>> \/ prefix \in c.starts)
    IN [n \in DOMAIN names |-> <<"/", names[n].name>>]

FileTriggers == draft # <<>> /\ (Last(draft) = "/" \/ (LastWord # <<>> /\ Head(LastWord) \in {"/", "./", "../", "~/"}))

\* parse_path_prefix, fd_suggestions, fallback_suggestions: some of what begins like the last word,
\* in the order of fd or of the names, and nothing where there is no such directory.
PathPrefix == AfterLast(LastWord, {"/", "./", "../", "~/"})
FileLists ==
    LET hits == SelectSeq(DirEntries, LAMBDA f : PathPrefix = <<>> \/ PathPrefix \in f.starts)
        listed == SubSeq(hits, 1, IF Len(hits) > MaxListed THEN MaxListed ELSE Len(hits))
    IN {<<>>, [n \in DOMAIN listed |-> <<listed[n].name>>]}
       \cup {[n \in 1..Len(listed) |-> <<hits[order[n]].name>>] : order \in {p \in [1..Len(listed) -> DOMAIN hits] : IsInjective(p)}}

-----------------------------------------------------------------------------
(* handle_key_event.                                                         *)

Pressed(k) == life = "on" /\ k \in keyboard /\ pressed < MaxPresses /\ pressed' = pressed + 1 /\ UNCHANGED bindingVars

\* The settings keep every key but two to themselves.
KeyToSettings(k) ==
    /\ Pressed(k) /\ settings
    /\ settings' = (k.code \notin {"esc", "/"})
    /\ UNCHANGED <<life, overlays, textVars, viewVars, farVars>>

\* An overlay that captures takes each key, the others those that are no characters.
KeyToOverlay(k) ==
    /\ Pressed(k) /\ ~settings /\ overlays # <<>> /\ (Capturing(Last(overlays)) \/ ~IsChar(k))
    /\ LET answer == HandleInput(Last(overlays), k)
       IN CASE answer[2].is = "confirmed" -> Confirm(answer[2].text, Front(overlays)) /\ UNCHANGED textVars
            [] answer[2].is = "dismissed" -> overlays' = Front(overlays) /\ UNCHANGED <<life, settings, textVars, viewVars, farVars>>
            [] OTHER -> /\ overlays' = Append(Front(overlays), answer[1])
                        /\ UNCHANGED <<life, settings, textVars, viewVars, farVars>>

\* Everything else; a character dismisses the overlay on its way.
KeyThrough(k) == Pressed(k) /\ ~settings /\ (overlays # <<>> => ~Capturing(Last(overlays)) /\ IsChar(k))
Closed == IF overlays = <<>> THEN <<>> ELSE Front(overlays)
Opens(o) == overlays' = Append(Closed, o) /\ UNCHANGED <<life, settings, textVars, viewVars, farVars>>

AppKey(k, b) ==
    /\ KeyThrough(k)
    /\ \/ b = "AppQuit" /\ life' = "quit" /\ overlays' = Closed /\ UNCHANGED <<settings, textVars, viewVars, farVars>>
       \/ /\ b = "AppInterrupt" /\ overlays' = Closed
          /\ inTurn' = FALSE /\ draft' = IF inTurn THEN draft ELSE <<>>
          /\ UNCHANGED <<life, settings, waiting, viewVars, farVars>>
       \/ b = "AppSelectModel" /\ Opens(ModelSelector)
       \/ b = "AppListSessions" /\ Opens(SessionList)
       \/ b = "AppOpenCommandPalette" /\ Opens(OpenPalette)
       \/ b = "AppNewSession" /\ Ask("create", <<>>) /\ overlays' = Closed /\ UNCHANGED <<life, settings, textVars, viewVars>>

\* cycle_model: a model that is not in the list counts as its first; without a list the client is gone.
CycleModel(k, b) ==
    LET at == {n \in DOMAIN models : models[n] = known[current]}
        pos == IF at = {} THEN 1 ELSE Min(at)
        next == IF b = "AppCycleModelForward" THEN (pos % Len(models)) + 1 ELSE IF pos = 1 THEN Len(models) ELSE pos - 1
    IN /\ KeyThrough(k) /\ b \in {"AppCycleModelForward", "AppCycleModelBackward"}
       /\ overlays' = Closed
       /\ IF models = <<>> THEN life' = "panicked" /\ UNCHANGED <<viewVars, farVars>> ELSE life' = life /\ UpdateModel(models[next])
       /\ UNCHANGED <<settings, textVars>>

\* submit_input: a command, or a message that is sent or waits.
SubmitKey(k, b) ==
    /\ KeyThrough(k) /\ b = "EditorSubmit"
    /\ draft' = <<>>
    /\ IF TrimText(draft) # <<>> /\ Head(draft) = "/"
       THEN Confirm(draft, Closed) /\ UNCHANGED <<waiting, inTurn>>
       ELSE /\ overlays' = Closed
            /\ inTurn' = (inTurn \/ TrimText(draft) # <<>>)
            /\ waiting' = IF inTurn /\ TrimText(draft) # <<>> /\ "alt" \notin k.mods THEN Append(waiting, draft) ELSE waiting
            /\ UNCHANGED <<life, settings, viewVars, farVars>>

\* Tab: the first provider that triggers proposes what it has; without one a tab is written.
TriggerKey(k, b) ==
    /\ KeyThrough(k) /\ b = "AutocompleteTrigger"
    /\ LET Propose(list) == overlays' = IF list = <<>> THEN Closed ELSE Append(Closed, Overlay("suggestions", list))
       IN \/ /\ SlashTriggers /\ Head(draft) = "two bytes"
             /\ life' = "panicked" /\ UNCHANGED <<overlays, draft>>
          \/ SlashTriggers /\ Head(draft) # "two bytes" /\ Propose(SlashSuggestions) /\ UNCHANGED <<life, draft>>
          \/ ~SlashTriggers /\ FileTriggers /\ (\E list \in FileLists : Propose(list)) /\ UNCHANGED <<life, draft>>
          \/ /\ ~SlashTriggers /\ ~FileTriggers /\ Len(draft) < MaxDraft
             /\ draft' = Append(draft, " ") /\ overlays' = Closed /\ life' = life
    /\ UNCHANGED <<settings, waiting, inTurn, viewVars, farVars>>

\* The text: a character, a line, the last character, what waits, what another editor leaves.
TextKey(k, b) ==
    /\ KeyThrough(k) /\ overlays' = Closed
    /\ \/ b \in {"character", "EditorNewLine"} /\ Len(draft) < MaxDraft
          /\ draft' = Append(draft, IF b = "character" THEN k.code ELSE "nl") /\ UNCHANGED waiting
       \/ b = "EditorDeleteCharBackward" /\ draft' = (IF draft = <<>> THEN <<>> ELSE Front(draft)) /\ UNCHANGED waiting
       \/ /\ b = "AppRestoreQueue"
          /\ IF waiting = <<>> THEN UNCHANGED <<draft, waiting>> ELSE draft' = Last(waiting) /\ waiting' = Front(waiting)
       \/ b = "AppExternalEditor" /\ draft' \in {draft, <<>>, <<"x">>} /\ UNCHANGED waiting
       \/ b \in {"none", "EditorDeleteToLineStart"} /\ draft' = (IF b = "none" THEN draft ELSE <<>>) /\ UNCHANGED waiting
    /\ UNCHANGED <<life, settings, inTurn, viewVars, farVars>>

\* handle_paste, whatever is open.
Paste(words) ==
    /\ life = "on" /\ Len(draft) + Len(words) <= MaxDraft /\ pressed < MaxPresses /\ pressed' = pressed + 1
    /\ draft' = draft \o words
    /\ UNCHANGED <<bindingVars, life, settings, overlays, waiting, inTurn, viewVars, farVars>>

TurnIsOver ==
    /\ inTurn /\ life = "on" /\ inTurn' = FALSE
    /\ UNCHANGED <<bindingVars, life, settings, overlays, draft, waiting, viewVars, farVars, pressed>>

-----------------------------------------------------------------------------
(* The tasks and what they report.                                           *)

Reports(is, of, model) == results' = Append(results, [is |-> is, of |-> of, model |-> model])

\* The server answers with the session as it then is; a failure is only logged.
TaskEnds(t) ==
    /\ life = "on" /\ t \in tasks /\ tasks' = tasks \ {t}
    /\ \/ /\ t.op = "update" /\ t.of \in DOMAIN serverModels /\ failed' = failed
          /\ serverModels' = [serverModels EXCEPT ![t.of] = t.model] /\ Reports("fetched", t.of, t.model)
       \/ /\ t.op = "fetch" /\ t.of \in DOMAIN serverModels /\ failed' = failed
          /\ Reports("fetched", t.of, serverModels[t.of]) /\ UNCHANGED serverModels
       \/ /\ t.op = "create" /\ failed' = failed
          /\ \E s \in KnownIds \ DOMAIN serverModels :
                serverModels' = (s :> <<"default">>) @@ serverModels /\ Reports("created", s, <<"default">>)
       \/ /\ t.op = "delete" /\ t.of \in DOMAIN serverModels /\ failed' = failed
          /\ serverModels' = [s \in DOMAIN serverModels \ {t.of} |-> serverModels[s]] /\ Reports("deleted", t.of, <<>>)
       \/ /\ t.op = "test" /\ UNCHANGED <<results, serverModels, failed>>
       \/ failed < MaxFailed /\ failed' = failed + 1 /\ UNCHANGED <<results, serverModels>>
    /\ UNCHANGED <<bindingVars, life, settings, overlays, textVars, viewVars, overlapped, pressed>>

\* handle_task_action.  Without a session the client is gone when it draws.
ResultArrives ==
    /\ life = "on" /\ results # <<>> /\ results' = Tail(results)
    /\ LET r == Head(results)
       IN \/ r.is = "created" /\ known' = (r.of :> r.model) @@ known /\ current' = r.of
          \/ /\ r.is = "fetched" /\ current' = current
             /\ known' = IF r.of \in DOMAIN known THEN [known EXCEPT ![r.of] = r.model] ELSE known
          \/ /\ r.is = "deleted" /\ known' = [s \in DOMAIN known \ {r.of} |-> known[s]]
             /\ current' \in IF current # r.of THEN {current} ELSE IF DOMAIN known' = {} THEN {<<>>} ELSE DOMAIN known'
    /\ life' = IF DOMAIN known' = {} THEN "panicked" ELSE "on"
    /\ UNCHANGED <<bindingVars, settings, overlays, textVars, server, authToken, tasks, serverModels, overlapped, pressed, failed>>

TuiKeysInit ==
    /\ keyboard \in Keyboards /\ models \in ModelLists /\ \E table \in UserBindings : userKeys = LoadUserConfig(table)
    /\ life = "on" /\ inTurn = FALSE /\ settings = FALSE /\ overlays = <<>>
    /\ draft = <<>> /\ waiting = <<>>
    /\ current = (CHOOSE s \in KnownIds : TRUE) /\ known = (current :> <<"default">>) /\ serverModels = known
    /\ server = <<"home">> /\ authToken = <<"mine">>
    /\ tasks = {} /\ results = <<>> /\ overlapped = FALSE /\ pressed = 0 /\ failed = 0

TuiKeysNext ==
    \/ \E k \in keyboard : KeyToSettings(k) \/ KeyToOverlay(k)
    \/ \E k \in keyboard : \E b \in {Acting(k)} :
           AppKey(k, b) \/ CycleModel(k, b) \/ SubmitKey(k, b) \/ TriggerKey(k, b) \/ TextKey(k, b)
    \/ \E words \in Pastes : Paste(words)
    \/ TurnIsOver \/ ResultArrives
    \/ \E t \in tasks : TaskEnds(t)

TuiKeysSpec == TuiKeysInit /\ [][TuiKeysNext]_tuiKeyVars

-----------------------------------------------------------------------------
(* Properties.                                                               *)

\* Whatever is opened out of what, overlays do not pile up, and Enter always has something to
\* pick where there is anything, however the filter changed.
OneOverlay ==
    /\ Len(overlays) <= 1
    /\ \A n \in DOMAIN overlays : overlays[n].items # <<>> => overlays[n].selected \in DOMAIN overlays[n].items

\* A key the user gave to one binding alone does what that binding is for, and a default key
\* the user took from a binding does not do it any more.
UserKeysWork ==
    \A n \in Places : Name(n) \in DOMAIN userKeys =>
        /\ \A k \in userKeys[Name(n)] :
              (\A m \in Places \ {n} : k \notin BindingKeys(m)) /\ (Name(n) \in {"AppQuit", "AppNewSession"} => ~inTurn)
              => Acting(k) = Name(n)
        /\ \A k \in Chain[n][2] \ userKeys[Name(n)] : Acting(k) # Name(n)

\* When all requests are answered, none failed and no two changes of a model were under way at once,
\* the client shows the sessions of the server with the models they have there.
ModelsAgree ==
    tasks = {} /\ results = <<>> /\ ~overlapped /\ failed = 0 =>
        \A s \in DOMAIN known : s \in DOMAIN serverModels /\ known[s] = serverModels[s]

KeysKept == OneOverlay /\ UserKeysWork /\ ModelsAgree

-----------------------------------------------------------------------------
(* What the documents say and the code does not do; no run checks these.     *)

\* docs/specs/2026-05-02-tui-design.md:281: Enter in the list of sessions switches to the one selected.
\* Its id is no command and nothing happens.
EnterSwitches ==
    [][\A k \in keyboard : k.code = "enter" /\ KeyToOverlay(k) /\ Last(overlays).kind = "sessions"
            => current' = Last(overlays).items[Last(overlays).selected]]_tuiKeyVars

\* tui/README.md:32: the palette opens in any state.
PaletteOpens == [][\A k \in keyboard : k = S("p") /\ Pressed(k) => overlays' # <<>> /\ Last(overlays').kind = "palette"]_tuiKeyVars

\* keybindings.rs: each binding can be reached with its default keys.  Ctrl+U is taken already.
EveryBindingActs == \A n \in Places : BindingKeys(n) # {} => inTurn \/ \E k \in BindingKeys(n) : Acting(k) = Name(n)

\* overlays/autocomplete.rs:99: a key that dismisses the suggestions continues to the editor.
KeyContinues ==
    [][\A k \in keyboard : k.code = "backspace" /\ overlays # <<>> /\ Last(overlays).kind = "suggestions" /\ Pressed(k)
            => draft' # draft]_tuiKeyVars

\* Neither a text nor a configuration stops the client.
NoPanic == life # "panicked"

\* What the palette lists as "/auth <token>" asks for a token.
TokenIsMine == authToken # <<"<token>">>
================================================================================
