----------------------------- MODULE PromptSetup ------------------------------
(***************************************************************************)
(* Skills and the system prompt: the scan of the skill directories while   *)
(* others write to them, the builder of fragments a session keeps, and     *)
(* what a run makes of it for its requests.                                *)
(*                                                                         *)
(* Abstractions: a text is a sequence of lines; a path is the names of the *)
(* directories below the root; a frontmatter that is missing or no YAML,   *)
(* or a file that cannot be read, is a description "broken".               *)
(***************************************************************************)
EXTENDS Naturals, Sequences, SequencesExt, FiniteSets, TLC

CONSTANTS SkillFiles,   \* what the roots may hold: [source, dir, file, name, description, hidden]
          Disks,        \* sets of these, to begin with
          ValidNames,   \* names of lower case, digits and single hyphens
          Prompts, Contexts, Mutations, MaxWrites, MaxRuns

VARIABLES skillDisk,
          frames,       \* scan_dir's calls: [source, dir, left]
          skills,       \* [file, source, name, hidden]
          builder,      \* prompt_builder, a sequence of fragments
          base_persona,
          context,      \* ContextStrategy
          ask,          \* the prompt last asked for, at creation or by an update
          lastSent,         \* of the last request: [prompt, by, mutation, ask]
          writes, runs

promptVars == <<skillDisk, frames, skills, builder, base_persona, context, ask, lastSent, writes, runs>>

-----------------------------------------------------------------------------
(* scanner.rs.                                                               *)

Parent(f) == IF f.dir = <<>> THEN "skills" ELSE Last(f.dir)
In(disk, source, dir) == {f \in disk : f.source = source /\ f.dir = dir}
SubDirs(disk, source, dir) ==
    {f.dir[Len(dir) + 1] : f \in {g \in disk : g.source = source /\ Len(g.dir) > Len(dir) /\ IsPrefix(dir, g.dir)}}
IsMd(f) == f.file \in {"SKILL.md", "note.md"}

\* read_ignore_patterns takes the first of the three files there is.
Ignored(files) ==
    LET Of(name) == {f.name : f \in {g \in files : g.file = name}}
    IN IF Of(".gitignore") # {} THEN Of(".gitignore") ELSE IF Of(".ignore") # {} THEN Of(".ignore") ELSE Of(".fdignore")

\* SKILL.md ends the descent; names with a dot in front are skipped.
Listing(disk, source, dir) ==
    LET files == In(disk, source, dir)
    IN IF \E f \in files : f.file = "SKILL.md" THEN {"SKILL.md"}
       ELSE {n \in {f.file : f \in files} \cup SubDirs(disk, source, dir) :
                n \notin Ignored(files) \cup {".gitignore", ".ignore", ".fdignore", ".git"}}

NameOf(f) == IF f.name = "none" THEN Parent(f) ELSE f.name
Loads(f) == f.description = "ok" /\ NameOf(f) = Parent(f) /\ NameOf(f) \in ValidNames

\* Faulty: a collision replaces what was loaded before.
LoadSkill_LastWins(f) ==
    IF Loads(f)
    THEN SelectSeq(skills, LAMBDA s : s.name # NameOf(f)) \o <<[file |-> f, name |-> NameOf(f), hidden |-> f.hidden]>>
    ELSE skills

\* What was loaded under a name stays.
LoadSkill(f) ==
    IF Loads(f) /\ \A n \in DOMAIN skills : skills[n].name # NameOf(f)
    THEN Append(skills, [file |-> f, name |-> NameOf(f), hidden |-> f.hidden])
    ELSE skills

Frame(source, dir) == [source |-> source, dir |-> dir, left |-> Listing(skillDisk, source, dir)]

\* The next entry of the innermost directory, in whatever order the system lists them.
ScanEntry ==
    /\ frames # <<>> /\ Head(frames).left # {}
    /\ \E n \in Head(frames).left :
          LET top == Head(frames)
              rest == <<[top EXCEPT !.left = @ \ {n}]>> \o Tail(frames)
              files == {f \in In(skillDisk, top.source, top.dir) : f.file = n /\ IsMd(f)}
          IN IF files # {} THEN \E f \in files : skills' = LoadSkill(f) /\ frames' = rest
             ELSE /\ skills' = skills
                  /\ frames' = IF n \in SubDirs(skillDisk, top.source, top.dir)
                               THEN <<Frame(top.source, Append(top.dir, n))>> \o rest ELSE rest
    /\ UNCHANGED <<skillDisk, builder, base_persona, context, ask, lastSent, writes, runs>>

\* Somebody writes or removes a file.
WriteFile ==
    /\ writes < MaxWrites /\ writes' = writes + 1
    /\ \/ \E f \in SkillFiles : skillDisk' = {g \in skillDisk : g.source # f.source \/ g.dir # f.dir \/ g.file # f.file} \cup {f}
       \/ \E f \in skillDisk : skillDisk' = skillDisk \ {f}
    /\ UNCHANGED <<frames, skills, builder, base_persona, context, ask, lastSent, runs>>

-----------------------------------------------------------------------------
(* prompt/builder.rs, prompt/mutation.rs, skills/injector.rs.                *)

Fragment(id, kind, source, lines, priority) ==
    [id |-> id, kind |-> kind, source |-> source, lines |-> lines, priority |-> priority]
FromBase(p) == <<Fragment("base-persona-0", "BasePersona", "SessionParam", <<p>>, 0)>>

\* A stable sort over the priorities that are in use.
SortByPriority(fs) ==
    FlattenSeq([n \in 1..5 |-> SelectSeq(fs, LAMBDA f : f.priority = <<0, 50, 100, 150, 200>>[n])])

UpsertFragment(fs, f) ==
    SortByPriority(IF \E n \in DOMAIN fs : fs[n].id = f.id
                   THEN [n \in DOMAIN fs |-> IF fs[n].id = f.id THEN f ELSE fs[n]] ELSE Append(fs, f))

ApplyMutation(fs, m) ==
    IF m.replace # "none" THEN FromBase(m.replace)
    ELSE FoldLeft(UpsertFragment,
                  SelectSeq(fs, LAMBDA f : f.id \notin m.ids /\ f.source \notin m.sources /\ f.kind \notin m.kinds),
                  m.upserts)

Render(fs) == FlattenSeq([n \in DOMAIN fs |-> fs[n].lines])

\* Each fragment that is not blank, with its place in the text.
RenderWithMetadata(fs) ==
    LET Add(r, f) == IF f.lines = <<>> THEN r
                     ELSE [text |-> r.text \o f.lines,
                           fragments |-> Append(r.fragments, [id |-> f.id, offset |-> Len(r.text), len |-> Len(f.lines)])]
    IN FoldLeft(Add, [text |-> <<>>, fragments |-> <<>>], fs)

Visible == SelectSeq(skills, LAMBDA s : ~s.hidden)
FormatSkills == IF Visible = <<>> THEN <<>> ELSE <<"skills">> \o [n \in DOMAIN Visible |-> Visible[n].name]
SkillsDirectory == Fragment("skills-directory", "SkillsDirectory", "SkillsInjector", FormatSkills, 50)

\* inject_skills_into_builder does nothing without visible skills; new and set_system_prompt
\* put an empty fragment there when all are hidden.
InjectSkills(fs) == IF FormatSkills = <<>> THEN fs ELSE UpsertFragment(fs, SkillsDirectory)
WithSkills(fs) == IF skills = <<>> THEN fs ELSE UpsertFragment(fs, SkillsDirectory)

-----------------------------------------------------------------------------
(* The session.                                                              *)

NoMutation == [replace |-> "none", ids |-> {}, sources |-> {}, kinds |-> {}, upserts |-> <<>>, builder |-> <<>>]

\* SessionActor::new, once the user's and then the tenant's directory are scanned.
CreateSession ==
    /\ Len(frames) = 1 /\ Head(frames).source = "project" /\ Head(frames).left = {}
    /\ builder' = WithSkills(FromBase(base_persona))
    /\ frames' = <<>>
    /\ UNCHANGED <<skillDisk, skills, base_persona, context, ask, lastSent, writes, runs>>

\* The directory is done: its caller goes on, or the tenant's root begins.
EndDir ==
    /\ frames # <<>> /\ Head(frames).left = {}
    /\ \/ Len(frames) > 1 /\ frames' = Tail(frames)
       \/ Len(frames) = 1 /\ Head(frames).source = "user" /\ frames' = <<Frame("project", <<>>)>>
    /\ UNCHANGED <<skillDisk, skills, builder, base_persona, context, ask, lastSent, writes, runs>>

\* set_system_prompt; base_persona is left as it is.
SetSystemPrompt(p) ==
    /\ builder # <<>> /\ p # ask /\ runs < MaxRuns /\ runs' = runs + 1
    /\ ask' = p /\ builder' = WithSkills(FromBase(p))
    /\ UNCHANGED <<skillDisk, frames, skills, base_persona, context, lastSent, writes>>

\* apply_context_strategy_before_run: Compact only when there are enough entries.
Strategized(fs, long) ==
    CASE context = "clear" -> InjectSkills(FromBase(base_persona))
      [] context = "compact" /\ long ->
            UpsertFragment(fs, Fragment("strategy-compaction", "RuntimeInjection", "System", <<"summary">>, 150))
      [] OTHER -> fs

\* A hook's mutation, then its builder, if it gives one.
Mutated(fs, m) == IF m.builder # <<>> THEN InjectSkills(m.builder) ELSE ApplyMutation(fs, m)

RunPrompt_Leaks(m, k, long) ==
    /\ builder # <<>> /\ runs < MaxRuns /\ runs' = runs + 1
    /\ builder' = Mutated(Strategized(builder, long), m)
    /\ lastSent' = [prompt |-> Render(Mutated(builder', k)), by |-> "run", mutation |-> {m, k} \ {NoMutation}, ask |-> ask]
    /\ UNCHANGED <<skillDisk, frames, skills, base_persona, context, ask, writes>>

\* A run works on a copy: on_before_agent_start's mutation, then on_before_provider_request's.
RunPrompt(m, k, long) ==
    /\ builder # <<>> /\ runs < MaxRuns /\ runs' = runs + 1
    /\ builder' = Strategized(builder, long)
    /\ lastSent' = [prompt |-> Render(Mutated(Mutated(builder', m), k)), by |-> "run", mutation |-> {m, k} \ {NoMutation}, ask |-> ask]
    /\ UNCHANGED <<skillDisk, frames, skills, base_persona, context, ask, writes>>

\* run_loop_iteration: without Clear the builder of an iteration is empty.
LoopIteration ==
    /\ builder # <<>> /\ runs < MaxRuns /\ runs' = runs + 1
    /\ lastSent' = [prompt |-> Render(IF context = "clear" THEN InjectSkills(FromBase(base_persona)) ELSE <<>>),
                by |-> "loop", mutation |-> {}, ask |-> ask]
    /\ UNCHANGED <<skillDisk, frames, skills, builder, base_persona, context, ask, writes>>

\* "/skill:name": the file is read now; without it the prompt is lost, with it a run begins.
InvokeSkill(name) ==
    /\ builder # <<>> /\ runs < MaxRuns
    /\ \E n \in DOMAIN skills : skills[n].name = name
          /\ LET f == skills[n].file
             IN \E g \in skillDisk : g.source = f.source /\ g.dir = f.dir /\ g.file = f.file
    /\ RunPrompt(NoMutation, NoMutation, FALSE)

PromptInit ==
    /\ skillDisk \in Disks /\ context \in Contexts /\ base_persona = (CHOOSE p \in Prompts : TRUE) /\ ask = base_persona
    /\ skills = <<>> /\ frames = <<Frame("user", <<>>)>>
    /\ builder = <<>> /\ lastSent = [prompt |-> <<>>, by |-> "none", mutation |-> {}, ask |-> ask]
    /\ writes = 0 /\ runs = 0

PromptNext ==
    \/ ScanEntry \/ EndDir \/ WriteFile \/ CreateSession \/ LoopIteration
    \/ \E p \in Prompts : SetSystemPrompt(p)
    \/ \E m, k \in Mutations, long \in (IF context = "compact" THEN BOOLEAN ELSE {FALSE}) : RunPrompt(m, k, long)
    \/ \E name \in ValidNames : InvokeSkill(name)

PromptSpec == PromptInit /\ [][PromptNext]_promptVars

-----------------------------------------------------------------------------
(* Properties.                                                               *)

\* What a scan is to find, of the disk as a whole.
Reachable(f) ==
    LET Above(k) == In(skillDisk, f.source, SubSeq(f.dir, 1, k))
        Skill(k) == \E g \in Above(k) : g.file = "SKILL.md"
    IN /\ IsMd(f)
       /\ f.file = "SKILL.md" \/ (~Skill(Len(f.dir)) /\ f.file \notin Ignored(Above(Len(f.dir))))
       /\ \A k \in 0..(Len(f.dir) - 1) : ~Skill(k) /\ f.dir[k + 1] \notin Ignored(Above(k)) \cup {".git"}
Offers(name, source) == \E f \in skillDisk : f.source = source /\ Reachable(f) /\ Loads(f) /\ NameOf(f) = name

\* In whatever order directories are listed and files are written meanwhile: no name twice;
\* with nothing written, all the names there are, the user's before the tenant's.
ScanIsRight ==
    /\ \A n, m \in DOMAIN skills : skills[n].name = skills[m].name => n = m
    /\ builder # <<>> /\ writes = 0 =>
          \A name \in ValidNames :
              LET loaded == {n \in DOMAIN skills : skills[n].name = name}
              IN /\ loaded # {} <=> Offers(name, "user") \/ Offers(name, "project")
                 /\ \A n \in loaded : skills[n].file.source = "user" <=> Offers(name, "user")

\* However runs, updates and strategies follow each other: one fragment of an id, in the order of
\* their priorities, and the metadata tells where in the text each of them is.
FragmentsInOrder ==
    LET r == RenderWithMetadata(builder)
    IN /\ \A n, m \in DOMAIN builder : n < m => builder[n].id # builder[m].id /\ builder[n].priority <= builder[m].priority
       /\ r.text = Render(builder)
       /\ \A n \in DOMAIN r.fragments : \E k \in DOMAIN builder :
              /\ builder[k].id = r.fragments[n].id
              /\ SubSeq(r.text, r.fragments[n].offset + 1, r.fragments[n].offset + r.fragments[n].len) = builder[k].lines

\* A request whose run has no hook that changes it says the prompt in force and then what skills
\* there are, and at most a summary: nothing of what hooks made of earlier runs.
RequestsTellPrompt ==
    lastSent.by = "run" /\ lastSent.mutation = {} =>
        LET said == <<IF context = "clear" THEN base_persona ELSE lastSent.ask>> \o FormatSkills
        IN lastSent.prompt \in {said, said \o <<"summary">>}

PromptKept == ScanIsRight /\ FragmentsInOrder /\ RequestsTellPrompt

-----------------------------------------------------------------------------
(* What the code says of itself and does not do; no run checks these.        *)

\* docs/specs/2026-05-02-api-gateway.md:287: an updated prompt is that of later turns.  With Clear
\* the first comes back.
LatestPromptIsSent == lastSent.by = "run" /\ lastSent.mutation = {} => Head(lastSent.prompt) = lastSent.ask

\* session/mod.rs: an iteration of the background loop has the session's prompt.
LoopHasPrompt == lastSent.by = "loop" => lastSent.prompt # <<>>
==============================================================================
