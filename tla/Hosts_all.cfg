SPECIFICATION HostsSpec
CONSTANTS
  Parts = {"client", "editor", "files", "agents", "teams", "flows", "keys", "prompt", "memory"}
  AllHabits <- MCAllHabits
  Tabs = {"s1", "s2"}
  MaxHistory = 4
  MaxTurns = 2
  Pieces = 1
  MaxInputs = 2
  MaxCommands = 1
  MaxEvents = 1
  MaxMishaps = 1
  Habits <- MCHabits
  SmallPastes <- MCSmallPastes
  LargePastes <- MCLargePastes
  MaxUndo = 3
  MaxRing = 2
  MaxKeys = 5
  Names = {"txt", "png", "gif", "mp3", "none", "svg"}
  Holdings <- MCHoldings
  Limits <- MCLimits
  Features = {{}, {"url-source", "image-meta"}}
  TargetWidth = 2
  Callers = {"p", "q"}
  Files = {"f", "g"}
  Agents <- MCAgents
  TeamChoices <- MCTeamChoices
  FlowChoices <- MCFlowChoices
  ValidIds = {"a", "b"}
  MaxAgentTurns = 2
  MaxSteps = 3
  MaxTasks = 2
  MaxFields = 1
  MaxEdits = 1
  MaxCalls = 3
  SkillFiles <- MCSkillFiles
  Disks <- MCDisks
  ValidNames = {"a", "b"}
  Prompts = {"p", "q"}
  Contexts = {"accumulate", "compact", "clear"}
  Mutations <- MCMutations
  MaxWrites = 1
  MaxRuns = 3
  Stores = {"local", "emerald"}
  Tenants = {"t", "u"}
  SessionIds <- MCSessionIds
  Turns <- MCTurns
  TopK = 1
  MaxTurnsKept = 2
  MaxRecalls = 1
  Keyboards <- MCKeyboards
  Chars = {"/", "q", "x", "d", "j", "k", "p", "c", "u", "s", "n", "l", "w"}
  UserBindings <- MCUser
  ModelLists <- MCModelLists
  KnownIds <- MCIds
  SlashNames <- MCSlash
  Palette <- MCPalette
  DirEntries <- MCDir
  Pastes <- MCPastes
  MaxListed = 2
  MaxDraft = 4
  MaxPresses = 4
  MaxFailed = 1
INVARIANT AppKept
INVARIANT FilesKept
PROPERTY TypingAndPromptKept
PROPERTY MemoryKept
PROPERTY DefinitionsKept
CHECK_DEADLOCK FALSE
