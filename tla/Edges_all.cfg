SPECIFICATION EdgesSpec
CONSTANTS
  Parts = {"client", "server", "stream", "sse", "hooks", "transform", "access", "tools", "request"}
  MaxCalls = 2
  MaxSseRetries = 2
  MaxRetries = 1
  MaxConnects = 3
  Peers = {"a", "b"}
  MaxConnections = 1
  MaxPosts = 3
  Toolkits <- MCToolkits
  SaidBlocks <- MCSaid
  Buffer = 1
  StreamTexts <- MCTexts
  MaxBuffer = 10
  Chains <- MCChains
  Policies <- MCPolicies
  ToolCalls <- MCToolCalls
  MaxHookTurns = 3
  UserParts <- MCUserParts
  ResultParts <- MCResultParts
  Lengths = {"short", "middle", "long"}
  Models <- MCModels
  MaxTranscript = 4
  Specs = {"openai", "google", "unknown"}
  Hosts = {"thread", "future", "bash", "toolkit", "subprocess", "proxy", "sidecar", "media"}
  Offers <- MCOffers
  Scripts <- MCScripts
  PipeSize = 1
  Askers = {"p", "q"}
  Asked <- MCAsked
  OllamaHosts <- MCOllamaHosts
  KeyRings <- MCKeyRings
  MaxHosts = 1
  TokenWord = 64
  MaxStdout = 2
INVARIANT AnsweredOnceToAsker
INVARIANT HooksKept
INVARIANT ProviderKept
INVARIANT HostKept
PROPERTY ReplyMatches
PROPERTY CallsReturn
CHECK_DEADLOCK FALSE
