SPECIFICATION TavernSpec
CONSTANTS
  Missions <- MCMissions
  Teams <- MCTeams
  Plans <- MCPlans
  MaxRuns = 2
  MaxManagerLoops = 2
  Steps = {"s"}
  MaxEvents = 7
  MaxFaults = 1
  Callers = {"p", "q"}
  Keys = {"k", "l"}
  MaxCalls = 3
  MaxCached = 1
  MaxSessions = 1
INVARIANT MissionsAreSound
INVARIANT ReplayAgrees
INVARIANT TimelineAgrees
PROPERTY WorkEnds
CHECK_DEADLOCK FALSE
