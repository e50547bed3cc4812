\* A tool call, a backend that comes and goes, a server that crashes and is probed.
SPECIFICATION FairSpec
CONSTANTS
  Calls = {c1}
  Asks <- MCAsks
  ToolMaxResults = 5
  ToolTimeout = 5
  ProxyTimeout = 12
  ReadyTimeout = 2
  ProbeTimeout = 1
  ProbeMisses = 3
INVARIANTS TypeOK ResultsCapped
PROPERTIES ServerAnswersFirst ReadyWithoutSearch EveryCallAnswered
