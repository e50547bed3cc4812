CONSTANTS
  llm = llm
  gateway = gateway
  node1 = node1
  node2 = node2
  Deployments = {llm, gateway}
  Gpu = {llm}
  Workers = {node1, node2}
  ControlPlane = node0
  Home <- MCHome
  MaxReplicas = 1
  MaxMishaps = 1
  Null = Null
SPECIFICATION FairSpec
INVARIANTS TypeOK RestoresWhatRan NoPodWhileDown NoStorm
PROPERTY ScriptsEnd
