CONSTANTS
  MaxNode = 10
  MaxAddress = 7
  MaxAlive = 2
  NodeId <- MCNodeId
  Address <- MCAddress
  Fact <- MCFact
  Task <- MCTask
  Primitive <- MCPrimitive
  precLists <- MCPrec
  addLists <- MCAdd
  delLists <- MCDel
  actionCosts <- MCCost
  Method <- AllMethods
  decomposedTask <- MCDecomposed
  subTasks <- MCSubTasks
  ordering <- MCOrdering
  initialTask = "top"
  s0 = {}
  gList = {"g"}
SPECIFICATION FairSpec
INVARIANTS
  HeapExact
  NodesExact
  ReachabilityNotStale
PROPERTIES
  CallsReturn
  ImplementsTaskNetwork
