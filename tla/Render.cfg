SPECIFICATION ReadsSpec
CONSTANTS
  Paths = {"a", "b"}
  Bytes = {"t", "<no", "value>", "unknown", "1", "2", "error"}
  Names = {"main", "h"}
  Nodes <- MCNodes
  LoopNodes <- MCLoopNodes
  Templates <- MCTemplates
  Straight <- MCStraight
  MaxGuards = 4
  MaxDepth = 3
  MaxIncludes = 2
INVARIANTS TypeOK SpansTile FinishKeepsBytes SeesEveryRead
PROPERTIES ExplorationInvisible
