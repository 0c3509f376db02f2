CONSTANTS
  Block <- MCBlock
  entryBB <- MCEntry
  host <- MCHost
  succ <- MCSucc
  Size <- MCSize
  Target <- MCTarget
  main = "e"
  Contexts <- MCContexts
  Subjects <- MCSubjects
  Blocklists <- MCBlocklists
  N = 4
  Graphs <- MCGraphs
  Uses <- MCUses
SPECIFICATION FlowSpec
INVARIANTS OrderLeads LongestChain BranchesDecide ReachMeansPath PathMeansReach DomSound
