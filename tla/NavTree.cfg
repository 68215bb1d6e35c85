SPECIFICATION Spec
CONSTANTS
  Node <- MCNode
  Lazy <- MCLazy
  Page = {"H", "B", "C"}
  Anchor <- MCAnchor
  NoAnchor = ""
  Link <- MCLink
  Index <- MCIndex
  Part <- MCPart
  MainPage = "H"
  MaxLoads = 2
INVARIANTS TypeOK ChildrenOnce SelectionFollows SyncShowsLink
