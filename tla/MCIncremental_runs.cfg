CONSTANTS
  Packages <- AllPackages
  Base = "image"
  Depends <- Graph
  Sources <- AllSources
  Shows <- Outputs
  Embedding <- AllButTool
  Intercepting <- Tool
  Gathering <- Image
  DirectOnly <- Nobody
  InterceptingInstall <- Nobody
  Hashing <- ToolAndLibrary
  Local <- Library
  Orders <- AllOrders
SPECIFICATION Spec
INVARIANTS
  TypeOK
  AllUpToDate
  NothingToDo
