CHECK_DEADLOCK FALSE
SPECIFICATION ExamplesSpec
CONSTANTS
  Outgoing = {out1}
  Incoming = {in1}
  MaxObjects = 3
  MaxMessages = 2
  MaxRetval = 2
  NoText = NoText
  Elements <- SomeElements
  Names = {"a1", "a2", ""}
  Values = {"v1", "v2"}
  AttributeLists <- SomeLists
  Children <- SomeChildren
  MaxAsked = 3
 
INVARIANT OutcomeOnce
INVARIANT SafeToDrop
INVARIANT PassedIsHeard
INVARIANT PointerIsLatest
INVARIANT EqualBothWays
INVARIANT ExtractedAsBuilt
PROPERTY OverIsOver
