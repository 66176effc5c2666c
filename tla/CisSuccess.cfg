\* One read of an object with one attribute, answered in pieces; what is
\* collected can be serialized.
SPECIFICATION RequestsSpec
CONSTANTS
  Width = 8
  Kinds = {"read"}
  Objects = {o1}
  Resources = {r1}
  AttributeCount = 1
  ActionCount = 0
  Results = {"content", "continue"}
  Values = {"valid"}
  Unserializable = FALSE
  StartMid = 1
  MaxMessages = 1
  MaxCalls = 2
  MaxLosses = 0
  MaxObserves = 0
PROPERTY SuccessWasSent
CHECK_DEADLOCK FALSE
