\* Two requests of any kind ("execute" is answered as "write" is) and two calls
\* of the application; one attribute, so that a second value finds no room.
SPECIFICATION RequestsSpec
CONSTANTS
  Width = 8
  Kinds = {"read", "discover", "write", "observe", "cancel", "params"}
  Objects = {o1}
  Resources = {r1}
  AttributeCount = 1
  ActionCount = 0
  Results = {"content", "continue", "refused", "wronguri"}
  Values = {"none", "valid"}
  Unserializable = TRUE
  StartMid = 1
  MaxMessages = 2
  MaxCalls = 2
  MaxLosses = 1
  MaxObserves = 2
INVARIANTS IdsAreUnique ObservationsAreAgreed AnswersAreFresh
CHECK_DEADLOCK FALSE
