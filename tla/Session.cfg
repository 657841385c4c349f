SPECIFICATION FairSpec
CONSTANTS
  Keys = {k1}
  MaxItems = 1
  MaxRetries = 0
  Viewers = {v1}
  MaxLog = 2
  Capacity = 1
  Languages <- JavaThenGo
  Agents = {"claude", "pi", "reference"}
  Categories = {"polyglot", "aoc"}
  MaxLines = 2
INVARIANTS
  TypeOK
  CompletedIsEarned
  OnlyErrorsLeak
PROPERTIES
  StreamsEnd
CHECK_DEADLOCK FALSE
