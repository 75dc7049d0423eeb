\* Two files, two contents, two branches; each behaviour draws on one scenario.
SPECIFICATION Spec
CONSTANTS
  x = x
  y = y
  main = main
  topic = topic
  Paths = {1, 2}
  Contents = {x, y}
  Marked = Marked
  Absent = Absent
  Branches = {main, topic}
  Main = main
  Menus <- Scenarios
  MaxStash = 1
INVARIANTS
  RepositoryVerifies
PROPERTIES
  CommandsKeepWork
SYMMETRY ContentSymmetry
CHECK_DEADLOCK FALSE
