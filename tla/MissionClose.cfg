\* One controller: its close of the mission against a red landing CI.
SPECIFICATION Spec
CONSTANTS
  Sessions = {s1, s2}
  Controllers = {s1}
  t1 = t1
  t2 = t2
  Tasks = {t1, t2}
  ById <- OrderedById
  None = None
  Work = {t1}
  InRepo = {t1}
  Shapes <- TwoShapes
  Edges <- OneEdge
  Stoppable <- WorkStops
  MaxStops = 1
INVARIANTS DoneIsFinished
