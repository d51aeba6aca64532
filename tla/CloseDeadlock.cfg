\* As MissionWork.cfg: one controller, its close of a mission with two roots against a
\* red landing CI.
SPECIFICATION Spec
CONSTANTS
  Sessions = {s1, s2}
  Controllers = {s1}
  t1 = t1
  t2 = t2
  Tasks = {t1, t2}
  ById <- OrderedById
  None = None
  Work = {t1}
  InRepo = {t1, t2}
  Shapes <- TwoShapes
  Edges <- OneEdge
  Stoppable <- WorkStops
  MaxStops = 1
INVARIANTS NoWaitCycle
