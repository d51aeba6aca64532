\* Two database sessions, of which one may run the controller's facts loop; two
\* tasks (one may wait for the other, or check it); one stop in force at a time,
\* of everything or of the first task.
SPECIFICATION Spec
CONSTANTS
  Sessions = {s1, s2}
  Controllers = {s1}
  t1 = t1
  t2 = t2
  Tasks = {t1, t2}
  ById <- OrderedById
  None = None
  Work = {t1}
  InRepo = {t1, t2}
  Shapes <- TwoShapes
  Edges <- OneEdge
  Stoppable <- WorkStops
  MaxStops = 1
INVARIANTS MissionTypeOK  DoneButForRework
CONSTRAINT SecondLandsFree
PROPERTIES LeasedUnheld ReadiedOnAccepted CardLeavesNothing ClosedOffMain
