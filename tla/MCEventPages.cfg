SPECIFICATION Spec
CONSTANTS
  Thread = {t1, t2}
  Case = {c1, c2}
  e1 = e1
  e2 = e2
  timeline = timeline
  Processes = processes
  Event = {e1, e2}
  View = {processes, timeline}
  Filter <- MCFilter
  Observation = {e1}
  Capacity = 2
  MaxRevision = 2
SYMMETRY Symmetry
INVARIANTS
  PagesMatchTheirRevision
  CacheStaysBounded
  EvictionsFailByInterference
