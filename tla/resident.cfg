CONSTANTS
  p1 = p1
  p2 = p2
  p3 = p3
  Pid = {p1, p2, p3}
  Count <- MCCount
  Hash <- MCHash
  Thread = {t1, t2}
SPECIFICATION FairSpec
INVARIANTS Exact NeverMissed
PROPERTIES InsertEnds
