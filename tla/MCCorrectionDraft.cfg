CHECK_DEADLOCK FALSE
SPECIFICATION DraftSpec
SYMMETRY MCPages
CONSTANTS
  Tasks = {1, 2}
  p = p
  q = q
  f = f
  g = g
  Trajs = {p, q}
  Prints = {f, g}
  Judged <- MCJudged
  Feed <- MCFeed
  First <- MCFirst
  Requests <- MCRequests
  Unjudged = Unjudged
  Texts = {x}
  Fields = {"action", "text"}
  Pages = {c1, c2}
  Jobs = {j}
  None = None
  MaxMade = 4
INVARIANTS
  LatestWriteKept
  NothingMisplaced
