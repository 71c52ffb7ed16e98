SPECIFICATION Spec
CONSTANTS
  n1 = n1
  n2 = n2
  f = f
  g = g
  v1 = v1
  v2 = v2
  loop = loop
  backfill = backfill
  reader1 = reader1
  Feed <- Rows
  Recent <- RecentRows
  Watchlist <- Names
  Name <- NameOf
  Writer = {loop, backfill}
  Loop = {loop}
  Reader = {reader1}
  Instant = {1, 2}
INVARIANT
  CoveredIsComplete
