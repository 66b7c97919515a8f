SPECIFICATION FairSpec
CONSTANTS
  r = r c = c x = x w = w
  Root = r
  Core = {c}
  Others = {x}
  Nobody = nobody
  Admins = {r}
  Spawners = {r, c}
  Signalled = {c, x}
  Group = {x}
  Workers = {w}
  MaxSpawnDepth = 2
  MaxRestarts = 1
INVARIANTS TypeOK DepthDescends OrphansAreAdopted ActiveAuthenticates
PROPERTIES SigtermEnds
CHECK_DEADLOCK FALSE
