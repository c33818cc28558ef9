SPECIFICATION CacheLiveSpec
CONSTANTS
  Points = {p1}
  Tasks = {t1}
  Refreshers = {r1, r2}
  MaxVersion = 1
  MaxGen = 1
INVARIANTS
  CacheTypeOK
  OneOperatorCached
  RefreshIsSingleFlight
PROPERTY RecoversWhenHealthy
