CONSTANTS
  r1 = r1  r2 = r2  r3 = r3  p1 = p1
  Requests = {r1, r2, r3}
  endpoint <- MCEndpoint
  Posters = {p1}
  Refusable = {r1}
  Metered = {1}
CHECK_DEADLOCK FALSE
SPECIFICATION FairSpec
INVARIANTS TypeOK QueueSorted OneOwner OncePerThread OnceUnlessShared SafeUnlessShared
PROPERTIES ImplementsPromise QueueDrains
