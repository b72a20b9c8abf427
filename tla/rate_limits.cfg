SPECIFICATION FairSpec
CONSTANTS
  Window = 4
  Limit = 3
  Gateways = {g1, g2}
  Skew = 2
  Requests = {r1, r2}
  Never = Never
INVARIANTS
  LimitKept
  RefusedForCause
  TwiceTheLimitKept
PROPERTIES
  LimitLifts
