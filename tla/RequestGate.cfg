SPECIFICATION Spec
CONSTANTS
  Request = {r1, r2}
  Token <- MCToken
  FirstToken = "root"
  Tenant = {"dev", "acme"}
  TenantOf <- MCTenantOf
  ScopesOf <- MCScopesOf
  Minute = 2
  Limit = 1
  TTL = 2
  Lifetime = 1
  MaxTime = 3
SYMMETRY RequestSymmetry
INVARIANTS LimitPerMinute
PROPERTIES ExpiredTokensFade RetryAfterSuffices
