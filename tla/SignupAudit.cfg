SPECIFICATION Spec
CONSTANTS
  Emails = {e1}
  Signups = {s1}
  Tenants = {t1, t2}
  Slugs = {w, x}
  Wanted = w
  Calls = {c1}
  NoEmail = NoEmail
  NoSignup = NoSignup
  NoTenant = NoTenant
  NoSlug = NoSlug
  MaxPlan = 1
  MaxFaults = 1
CHECK_DEADLOCK FALSE
INVARIANT PaidCanRetry
