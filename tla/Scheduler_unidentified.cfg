SPECIFICATION Spec
CONSTANTS
  Job = {1, 2}
  Client = {c1, c2}
  Nobody = Nobody
  Starts <- Unidentified
  NResources = 2
  Pool <- Pools
  Fixed = {2}
  Exclusive = {1, 2}
  Recorded = {}
  Tenant <- Tenants
  Priority <- Priorities
  MaxParallel <- Parallel
  TenantMax = 0
  Foreign = {qllm}
  Owner <- Owners
  Adoptable <- Adopting
  Free = Free
  Ttl = 2
  qllm = qllm
INVARIANT LimitsHold
