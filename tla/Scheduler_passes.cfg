SPECIFICATION FairSpec
CONSTANTS
  Job = {1, 2}
  Client = {c1, c2}
  Nobody = Nobody
  Starts <- Scenarios
  NResources = 2
  Pool <- Pools
  Fixed = {2}
  Exclusive = {2}
  Recorded = {}
  Tenant <- Tenants
  Priority <- Priorities
  MaxParallel <- Parallel
  TenantMax = 0
  Foreign = {qllm}
  Owner <- Owners
  Adoptable <- Adopting
  Free = Free
  Ttl = 2
  qllm = qllm
INVARIANTS SchedulerInv EveryRowLogged PlacedWorkHoldsLease LimitsHold
PROPERTIES WritesOneRow GateMeaning NoRerun QueuedRuns
