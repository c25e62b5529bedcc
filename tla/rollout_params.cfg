\* The docstring of update_sampling_params against two calls that overlap.
SPECIFICATION Spec
CONSTANTS
  r1 = r1
  r2 = r2
  Requests = {r1, r2}
  MaxTurns = 1
  MaxBatches = 1
INVARIANT SamplingRestored
CHECK_DEADLOCK FALSE
