CONSTANTS
  None = None
  w1 = w1
  w2 = w2
  r1 = r1
  r2 = r2
  r3 = r3
  gA = gA
  gB = gB
  Job = {1, 2, 3, 4}
  Worker = {w1, w2}
  RunId = {r1, r2, r3}
  Gate = {gA, gB}
  Descriptor <- DependencyDescriptor
  Task <- DependencyTask
  Payload <- DependencyPayload
  LeaseDuration = 0
  WorkerOffline = 0
SPECIFICATION Spec
SYMMETRY MCSymmetry
INVARIANTS
  RunsAfterDependency
PROPERTIES
  CapacityRespected
