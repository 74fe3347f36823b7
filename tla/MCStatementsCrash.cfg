CONSTANTS
  None = None
  r1 = r1
  r2 = r2
  r3 = r3
  Job = {1, 2}
  Worker = {w1}
  RunId = {r1, r2}
  Gate = {gA, gB}
  Ingester = {server}
  Descriptor <- MCDescriptor
  Task <- MCTask
  Payload <- MCPayload
  LeaseDuration = 1
  WorkerOffline = 0
SYMMETRY MCSymmetry
SPECIFICATION CrashSpec
INVARIANTS
  RestartCanReconcile
