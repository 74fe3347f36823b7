CONSTANTS
  None = None
  r1 = r1
  r2 = r2
  r3 = r3
  Job = {1, 2}
  Worker = {w1}
  RunId = {r1, r2}
  Gate = {gA}
  Ingester = {server, cli}
  Descriptor <- MCDescriptor
  Task <- MCTask
  Payload <- MCPayload
  LeaseDuration = 0
  WorkerOffline = 0
SYMMETRY MCSymmetry
SPECIFICATION CrashSpec
INVARIANTS
  AttemptsSound
