CONSTANTS
  None = None
  w1 = w1
  w2 = w2
  r1 = r1
  r2 = r2
  gA = gA
  gB = gB
  Worker = {w1, w2}
  RunId = {r1, r2}
  Gate = {gA, gB}
  Descriptor <- MCDescriptor
  WorkerDescriptor <- MCWorkerDescriptor
  Task <- MCTask
  Payload <- MCPayload
  AdapterResult <- MCAdapterResult
  LeaseDuration = 0
  WorkerOffline = 0
  Job = {1, 2}
  MaxCrash = 1
SPECIFICATION HSpec
SYMMETRY MCSymmetry
INVARIANTS
  EnvelopesSound
  ExecutionsSound
